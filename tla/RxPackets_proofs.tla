-------------------------- MODULE RxPackets_proofs ---------------------------
(***************************************************************************)
(* Proofs about RxPackets, for packets of any size, any depth of the       *)
(* packet FIFO and a host that reads at any rate: no word of a packet is   *)
(* lost (PacketsArriveWhole), no sample is (SamplesAreKept), and the words *)
(* written are whole packets with the numbers of their samples             *)
(* (WritesRxStream).                                                       *)
(***************************************************************************)
EXTENDS RxPackets, TLAPS

(* What happens t clocks after the first sample of a packet is read.  The  *)
(* operators have sample_width as a parameter.                             *)

RdSize(p) == IF p THEN 4 * ((PCT_SIZE - 2) \div 3) ELSE PCT_SIZE - 2
Stages(p) == IF p THEN 4 ELSE 1

\* bit_pack makes a word of the s-th sample word: of each but the first of four.
Makes(p, s) == s \in 1 .. RdSize(p) /\ (p => s % 4 # 1)

\* The first sample word of which it does.
First(p) == IF p THEN 2 ELSE 1

\* Words made before the s-th sample word, and words sent to the packet FIFO, of
\* which two come out of the shift register after the last sample word.
Made(p, s) == IF p THEN s - 1 - ((s + 2) \div 4) ELSE s - 1
Sent(p, s) ==
    IF s <= First(p) THEN 0
    ELSE IF s <= RdSize(p) + 1 THEN Made(p, s)
    ELSE PCT_SIZE - 3 + s - RdSize(p)

\* The clock before data2packets_fsm is idle again.
Last(p) == RdSize(p) + Stages(p) + 4

\* data2packets_fsm; -1 is every clock between two packets.
ReadAt(p, t) ==
    /\ t = -1 => rx_state \in {"idle", "check_pct_buff"}
    /\ t \in 0 .. RdSize(p) - 1 => rx_state = "rd_smpl_buff"
    /\ t >= RdSize(p) => rx_state = "wait_data2packets_done"
    /\ smpl_rd_cnt = IF t \in 0 .. RdSize(p) THEN t ELSE 0
    /\ smpl_rd_done <=> t \in RdSize(p) - 1 .. RdSize(p) + 1

\* bit_pack
PackAt(p, t) ==
    /\ data_in_valid <=> t \in 1 .. RdSize(p)
    /\ p => wr_cnt = IF t \in 1 .. RdSize(p) THEN (t + 3) % 4 ELSE 0
    /\ \A i \in 1 .. Stages(p) : pack_pipe[i] # NoWord <=> Makes(p, t - i)

\* data2packets, when the s-th word leaves bit_pack.
FormAt(p, s) ==
    /\ s <= First(p) \/ s > RdSize(p) + 2 => form_state = "idle"
    /\ s \in First(p) + 1 .. RdSize(p) - 1 => form_state = "s0"
    /\ s = RdSize(p) => form_state = "s1"
    /\ s \in RdSize(p) + 1 .. RdSize(p) + 2 => form_state = "s2"
    /\ pct_data_wr_cnt = IF s \in First(p) .. RdSize(p) THEN Made(p, s) ELSE 0
    /\ s \in RdSize(p) + 1 .. RdSize(p) + 2 => pct_end_cnt = RdSize(p) + 2 - s
    /\ pct_wrreq_int <=> Makes(p, s - 1) \/ s - RdSize(p) \in {2, 3}
    /\ s \in First(p) + 2 .. RdSize(p) + 3 => ~data2packets_done
    /\ s = RdSize(p) + 4 => data2packets_done

\* The packet FIFO, two clocks later.  Between packets, the write side knows of
\* all words but the very last; in a packet that is let through, room was left
\* for all of it.
RoomAt(p, t, s) ==
    /\ pct_used \in Nat /\ pct_wrusedw \in Nat
    /\ pct_buff_wrreq <=> (Makes(p, s - 2) \/ s - RdSize(p) \in {3, 4}) /\ pct_buff_wr_en
    /\ t = -1 /\ rx_state = "idle" => pct_used <= pct_wrusedw + 1
    /\ t = -1 /\ rx_state = "check_pct_buff" /\ pct_buff_rdy => pct_used <= PCT_DEPTH - PCT_SIZE
    /\ t >= 0 /\ pct_buff_wr_en => pct_used <= PCT_DEPTH - PCT_SIZE + Sent(p, s - 2)

At(p, t) ==
    /\ ReadAt(p, t)
    /\ PackAt(p, t)
    /\ \E s \in Int : s = t - Stages(p) /\ FormAt(p, s) /\ RoomAt(p, t, s)

Follows(p, t, u) == (u = t + 1 /\ t < Last(p)) \/ (u = -1 /\ t \in {-1, Last(p)})

-----------------------------------------------------------------------------

\* The sizes fit: a packet is a whole number of groups of sample words, and its
\* first word reaches data2packets before the last sample is read.
LEMMA Sizes ==
    ASSUME NEW p \in BOOLEAN
    PROVE  /\ RdSize(p) \in Nat /\ Stages(p) \in {1, 4} /\ First(p) \in {1, 2}
           /\ RdSize(p) >= First(p) + Stages(p) + 2
           /\ p => /\ RdSize(p) % 4 = 0 /\ Stages(p) = 4 /\ First(p) = 2
                   /\ RdSize(p) = 4 * ((PCT_SIZE - 2) \div 3)
                   /\ PCT_SIZE - 2 = 3 * ((PCT_SIZE - 2) \div 3)
           /\ ~p => RdSize(p) = PCT_SIZE - 2 /\ Stages(p) = 1 /\ First(p) = 1
<1>1. PCT_SIZE \in Nat /\ PCT_SIZE >= 6 /\ (PCT_SIZE - 2) % 3 = 0
  BY PctSizeAssumption, RxAssumption
<1>2. PICK m : m = (PCT_SIZE - 2) \div 3
  OBVIOUS
<1>3. m \in Nat /\ PCT_SIZE - 2 = 3 * m /\ m >= 2
  BY <1>1, <1>2
<1>4. (4 * m) % 4 = 0
  BY <1>3
<1>. QED  BY <1>1, <1>2, <1>3, <1>4 DEF RdSize, Stages, First

\* Which sample words make a word, and how many there are.
LEMMA Words ==
    ASSUME NEW p \in BOOLEAN
    PROVE  /\ \A s \in Int : s < First(p) => ~Makes(p, s)
           /\ Makes(p, First(p)) /\ Made(p, First(p)) = 0
           /\ Makes(p, RdSize(p)) /\ Makes(p, RdSize(p) - 1)
           /\ \A s \in Int : s > RdSize(p) => ~Makes(p, s)
           /\ \A s \in 1 .. RdSize(p) : Made(p, s) \in Nat /\ Made(p, s + 1) \in Nat
           /\ \A s \in 1 .. RdSize(p) :
                  Made(p, s + 1) = IF Makes(p, s) THEN Made(p, s) + 1 ELSE Made(p, s)
           /\ \A s \in 1 .. RdSize(p) - 2 : Made(p, s) < PCT_SIZE - 4
           /\ Made(p, RdSize(p) - 1) = PCT_SIZE - 4
           /\ Made(p, RdSize(p)) = PCT_SIZE - 3
           /\ Made(p, RdSize(p) + 1) = PCT_SIZE - 2
<1>0. PCT_SIZE \in Nat /\ PCT_SIZE >= 6
  BY PctSizeAssumption
<1>1. CASE ~p
  BY <1>0, <1>1, Sizes DEF Makes, Made
<1>2. CASE p
  <2>1. PICK m \in Nat : m = (PCT_SIZE - 2) \div 3
    BY <1>0
  <2>c. RdSize(p) = 4 * m /\ PCT_SIZE - 2 = 3 * m /\ First(p) = 2
    BY <1>2, <2>1, Sizes, Zenon
  <2>2. m \in Nat /\ PCT_SIZE - 2 = 3 * m /\ m >= 2 /\ RdSize(p) = 4 * m /\ First(p) = 2
    BY <1>0, <2>c
  <2>. HIDE <2>1
  <2>a. \A s \in Int : Makes(p, s) <=> s \in 1 .. 4 * m /\ s % 4 # 1
    BY <1>2, <2>2, Zenon DEF Makes
  <2>b. \A s \in Int : Made(p, s) = s - 1 - ((s + 2) \div 4)
    BY <1>2, Zenon DEF Made
  <2>3. \A s \in Int : s < First(p) => ~Makes(p, s)
    BY <2>2, <2>a
  <2>4. Makes(p, First(p)) /\ Made(p, First(p)) = 0
    BY <2>2, <2>a, <2>b
  <2>5. Makes(p, RdSize(p)) /\ Makes(p, RdSize(p) - 1)
    BY <2>2, <2>a
  <2>6. \A s \in Int : s > RdSize(p) => ~Makes(p, s)
    BY <2>2, <2>a
  <2>7. \A s \in 1 .. RdSize(p) : Made(p, s) \in Nat /\ Made(p, s + 1) \in Nat
    <3>. SUFFICES ASSUME NEW s \in 1 .. RdSize(p) PROVE Made(p, s) \in Nat /\ Made(p, s + 1) \in Nat
      OBVIOUS
    <3>1. s \in Nat /\ s >= 1
      BY <2>2
    <3>2. s - 1 - ((s + 2) \div 4) \in Nat /\ (s + 1) - 1 - ((s + 1 + 2) \div 4) \in Nat
      BY <3>1
    <3>. QED  BY <2>b, <3>1, <3>2
  <2>8. \A s \in 1 .. RdSize(p) :
            Made(p, s + 1) = IF Makes(p, s) THEN Made(p, s) + 1 ELSE Made(p, s)
    <3>. TAKE s \in 1 .. RdSize(p)
    <3>1. s \in Int /\ s + 1 \in Int /\ s \in 1 .. 4 * m
      BY <2>2
    <3>2. /\ s % 4 # 1 => (s + 1 + 2) \div 4 = (s + 2) \div 4
          /\ s % 4 = 1 => (s + 1 + 2) \div 4 = ((s + 2) \div 4) + 1
      BY <3>1
    <3>3. Makes(p, s) <=> s % 4 # 1
      BY <2>a, <3>1
    <3>4. Made(p, s) = s - 1 - ((s + 2) \div 4) /\ Made(p, s + 1) = s + 1 - 1 - ((s + 1 + 2) \div 4)
      BY <2>b, <3>1
    <3>5. (s + 2) \div 4 \in Int
      BY <3>1
    <3>. QED  BY <3>1, <3>2, <3>3, <3>4, <3>5
  <2>10. \A s \in 1 .. RdSize(p) - 2 : Made(p, s) < PCT_SIZE - 4
    <3>. SUFFICES ASSUME NEW s \in 1 .. 4 * m - 2 PROVE Made(p, s) < 3 * m - 2
      <4>1. PCT_SIZE - 4 = 3 * m - 2
        BY <1>0, <2>2
      <4>. QED  BY <2>2, <4>1, Zenon
    <3>1. s - 1 - ((s + 2) \div 4) < 3 * m - 2 /\ s \in Int
      BY <2>2
    <3>. QED  BY <2>b, <3>1, Zenon
  <2>11. /\ Made(p, RdSize(p) - 1) = PCT_SIZE - 4
         /\ Made(p, RdSize(p)) = PCT_SIZE - 3
         /\ Made(p, RdSize(p) + 1) = PCT_SIZE - 2
    <3>1. (4 * m + 2) \div 4 = m /\ (4 * m - 1 + 2) \div 4 = m /\ (4 * m + 1 + 2) \div 4 = m
      BY <2>2
    <3>2. 4 * m \in Int /\ 4 * m - 1 \in Int /\ 4 * m + 1 \in Int
      BY <2>2
    <3>3. /\ Made(p, 4 * m - 1) = 4 * m - 1 - 1 - m
          /\ Made(p, 4 * m) = 4 * m - 1 - m
          /\ Made(p, 4 * m + 1) = 4 * m + 1 - 1 - m
      BY <2>b, <3>1, <3>2
    <3>4. /\ 4 * m - 1 - 1 - m = PCT_SIZE - 4 /\ 4 * m - 1 - m = PCT_SIZE - 3
          /\ 4 * m + 1 - 1 - m = PCT_SIZE - 2
      BY <1>0, <2>2
    <3>. QED  BY <2>2, <3>3, <3>4, Zenon
  <2>. QED  BY <2>3, <2>4, <2>5, <2>6, <2>7, <2>8, <2>10, <2>11, Zenon
<1>. QED  BY <1>1, <1>2

-----------------------------------------------------------------------------
(* One lemma for each part of a clock.                                     *)

\* data2packets_fsm goes round; it does not take data2packets for ready before
\* it has started.
LEMMA ReadNext ==
    ASSUME NEW p \in BOOLEAN, packed = p, NEW t \in -1 .. Last(p),
           ReadAt(p, t), NEW s, s = t - Stages(p), FormAt(p, s), FsmClock
    PROVE  \E u \in -1 .. Last(p) : Follows(p, t, u) /\ ReadAt(p, u)'
<1>1. PICK r : r = RdSize(p)
  OBVIOUS
<1>2. PICK l : l = Stages(p)
  OBVIOUS
<1>3. PICK f : f = First(p)
  OBVIOUS
<1>4. r \in Nat /\ l \in {1, 4} /\ f \in {1, 2} /\ r >= f + l + 2
  BY <1>1, <1>2, <1>3, Sizes
<1>5. SMPL_RD_SIZE = r /\ Last(p) = r + l + 4
  BY <1>1, <1>2 DEF SMPL_RD_SIZE, RdSize, Last
<1>6. t \in Int /\ t >= -1 /\ t <= r + l + 4
  BY <1>4, <1>5
<1>7. /\ t = -1 => rx_state \in {"idle", "check_pct_buff"}
      /\ t \in 0 .. r - 1 => rx_state = "rd_smpl_buff"
      /\ t >= r => rx_state = "wait_data2packets_done"
      /\ smpl_rd_cnt = IF t \in 0 .. r THEN t ELSE 0
      /\ smpl_rd_done <=> t \in r - 1 .. r + 1
  BY <1>1, Zenon DEF ReadAt
<1>8. /\ t - l \in f + 2 .. r + 3 => ~data2packets_done
      /\ t - l = r + 4 => data2packets_done
  BY <1>1, <1>2, <1>3, Zenon DEF FormAt
<1>9. smpl_rd_done' <=> smpl_rd_cnt >= r - 2
  BY <1>5, Zenon DEF FsmClock, RdCount
<1>10. smpl_rd_cnt' = IF rx_state = "rd_smpl_buff" THEN smpl_rd_cnt + 1 ELSE 0
  BY DEF FsmClock, RdCount, SmplRdreq
<1>11. smpl_rd_done' <=> t \in r - 2 .. r
  BY <1>4, <1>6, <1>7, <1>9
<1>12. smpl_rd_cnt' = IF t \in 0 .. r - 1 THEN t + 1 ELSE 0
  BY <1>4, <1>6, <1>7, <1>10
<1>13. /\ t = -1 => rx_state' \in {"idle", "check_pct_buff", "rd_smpl_buff"}
       /\ t \in 0 .. r - 2 => rx_state' = "rd_smpl_buff"
       /\ t \in r - 1 .. r + l + 3 => rx_state' = "wait_data2packets_done"
       /\ t = r + l + 4 => rx_state' = "idle"
  BY <1>4, <1>6, <1>7, <1>8 DEF FsmClock, RxFsm, WaitDone
<1>14. PICK u \in -1 .. r + l + 4 :
           u = IF t = r + l + 4 \/ (t = -1 /\ rx_state' # "rd_smpl_buff") THEN -1 ELSE t + 1
  BY <1>4, <1>6
<1>15. Follows(p, t, u)
  BY <1>4, <1>5, <1>6, <1>14 DEF Follows
<1>16. /\ u = -1 => rx_state' \in {"idle", "check_pct_buff"}
       /\ u \in 0 .. r - 1 => rx_state' = "rd_smpl_buff"
       /\ u >= r => rx_state' = "wait_data2packets_done"
  BY <1>4, <1>6, <1>13, <1>14
<1>17. smpl_rd_cnt' = IF u \in 0 .. r THEN u ELSE 0
  BY <1>4, <1>6, <1>12, <1>13, <1>14
<1>18. smpl_rd_done' <=> u \in r - 1 .. r + 1
  BY <1>4, <1>6, <1>11, <1>13, <1>14
<1>19. ReadAt(p, u)'
  BY <1>1, <1>16, <1>17, <1>18, Zenon DEF ReadAt
<1>. QED  BY <1>5, <1>14, <1>15, <1>19

\* The words of bit_pack, and its registers.
LEMMA PackNext ==
    ASSUME NEW p \in BOOLEAN, packed = p, NEW t \in -1 .. Last(p), NEW u, Follows(p, t, u),
           ReadAt(p, t), PackAt(p, t), PackClock, data_in_valid' = SmplRdreq
    PROVE  PackAt(p, u)'
<1>1. PICK r : r = RdSize(p)
  OBVIOUS
<1>2. PICK l : l = Stages(p)
  OBVIOUS
<1>4. r \in Nat /\ l \in {1, 4} /\ r >= 4
  BY <1>1, <1>2, Sizes
<1>5. PACK_STAGES = l /\ Last(p) = r + l + 4
  BY <1>1, <1>2 DEF PACK_STAGES, Stages, Last
<1>6. /\ t \in Int /\ t >= -1 /\ t <= r + l + 4
      /\ u \in Int /\ (u = t + 1 \/ (u = -1 /\ t \in {-1, r + l + 4}))
  BY <1>4, <1>5 DEF Follows
<1>7. data_in_valid' <=> u \in 1 .. r
  <2>1. data_in_valid' <=> rx_state = "rd_smpl_buff"
    BY Zenon DEF SmplRdreq
  <2>2. rx_state = "rd_smpl_buff" <=> t \in 0 .. r - 1
    BY <1>1, <1>4, <1>6 DEF ReadAt
  <2>. QED  BY <1>4, <1>6, <2>1, <2>2
<1>8. data_in_valid <=> t \in 1 .. r
  BY <1>1, Zenon DEF PackAt
<1>9. ASSUME p PROVE wr_cnt' = IF u \in 1 .. r THEN (u + 3) % 4 ELSE 0
  <2>1. wr_cnt = IF t \in 1 .. r THEN (t + 3) % 4 ELSE 0
    BY <1>1, <1>9, Zenon DEF PackAt
  <2>2. wr_cnt' = IF t \in 1 .. r THEN (wr_cnt + 1) % 4 ELSE wr_cnt
    BY <1>8 DEF PackClock
  <2>3. r % 4 = 0
    BY <1>1, <1>9, Sizes
  <2>4. (0 + 3) % 4 = 3 /\ (1 + 3) % 4 = 0 /\ (3 + 1) % 4 = 0
    OBVIOUS
  <2>5. CASE t \in 1 .. r - 1
    <3>1. (((t + 3) % 4) + 1) % 4 = (t + 1 + 3) % 4
      BY <1>6
    <3>. QED  BY <1>4, <1>6, <2>1, <2>2, <2>5, <3>1
  <2>6. CASE t = r
    <3>1. (r + 3) % 4 = 3
      BY <1>4, <2>3
    <3>. QED  BY <1>4, <1>6, <2>1, <2>2, <2>4, <2>6, <3>1
  <2>7. CASE t \notin 1 .. r
    BY <1>4, <1>6, <2>1, <2>2, <2>4, <2>7
  <2>. QED  BY <1>4, <1>6, <2>5, <2>6, <2>7
<1>10. PackedWord # NoWord <=> Makes(p, t)
  <2>1. PackedWord # NoWord <=> data_in_valid /\ (p => wr_cnt > 0)
    BY DEF PackedWord, NoWord
  <2>2. CASE p
    <3>1. t \in 1 .. r => (wr_cnt > 0 <=> t % 4 # 1)
      <4>1. t \in 1 .. r => wr_cnt = (t + 3) % 4
        BY <1>1, <2>2 DEF PackAt
      <4>2. (t + 3) % 4 > 0 <=> t % 4 # 1
        BY <1>6
      <4>. QED  BY <4>1, <4>2
    <3>. QED  BY <1>1, <1>8, <2>1, <2>2, <3>1, Zenon DEF Makes
  <2>3. CASE ~p
    BY <1>1, <1>8, <2>1, <2>3, Zenon DEF Makes
  <2>. QED  BY <2>2, <2>3
<1>11. ASSUME NEW i \in 1 .. l PROVE pack_pipe'[i] # NoWord <=> Makes(p, u - i)
  <2>1. pack_pipe'[i] = IF i = 1 THEN PackedWord ELSE pack_pipe[i - 1]
    BY <1>5 DEF PackClock
  <2>2. pack_pipe'[i] # NoWord <=> Makes(p, t + 1 - i)
    <3>1. CASE i = 1
      <4>1. t + 1 - i = t
        BY <1>6, <3>1
      <4>. QED  BY <1>10, <2>1, <3>1, <4>1, Zenon
    <3>2. CASE i # 1
      <4>1. i - 1 \in 1 .. l /\ t - (i - 1) = t + 1 - i
        BY <1>4, <1>6, <3>2
      <4>2. pack_pipe[i - 1] # NoWord <=> Makes(p, t - (i - 1))
        BY <1>2, <4>1, Zenon DEF PackAt
      <4>. QED  BY <2>1, <3>2, <4>1, <4>2, Zenon
    <3>. QED  BY <3>1, <3>2
  <2>3. CASE u = t + 1
    BY <2>2, <2>3
  <2>4. CASE u = -1 /\ t \in {-1, r + l + 4}
    <3>1. u - i < 1 /\ (t + 1 - i < 1 \/ t + 1 - i > r)
      BY <1>4, <2>4
    <3>. QED  BY <1>1, <1>4, <1>6, <2>2, <3>1 DEF Makes
  <2>. QED  BY <1>6, <2>3, <2>4
<1>. QED  BY <1>1, <1>2, <1>7, <1>9, <1>11, Zenon DEF PackAt

\* data2packets: the headers go in with the first word, and the shift register is
\* flushed after the last.
LEMMA FormNext ==
    ASSUME NEW p \in BOOLEAN, NEW s \in Int, s <= RdSize(p) + 4, FormAt(p, s),
           NEW u, u = s + 1,
           NEW pct_hdr_0, NEW pct_hdr_1, NEW pct_data, NEW pct_data_wrreq,
           pct_data_wrreq <=> Makes(p, s),
           FormClock(pct_hdr_0, pct_hdr_1, pct_data, pct_data_wrreq),
           data2packets_done' = PctIdle
    PROVE  FormAt(p, u)'
<1>1. PICK r : r = RdSize(p)
  OBVIOUS
<1>2. PICK f : f = First(p)
  OBVIOUS
<1>3. r \in Nat /\ f \in {1, 2} /\ r >= f + 3 /\ PCT_SIZE \in Nat /\ PCT_SIZE >= 6
  BY <1>1, <1>2, Sizes, PctSizeAssumption
<1>4. s \in Int /\ s <= r + 4 /\ u = s + 1
  BY <1>1
<1>5. /\ \A x \in Int : x < f \/ x > r => ~Makes(p, x)
      /\ Makes(p, f) /\ Made(p, f) = 0 /\ Makes(p, r) /\ Makes(p, r - 1)
      /\ \A x \in 1 .. r : Made(p, x) \in Nat
      /\ \A x \in 1 .. r : Made(p, x + 1) = IF Makes(p, x) THEN Made(p, x) + 1 ELSE Made(p, x)
      /\ \A x \in 1 .. r - 2 : Made(p, x) < PCT_SIZE - 4
      /\ Made(p, r - 1) = PCT_SIZE - 4
  BY <1>1, <1>2, Words
<1>6. /\ s <= f \/ s > r + 2 => form_state = "idle"
      /\ s \in f + 1 .. r - 1 => form_state = "s0"
      /\ s = r => form_state = "s1"
      /\ s \in r + 1 .. r + 2 => form_state = "s2"
  BY <1>1, <1>2, Zenon DEF FormAt
<1>7. /\ pct_data_wr_cnt = IF s \in f .. r THEN Made(p, s) ELSE 0
      /\ s \in r + 1 .. r + 2 => pct_end_cnt = r + 2 - s
  BY <1>1, <1>2, Zenon DEF FormAt
<1>8. /\ s < f => form_state' = "idle"
      /\ s = f => form_state' = "s0"
      /\ s \in f + 1 .. r - 2 => form_state' = "s0"
      /\ s = r - 1 => form_state' = "s1"
      /\ s = r => form_state' = "s2"
      /\ s = r + 1 => form_state' = "s2"
      /\ s >= r + 2 => form_state' = "idle"
  <2>1. CASE s < f
    BY <1>3, <1>4, <1>5, <1>6, <2>1 DEF FormClock, FormFsm, FormS0, FormFlush
  <2>2. CASE s = f
    BY <1>3, <1>4, <1>5, <1>6, <2>2 DEF FormClock, FormFsm, FormS0, FormFlush
  <2>3. CASE s \in f + 1 .. r - 2
    <3>1. pct_data_wr_cnt # PCT_SIZE - 4
      BY <1>3, <1>4, <1>5, <1>7, <2>3
    <3>. QED  BY <1>3, <1>4, <1>6, <2>3, <3>1 DEF FormClock, FormFsm, FormS0, FormFlush
  <2>4. CASE s = r - 1
    <3>1. pct_data_wr_cnt = PCT_SIZE - 4
      BY <1>3, <1>4, <1>5, <1>7, <2>4
    <3>. QED  BY <1>3, <1>4, <1>5, <1>6, <2>4, <3>1 DEF FormClock, FormFsm, FormS0, FormFlush
  <2>5. CASE s = r
    BY <1>3, <1>4, <1>5, <1>6, <2>5 DEF FormClock, FormFsm, FormS0, FormFlush
  <2>6. CASE s > r
    BY <1>3, <1>4, <1>5, <1>6, <1>7, <2>6 DEF FormClock, FormFsm, FormS0, FormFlush
  <2>. QED  BY <1>3, <1>4, <2>1, <2>2, <2>3, <2>4, <2>5, <2>6
<1>9. pct_data_wr_cnt' = IF u \in f .. r THEN Made(p, u) ELSE 0
  <2>1. pct_data_wr_cnt' = IF form_state = "s1" THEN 0
                           ELSE IF Makes(p, s) THEN pct_data_wr_cnt + 1 ELSE pct_data_wr_cnt
    BY DEF FormClock, FormCounters
  <2>2. CASE s < f
    BY <1>3, <1>4, <1>5, <1>6, <1>7, <2>1, <2>2
  <2>3. CASE s \in f .. r - 1
    BY <1>3, <1>4, <1>5, <1>6, <1>7, <2>1, <2>3
  <2>4. CASE s >= r
    BY <1>3, <1>4, <1>5, <1>6, <1>7, <2>1, <2>4
  <2>. QED  BY <1>3, <1>4, <2>2, <2>3, <2>4
<1>10. u \in r + 1 .. r + 2 => pct_end_cnt' = r + 2 - u
  <2>1. pct_end_cnt' = IF form_state = "s2" THEN (pct_end_cnt - 1) % 256 ELSE 1
    BY DEF FormClock, FormCounters
  <2>2. CASE s = r
    BY <1>3, <1>4, <1>6, <2>1, <2>2
  <2>3. CASE s = r + 1
    <3>1. (1 - 1) % 256 = 0
      OBVIOUS
    <3>. QED  BY <1>3, <1>4, <1>6, <1>7, <2>1, <2>3, <3>1
  <2>. QED  BY <1>3, <1>4, <2>2, <2>3
<1>11. pct_wrreq_int' <=> Makes(p, u - 1) \/ u - r \in {2, 3}
  <2>1. pct_wrreq_int' <=> Makes(p, s) \/ form_state = "s2"
    BY Zenon DEF FormClock, FormCounters
  <2>2. form_state = "s2" <=> u - r \in {2, 3}
    BY <1>3, <1>4, <1>6
  <2>3. u - 1 = s
    BY <1>4
  <2>. QED  BY <2>1, <2>2, <2>3, Zenon
<1>12. /\ u \in f + 2 .. r + 3 => ~data2packets_done'
       /\ u = r + 4 => data2packets_done'
  <2>1. data2packets_done' <=> form_state = "idle"
    BY Zenon DEF PctIdle
  <2>. QED  BY <1>3, <1>4, <1>6, <2>1
<1>13. /\ u <= f \/ u > r + 2 => form_state' = "idle"
       /\ u \in f + 1 .. r - 1 => form_state' = "s0"
       /\ u = r => form_state' = "s1"
       /\ u \in r + 1 .. r + 2 => form_state' = "s2"
  BY <1>3, <1>4, <1>8
<1>. QED  BY <1>1, <1>2, <1>9, <1>10, <1>11, <1>12, <1>13, Zenon DEF FormAt

\* Before the first word and after the last flush, data2packets is at rest.
LEMMA FormRests ==
    ASSUME NEW p \in BOOLEAN, NEW s \in Int, s <= 0 \/ s = RdSize(p) + 5,
           NEW x \in Int, x <= 0, FormAt(p, s)'
    PROVE  FormAt(p, x)'
<1>1. PICK r : r = RdSize(p)
  OBVIOUS
<1>2. PICK f : f = First(p)
  OBVIOUS
<1>3. r \in Nat /\ f \in {1, 2} /\ r >= f + 3
  BY <1>1, <1>2, Sizes
<1>4. s \in Int /\ (s <= 0 \/ s = r + 5)
  BY <1>1
<1>5. ~Makes(p, s - 1) /\ ~Makes(p, x - 1)
  BY <1>1, <1>3, <1>4 DEF Makes
<1>6. form_state' = "idle" /\ pct_data_wr_cnt' = 0
  BY <1>1, <1>2, <1>3, <1>4 DEF FormAt
<1>7. ~pct_wrreq_int'
  BY <1>1, <1>3, <1>4, <1>5 DEF FormAt
<1>8. /\ ~(x \in f + 1 .. r - 1) /\ x # r /\ ~(x \in r + 1 .. r + 2) /\ ~(x \in f .. r)
      /\ x - r \notin {2, 3} /\ ~(x \in f + 2 .. r + 3) /\ x # r + 4
  BY <1>3
<1>. QED  BY <1>1, <1>2, <1>5, <1>6, <1>7, <1>8, Zenon DEF FormAt

\* Words sent to the packet FIFO: PCT_SIZE of them.
LEMMA SentNext ==
    ASSUME NEW p \in BOOLEAN, NEW s \in Int, s <= RdSize(p) + 2
    PROVE  /\ Sent(p, s) \in Nat
           /\ Sent(p, s + 1) = IF Makes(p, s) \/ s - RdSize(p) \in {1, 2}
                               THEN Sent(p, s) + 1 ELSE Sent(p, s)
           /\ Sent(p, s) < PCT_SIZE
<1>1. PICK r : r = RdSize(p)
  OBVIOUS
<1>2. PICK f : f = First(p)
  OBVIOUS
<1>3. r \in Nat /\ f \in {1, 2} /\ r >= f + 3 /\ PCT_SIZE \in Nat /\ PCT_SIZE >= 6
  BY <1>1, <1>2, Sizes, PctSizeAssumption
<1>4. s \in Int /\ s <= r + 2
  BY <1>1
<1>5. /\ \A x \in Int : x < f \/ x > r => ~Makes(p, x)
      /\ Made(p, f) = 0
      /\ \A x \in 1 .. r : Made(p, x) \in Nat
      /\ \A x \in 1 .. r : Made(p, x + 1) = IF Makes(p, x) THEN Made(p, x) + 1 ELSE Made(p, x)
      /\ \A x \in 1 .. r - 2 : Made(p, x) < PCT_SIZE - 4
      /\ Made(p, r - 1) = PCT_SIZE - 4 /\ Made(p, r) = PCT_SIZE - 3 /\ Made(p, r + 1) = PCT_SIZE - 2
  BY <1>1, <1>2, Words
<1>6. \A x \in Int : Sent(p, x) = IF x <= f THEN 0
                                  ELSE IF x <= r + 1 THEN Made(p, x) ELSE PCT_SIZE - 3 + x - r
  BY <1>1, <1>2, Zenon DEF Sent
<1>7. Sent(p, s) \in Nat /\ Sent(p, s) < PCT_SIZE
  BY <1>3, <1>4, <1>5, <1>6
<1>8. CASE s < f
  BY <1>1, <1>3, <1>4, <1>5, <1>6, <1>7, <1>8
<1>9. CASE s \in f .. r
  BY <1>1, <1>3, <1>4, <1>5, <1>6, <1>7, <1>9
<1>10. CASE s > r
  BY <1>1, <1>3, <1>4, <1>5, <1>6, <1>7, <1>10
<1>. QED  BY <1>3, <1>4, <1>8, <1>9, <1>10

\* A count that may be a clock late is at most one word short.
LEMMA LateCount ==
    ASSUME NEW x \in Nat, NEW y \in Nat, NEW z \in {x, y}, y <= x + 1
    PROVE  y <= z + 1 /\ z \in Nat
OBVIOUS

\* The packet FIFO: room is measured while at most one word is under way, and
\* what is written afterwards is a packet.
LEMMA RoomNext ==
    ASSUME NEW p \in BOOLEAN, NEW t \in -1 .. Last(p), NEW u, Follows(p, t, u),
           NEW s, s = t - Stages(p), NEW v, v = u - Stages(p),
           ReadAt(p, t), ReadAt(p, u)', RoomAt(p, t, s),
           pct_wrreq_int <=> Makes(p, s - 1) \/ s - RdSize(p) \in {2, 3},
           FsmClock, PctRoom, pct_buff_wrreq' = (pct_wrreq_int /\ pct_buff_wr_en),
           NEW early, PctFifoClock(early)
    PROVE  RoomAt(p, u, v)'
<1>1. PICK r : r = RdSize(p)
  OBVIOUS
<1>2. PICK l : l = Stages(p)
  OBVIOUS
<1>3. r \in Nat /\ l \in {1, 4} /\ r >= 4
  BY <1>1, <1>2, Sizes
<1>4. /\ t \in Int /\ t >= -1 /\ t <= r + l + 4 /\ u \in Int
      /\ (u = t + 1 /\ t < r + l + 4) \/ (u = -1 /\ t \in {-1, r + l + 4})
      /\ s = t - l /\ v = u - l
  BY <1>1, <1>2, <1>3 DEF Follows, Last
<1>5. PCT_SIZE \in Nat /\ PCT_DEPTH \in Nat
  BY PctSizeAssumption, RxAssumption
<1>6. \A x \in Int : x < 1 \/ x > r => ~Makes(p, x)
  BY <1>1, <1>3 DEF Makes
<1>7. /\ pct_used \in Nat /\ pct_wrusedw \in Nat
      /\ t = -1 /\ rx_state = "idle" => pct_used <= pct_wrusedw + 1
      /\ t = -1 /\ rx_state = "check_pct_buff" /\ pct_buff_rdy => pct_used <= PCT_DEPTH - PCT_SIZE
      /\ t >= 0 /\ pct_buff_wr_en => pct_used <= PCT_DEPTH - PCT_SIZE + Sent(p, s - 2)
  BY Zenon DEF RoomAt
<1>8. pct_buff_wrreq <=> (Makes(p, s - 2) \/ s - r \in {3, 4}) /\ pct_buff_wr_en
  BY <1>1, Zenon DEF RoomAt
<1>9. pct_buff_wrreq' <=> (Makes(p, s - 1) \/ s - r \in {2, 3}) /\ pct_buff_wr_en
  BY <1>1, Zenon
<1>10. /\ pct_used' \in Nat /\ pct_wrusedw' \in {pct_used, pct_used'}
       /\ pct_used' <= IF pct_buff_wrreq THEN pct_used + 1 ELSE pct_used
       /\ pct_used' <= pct_used + 1
  BY <1>7 DEF PctFifoClock
<1>11. pct_buff_wr_en' <=> IF rx_state = "check_pct_buff" THEN pct_buff_rdy ELSE pct_buff_wr_en
  BY Zenon DEF FsmClock, WrEnable
<1>12. /\ t = -1 => rx_state \in {"idle", "check_pct_buff"}
       /\ t >= 0 => rx_state \notin {"idle", "check_pct_buff"}
  BY <1>1, <1>3, <1>4 DEF ReadAt
<1>13. t = -1 => ~pct_buff_wrreq
  BY <1>3, <1>4, <1>6, <1>8
<1>14. pct_buff_wrreq' <=> (Makes(p, v - 2) \/ v - r \in {3, 4}) /\ pct_buff_wr_en'
  <2>1. CASE t = -1 \/ t = r + l + 4
    <3>1. ~Makes(p, s - 1) /\ s - r \notin {2, 3} /\ ~Makes(p, v - 2) /\ v - r \notin {3, 4}
      BY <1>3, <1>4, <1>6, <2>1
    <3>. QED  BY <1>9, <3>1, Zenon
  <2>2. CASE t # -1 /\ t # r + l + 4
    <3>1. v - 2 = s - 1 /\ (v - r \in {3, 4} <=> s - r \in {2, 3})
      BY <1>3, <1>4, <2>2
    <3>2. pct_buff_wr_en' <=> pct_buff_wr_en
      <4>1. rx_state # "check_pct_buff"
        BY <1>4, <1>12, <2>2
      <4>. QED  BY <1>11, <4>1, Zenon
    <3>. QED  BY <1>9, <3>1, <3>2, Zenon
  <2>. QED  BY <2>1, <2>2
<1>15. pct_used' <= pct_wrusedw' + 1 /\ pct_wrusedw' \in Nat
  <2>1. pct_used \in Nat
    BY <1>7, Zenon
  <2>2. pct_used' \in Nat /\ pct_wrusedw' \in {pct_used, pct_used'} /\ pct_used' <= pct_used + 1
    BY <1>10, Zenon
  <2>. QED  BY <2>1, <2>2, LateCount, Zenon
<1>16. u = -1 /\ rx_state' = "check_pct_buff" /\ pct_buff_rdy' => pct_used' <= PCT_DEPTH - PCT_SIZE
  <2>. SUFFICES ASSUME u = -1, rx_state' = "check_pct_buff", pct_buff_rdy'
                PROVE  pct_used' <= PCT_DEPTH - PCT_SIZE
    OBVIOUS
  <2>1. rx_state = "idle"
    BY DEF FsmClock, RxFsm, WaitDone
  <2>2. t = -1
    BY <1>4, <1>12, <2>1
  <2>3. pct_wrusedw < PCT_DEPTH - PCT_SIZE
    BY Zenon DEF PctRoom
  <2>. QED  BY <1>5, <1>7, <1>10, <1>13, <2>1, <2>2, <2>3
<1>17. u >= 0 /\ pct_buff_wr_en' => pct_used' <= PCT_DEPTH - PCT_SIZE + Sent(p, v - 2)
  <2>. SUFFICES ASSUME u >= 0, pct_buff_wr_en'
                PROVE  pct_used' <= PCT_DEPTH - PCT_SIZE + Sent(p, v - 2)
    OBVIOUS
  <2>1. u = t + 1 /\ v - 2 = (s - 2) + 1 /\ s - 2 \in Int /\ s - 2 <= r + 2
    BY <1>3, <1>4
  <2>2. /\ Sent(p, s - 2) \in Nat
        /\ Sent(p, v - 2) = IF Makes(p, s - 2) \/ s - 2 - r \in {1, 2}
                            THEN Sent(p, s - 2) + 1 ELSE Sent(p, s - 2)
    BY <1>1, <2>1, SentNext
  <2>3. CASE t = -1
    <3>1. rx_state' = "rd_smpl_buff"
      BY <1>1, <1>3, <2>1, <2>3 DEF ReadAt
    <3>2. rx_state = "check_pct_buff"
      BY <1>12, <2>3, <3>1 DEF FsmClock, RxFsm, WaitDone
    <3>3. pct_buff_rdy
      BY <1>11, <3>2, Zenon
    <3>. QED  BY <1>5, <1>7, <1>10, <1>13, <2>2, <2>3, <3>2, <3>3
  <2>4. CASE t >= 0
    <3>1. pct_buff_wr_en
      <4>1. rx_state # "check_pct_buff"
        BY <1>12, <2>4
      <4>. QED  BY <1>11, <4>1, Zenon
    <3>2. pct_used <= PCT_DEPTH - PCT_SIZE + Sent(p, s - 2)
      BY <1>7, <2>4, <3>1, Zenon
    <3>3. s - r \in {3, 4} <=> s - 2 - r \in {1, 2}
      BY <1>3, <1>4
    <3>4. CASE pct_buff_wrreq
      <4>1. Sent(p, v - 2) = Sent(p, s - 2) + 1
        BY <1>8, <2>2, <3>3, <3>4, Zenon
      <4>2. pct_used' <= pct_used + 1
        BY <1>10, <3>4, Zenon
      <4>. QED  BY <1>5, <1>7, <1>10, <2>2, <3>2, <4>1, <4>2
    <3>5. CASE ~pct_buff_wrreq
      <4>1. pct_used' <= pct_used
        BY <1>10, <3>5, Zenon
      <4>2. Sent(p, v - 2) >= Sent(p, s - 2) /\ Sent(p, v - 2) \in Nat
        BY <2>2
      <4>. QED  BY <1>5, <1>7, <1>10, <2>2, <3>2, <4>1, <4>2
    <3>. QED  BY <3>4, <3>5, Zenon
  <2>. QED  BY <1>4, <2>3, <2>4
<1>. QED  BY <1>1, <1>10, <1>14, <1>15, <1>16, <1>17, Zenon DEF RoomAt

-----------------------------------------------------------------------------

\* Nothing has been read, the FIFO is empty.
LEMMA AtInit ==
    ASSUME NEW p \in BOOLEAN, packed = p, Init
    PROVE  -1 \in -1 .. Last(p) /\ At(p, -1)
<1>1. PICK s : s = -1 - Stages(p)
  OBVIOUS
<1>2. /\ RdSize(p) \in Nat /\ Stages(p) \in {1, 4} /\ RdSize(p) >= 4 /\ First(p) \in {1, 2}
      /\ Last(p) = RdSize(p) + Stages(p) + 4 /\ s \in Int /\ s < 0
  BY <1>1, Sizes DEF Last
<1>3. \A x \in Int : x < 1 => ~Makes(p, x)
  BY DEF Makes
<1>4. ReadAt(p, -1)
  BY <1>2 DEF Init, ReadAt
<1>5. PackAt(p, -1)
  <2>1. ~data_in_valid /\ wr_cnt = 0 /\ ~(-1 \in 1 .. RdSize(p))
    BY DEF Init
  <2>2. ASSUME NEW i \in 1 .. Stages(p) PROVE pack_pipe[i] = NoWord /\ ~Makes(p, -1 - i)
    BY <1>2, <1>3 DEF Init, PACK_STAGES, Stages
  <2>. QED  BY <2>1, <2>2, Zenon DEF PackAt
<1>6. FormAt(p, s)
  <2>1. /\ form_state = "idle" /\ pct_data_wr_cnt = 0
        /\ ~pct_wrreq_int /\ ~data2packets_done
    BY DEF Init, FormInit
  <2>2. /\ ~(s \in First(p) + 1 .. RdSize(p) - 1) /\ s # RdSize(p)
        /\ ~(s \in RdSize(p) + 1 .. RdSize(p) + 2) /\ ~(s \in First(p) .. RdSize(p))
        /\ s # RdSize(p) + 4 /\ s - RdSize(p) \notin {2, 3}
    BY <1>2
  <2>3. ~Makes(p, s - 1)
    BY <1>2, <1>3
  <2>. QED  BY <2>1, <2>2, <2>3, Zenon DEF FormAt
<1>7. RoomAt(p, -1, s)
  <2>1. ~pct_buff_wrreq /\ pct_used = 0 /\ pct_wrusedw = 0 /\ rx_state = "idle"
    BY DEF Init
  <2>2. ~Makes(p, s - 2) /\ s - RdSize(p) \notin {3, 4} /\ ~(-1 >= 0) /\ 0 <= 0 + 1 /\ 0 \in Nat
    BY <1>2, <1>3
  <2>. QED  BY <2>1, <2>2 DEF RoomAt
<1>8. -1 \in -1 .. Last(p)
  BY <1>2
<1>. QED  BY <1>1, <1>2, <1>4, <1>5, <1>6, <1>7, <1>8 DEF At

\* A clock moves all parts on together.
LEMMA AtNext ==
    ASSUME NEW p \in BOOLEAN, packed = p, packed' = p, NEW t \in -1 .. Last(p), At(p, t),
           NEW arrives, NEW early_rd, NEW early_wr, Clock(arrives, early_rd, early_wr)
    PROVE  \E u \in -1 .. Last(p) : Follows(p, t, u) /\ At(p, u)'
<1>1. PICK s \in Int : s = t - Stages(p) /\ FormAt(p, s) /\ RoomAt(p, t, s)
  BY Zenon DEF At
<1>2. ReadAt(p, t) /\ PackAt(p, t)
  BY Zenon DEF At
<1>3. RdSize(p) \in Nat /\ Stages(p) \in {1, 4} /\ Last(p) = RdSize(p) + Stages(p) + 4
  BY Sizes DEF Last
<1>4. FsmClock /\ PackClock /\ TopClock /\ PctFifoClock(early_wr)
      /\ FormClock(Hdr0, Hdr1, PctData, PctDataWrreq)
  BY Zenon DEF Clock
<1>5. PICK u \in -1 .. Last(p) : Follows(p, t, u) /\ ReadAt(p, u)'
  BY <1>1, <1>2, <1>4, ReadNext, Zenon
<1>6. PackAt(p, u)'
  BY <1>2, <1>4, <1>5, PackNext, Zenon DEF TopClock
<1>7. PICK v \in Int : v = u - Stages(p)
  BY <1>3
<1>8. FormAt(p, v)'
  <2>1. PctDataWrreq <=> Makes(p, s)
    <3>1. PACK_STAGES = Stages(p) /\ Stages(p) \in 1 .. Stages(p)
      BY <1>3 DEF PACK_STAGES, Stages
    <3>. QED  BY <1>1, <1>2, <3>1, Zenon DEF PctDataWrreq, PctData, PackAt
  <2>2. PICK x \in Int : x = s + 1
    BY <1>1
  <2>3. s <= RdSize(p) + 4
    BY <1>1, <1>3
  <2>4. FormAt(p, x)'
    BY <1>1, <1>4, <2>1, <2>2, <2>3, FormNext, Zenon DEF TopClock
  <2>5. CASE u = t + 1
    <3>1. v = x
      BY <1>1, <1>3, <1>7, <2>2, <2>5
    <3>. QED  BY <2>4, <3>1
  <2>6. CASE u # t + 1
    <3>1. v <= 0 /\ (x <= 0 \/ x = RdSize(p) + 5)
      BY <1>1, <1>3, <1>5, <1>7, <2>2, <2>6 DEF Follows
    <3>. QED  BY <1>7, <2>2, <2>4, <3>1, FormRests, Zenon
  <2>. QED  BY <2>5, <2>6
<1>9. RoomAt(p, u, v)'
  <2>1. pct_wrreq_int <=> Makes(p, s - 1) \/ s - RdSize(p) \in {2, 3}
    BY <1>1, Zenon DEF FormAt
  <2>2. PctRoom /\ pct_buff_wrreq' = (pct_wrreq_int /\ pct_buff_wr_en)
    BY <1>4, Zenon DEF TopClock
  <2>. QED  BY <1>1, <1>2, <1>4, <1>5, <1>7, <2>1, <2>2, RoomNext, Zenon
<1>10. At(p, u)'
  BY <1>5, <1>6, <1>7, <1>8, <1>9, Zenon DEF At
<1>. QED  BY <1>5, <1>10, Zenon

LEMMA AtSame ==
    ASSUME NEW p \in BOOLEAN, NEW t, At(p, t), UNCHANGED vars
    PROVE  At(p, t)'
<1>1. /\ rx_state' = rx_state /\ pct_buff_wr_en' = pct_buff_wr_en
      /\ smpl_rd_cnt' = smpl_rd_cnt /\ smpl_rd_done' = smpl_rd_done
  BY DEF vars, fsmVars
<1>2. /\ data_in_valid' = data_in_valid /\ pct_buff_rdy' = pct_buff_rdy
      /\ data2packets_done' = data2packets_done /\ pct_buff_wrreq' = pct_buff_wrreq
      /\ pct_used' = pct_used /\ pct_wrusedw' = pct_wrusedw
  BY DEF vars, topVars, fifoVars
<1>3. /\ wr_cnt' = wr_cnt /\ pack_pipe' = pack_pipe /\ form_state' = form_state
      /\ pct_data_wr_cnt' = pct_data_wr_cnt /\ pct_end_cnt' = pct_end_cnt
      /\ pct_wrreq_int' = pct_wrreq_int
  BY DEF vars, packVars, formVars
<1>4. PICK s \in Int : s = t - Stages(p) /\ FormAt(p, s) /\ RoomAt(p, t, s)
  BY Zenon DEF At
<1>5. ReadAt(p, t) /\ PackAt(p, t)
  BY Zenon DEF At
<1>6. ReadAt(p, t)'
  BY <1>1, <1>5, Zenon DEF ReadAt
<1>7. PackAt(p, t)'
  BY <1>2, <1>3, <1>5, Zenon DEF PackAt
<1>8. FormAt(p, s)'
  BY <1>2, <1>3, <1>4, Zenon DEF FormAt
<1>9. RoomAt(p, t, s)'
  BY <1>1, <1>2, <1>4, Zenon DEF RoomAt
<1>. QED  BY <1>4, <1>6, <1>7, <1>8, <1>9, Zenon DEF At

-----------------------------------------------------------------------------
(* What travels through the parts: the samples, their numbers, the words.  *)

\* The words of packet k, whose first sample word is n = k * RdSize(p).
PairNo(p, n, j) ==
    IF p THEN <<"data", n + 4 * (j \div 3) + (j % 3), n + 4 * (j \div 3) + (j % 3) + 1>>
         ELSE <<"data", n + j, n + j>>
Word(p, k, i) ==
    IF i = 0 THEN <<"hdr0", 0, 0>>
    ELSE IF i = 1 THEN <<"hdr1", k * RdSize(p), k * RdSize(p)>>
    ELSE PairNo(p, k * RdSize(p), i - 2)

\* The sample FIFO holds the samples received and not yet read, in order; n is the
\* number of the first sample of the packet.  Once a packet is started, all its
\* samples are there: outside the reading, the word counts may only be too small.
SamplesAt(p, t, n) ==
    /\ written \in Nat /\ smpl_cnt \in Nat /\ smpl_rdusedw \in Nat /\ smpl_rdusedw_reg \in Nat
    /\ smpl_cnt = n + (IF t <= 0 THEN 0 ELSE IF t <= RdSize(p) THEN t ELSE RdSize(p))
    /\ smpl_fifo \in Seq(Int)
    /\ written = smpl_cnt + Len(smpl_fifo)
    /\ \A i \in 1 .. Len(smpl_fifo) : smpl_fifo[i] = smpl_cnt + i - 1
    /\ t = -1 /\ rx_state = "check_pct_buff" => Len(smpl_fifo) > RdSize(p)
    /\ t \in 0 .. RdSize(p) => Len(smpl_fifo) >= RdSize(p) - t
    /\ t = -1 \/ t > RdSize(p) => smpl_rdusedw <= Len(smpl_fifo)
    /\ t = -1 \/ t > RdSize(p) + 1 => smpl_rdusedw_reg <= Len(smpl_fifo)
    /\ (t = -1 \/ t > RdSize(p) + 2) /\ smpl_buff_rdy => Len(smpl_fifo) > RdSize(p)

\* A FIFO of consecutive numbers stays one when it is read, and when the next
\* number is written.
LEMMA NumbersRead ==
    ASSUME NEW q \in Seq(Int), NEW c \in Int, \A i \in 1 .. Len(q) : q[i] = c + i - 1, Len(q) > 0
    PROVE  /\ Tail(q) \in Seq(Int) /\ Len(Tail(q)) = Len(q) - 1
           /\ \A i \in 1 .. Len(Tail(q)) : Tail(q)[i] = c + 1 + i - 1
           /\ Head(q) = c
OBVIOUS

LEMMA NumbersWritten ==
    ASSUME NEW q \in Seq(Int), NEW c \in Int, \A i \in 1 .. Len(q) : q[i] = c + i - 1,
           NEW w \in Int, w = c + Len(q)
    PROVE  /\ q \o <<w>> \in Seq(Int) /\ Len(q \o <<w>>) = Len(q) + 1
           /\ \A i \in 1 .. Len(q \o <<w>>) : (q \o <<w>>)[i] = c + i - 1
<1>1. q \o <<w>> = Append(q, w)
  OBVIOUS
<1>. QED  BY <1>1

LEMMA NothingWritten == ASSUME NEW q \in Seq(Int) PROVE q \o <<>> = q
OBVIOUS

LEMMA SamplesNext ==
    ASSUME NEW p \in BOOLEAN, packed = p, NEW t \in -1 .. Last(p), NEW u, Follows(p, t, u),
           ReadAt(p, t), ReadAt(p, u)', NEW n \in Nat, SamplesAt(p, t, n),
           NEW m, m = IF u = -1 /\ t # -1 THEN n + RdSize(p) ELSE n,
           NEW arrives \in BOOLEAN, NEW early \in BOOLEAN, SampleClock(arrives, early),
           CountClock, RxFsm, SmplEnough, smpl_rdusedw_reg' = smpl_rdusedw
    PROVE  /\ SamplesAt(p, u, m)'
           /\ t \in 0 .. RdSize(p) - 1 => Reads /\ Head(smpl_fifo) = n + t
<1>1. PICK r : r = RdSize(p)
  OBVIOUS
<1>2. PICK l : l = Stages(p)
  OBVIOUS
<1>3. r \in Nat /\ l \in {1, 4} /\ r >= 4
  BY <1>1, <1>2, Sizes
<1>4. /\ t \in Int /\ t >= -1 /\ t <= r + l + 4 /\ u \in Int
      /\ (u = t + 1 /\ t < r + l + 4) \/ (u = -1 /\ t \in {-1, r + l + 4})
  BY <1>1, <1>2, <1>3 DEF Follows, Last
<1>5. /\ written \in Nat /\ smpl_cnt \in Nat /\ smpl_rdusedw \in Nat /\ smpl_rdusedw_reg \in Nat
      /\ smpl_fifo \in Seq(Int)
      /\ written = smpl_cnt + Len(smpl_fifo)
      /\ \A i \in 1 .. Len(smpl_fifo) : smpl_fifo[i] = smpl_cnt + i - 1
  BY Zenon DEF SamplesAt
<1>6. /\ smpl_cnt = n + (IF t <= 0 THEN 0 ELSE IF t <= r THEN t ELSE r)
      /\ t = -1 /\ rx_state = "check_pct_buff" => Len(smpl_fifo) > r
      /\ t \in 0 .. r => Len(smpl_fifo) >= r - t
      /\ t = -1 \/ t > r => smpl_rdusedw <= Len(smpl_fifo)
      /\ t = -1 \/ t > r + 1 => smpl_rdusedw_reg <= Len(smpl_fifo)
      /\ (t = -1 \/ t > r + 2) /\ smpl_buff_rdy => Len(smpl_fifo) > r
  BY <1>1, Zenon DEF SamplesAt
<1>7. /\ t = -1 => rx_state \in {"idle", "check_pct_buff"}
      /\ t \in 0 .. r - 1 <=> rx_state = "rd_smpl_buff"
      /\ t >= r => rx_state = "wait_data2packets_done"
      /\ u = -1 => rx_state' \in {"idle", "check_pct_buff"}
      /\ u \in 0 .. r - 1 => rx_state' = "rd_smpl_buff"
      /\ u >= r => rx_state' = "wait_data2packets_done"
  BY <1>1, <1>3, <1>4 DEF ReadAt
<1>8. PICK x \in Nat : x = Len(smpl_fifo)
  BY <1>5
<1>9. /\ t \in 0 .. r - 1 => x > 0 /\ smpl_cnt = n + t
      /\ t \in 0 .. r - 1 => smpl_fifo # <<>>
  BY <1>3, <1>4, <1>5, <1>6, <1>8
<1>a. SmplRdreq <=> t \in 0 .. r - 1
  BY <1>7, Zenon DEF SmplRdreq
<1>b. Reads <=> t \in 0 .. r - 1
  BY <1>9, <1>a, Zenon DEF Reads
<1>10. smpl_cnt' = IF t \in 0 .. r - 1 THEN smpl_cnt + 1 ELSE smpl_cnt
  BY <1>a, Zenon DEF CountClock
<1>11. /\ smpl_fifo' = (IF Reads THEN Tail(smpl_fifo) ELSE smpl_fifo)
                          \o (IF arrives THEN <<written>> ELSE <<>>)
       /\ written' = IF arrives THEN written + 1 ELSE written
       /\ smpl_rdusedw' = IF early THEN Len(smpl_fifo') ELSE Len(smpl_fifo)
  BY Zenon DEF SampleClock
<1>12. PICK h : h = IF t \in 0 .. r - 1 THEN Tail(smpl_fifo) ELSE smpl_fifo
  OBVIOUS
<1>13. /\ h \in Seq(Int) /\ Len(h) = IF t \in 0 .. r - 1 THEN x - 1 ELSE x
       /\ \A i \in 1 .. Len(h) : h[i] = smpl_cnt' + i - 1
       /\ written = smpl_cnt' + Len(h) /\ written \in Int /\ smpl_cnt' \in Int
       /\ t \in 0 .. r - 1 => Head(smpl_fifo) = smpl_cnt
  <2>1. CASE t \in 0 .. r - 1
    <3>1. /\ h \in Seq(Int) /\ Len(h) = x - 1
          /\ \A i \in 1 .. Len(h) : h[i] = smpl_cnt + 1 + i - 1
          /\ Head(smpl_fifo) = smpl_cnt
      <4>1. smpl_cnt \in Int /\ Len(smpl_fifo) > 0
        BY <1>5, <1>8, <1>9, <2>1
      <4>. QED  BY <1>5, <1>8, <1>12, <2>1, <4>1, NumbersRead, Zenon
    <3>2. smpl_cnt' = smpl_cnt + 1
      BY <1>10, <2>1
    <3>. QED  BY <1>5, <1>8, <2>1, <3>1, <3>2
  <2>2. CASE t \notin 0 .. r - 1
    <3>1. h = smpl_fifo /\ smpl_cnt' = smpl_cnt
      BY <1>10, <1>12, <2>2
    <3>. QED  BY <1>5, <1>8, <2>2, <3>1
  <2>. QED  BY <2>1, <2>2
<1>14. PICK y : y = Len(smpl_fifo')
  OBVIOUS
<1>c. /\ smpl_fifo' \in Seq(Int)
      /\ \A i \in 1 .. Len(smpl_fifo') : smpl_fifo'[i] = smpl_cnt' + i - 1
      /\ written' = smpl_cnt' + y /\ y >= Len(h) /\ y \in Nat /\ written' \in Nat
  <2>1. CASE arrives
    <3>1. smpl_fifo' = h \o <<written>> /\ written' = written + 1
      BY <1>b, <1>11, <1>12, <2>1, Zenon
    <3>2. /\ smpl_fifo' \in Seq(Int) /\ Len(smpl_fifo') = Len(h) + 1
          /\ \A i \in 1 .. Len(smpl_fifo') : smpl_fifo'[i] = smpl_cnt' + i - 1
      BY <1>13, <3>1, NumbersWritten, Zenon
    <3>3. Len(h) \in Nat /\ y = Len(smpl_fifo')
      BY <1>13, <1>14
    <3>4. written \in Nat /\ written = smpl_cnt' + Len(h) /\ smpl_cnt' \in Int
      BY <1>5, <1>13, Zenon
    <3>5. written' = smpl_cnt' + y /\ y >= Len(h) /\ y \in Nat /\ written' \in Nat
      BY <3>1, <3>2, <3>3, <3>4
    <3>. QED  BY <3>2, <3>5, Zenon
  <2>2. CASE ~arrives
    <3>1. smpl_fifo' = h \o <<>> /\ written' = written
      BY <1>b, <1>11, <1>12, <2>2, Zenon
    <3>2. smpl_fifo' = h
      BY <1>13, <3>1, NothingWritten, Zenon
    <3>3. Len(h) \in Nat /\ y = Len(smpl_fifo')
      BY <1>13, <1>14
    <3>4. written \in Nat /\ written = smpl_cnt' + Len(h) /\ smpl_cnt' \in Int
      BY <1>5, <1>13, Zenon
    <3>5. written' = smpl_cnt' + y /\ y >= Len(h) /\ y \in Nat /\ written' \in Nat
      BY <3>1, <3>2, <3>3, <3>4
    <3>. QED  BY <1>13, <3>2, <3>5, Zenon
  <2>. QED  BY <2>1, <2>2
<1>15. y \in Nat /\ y >= IF t \in 0 .. r - 1 THEN x - 1 ELSE x
  BY <1>8, <1>9, <1>13, <1>14, <1>c
<1>16. /\ written' \in Nat /\ smpl_cnt' \in Nat /\ smpl_rdusedw' \in Nat /\ smpl_rdusedw_reg' \in Nat
  <2>1. smpl_cnt' \in Nat
    BY <1>5, <1>10
  <2>2. smpl_rdusedw' \in {x, y} /\ x \in Nat /\ y \in Nat
    BY <1>8, <1>11, <1>14, <1>15, Zenon
  <2>. QED  BY <1>5, <1>c, <2>1, <2>2
<1>17. smpl_cnt' = m + (IF u <= 0 THEN 0 ELSE IF u <= r THEN u ELSE r)
  <2>1. m \in Nat /\ m = IF u = -1 /\ t # -1 THEN n + r ELSE n
    BY <1>1, <1>3
  <2>2. smpl_cnt = n + (IF t <= 0 THEN 0 ELSE IF t <= r THEN t ELSE r)
    BY <1>6, Zenon
  <2>3. CASE t \in 0 .. r - 1
    BY <1>3, <1>4, <1>10, <2>1, <2>2, <2>3
  <2>4. CASE t = -1
    BY <1>3, <1>4, <1>10, <2>1, <2>2, <2>4
  <2>5. CASE t >= r
    BY <1>3, <1>4, <1>10, <2>1, <2>2, <2>5
  <2>. QED  BY <1>3, <1>4, <2>3, <2>4, <2>5
<1>18. u = -1 /\ rx_state' = "check_pct_buff" => y > r
  <2>. SUFFICES ASSUME u = -1, rx_state' = "check_pct_buff" PROVE y > r
    OBVIOUS
  <2>1. rx_state = "idle" /\ smpl_buff_rdy
    BY DEF RxFsm, WaitDone
  <2>2. t = -1
    BY <1>3, <1>4, <1>7, <2>1
  <2>. QED  BY <1>3, <1>6, <1>8, <1>15, <2>1, <2>2
<1>19. u \in 0 .. r => y >= r - u
  <2>1. CASE t = -1 /\ u = 0
    <3>1. rx_state = "check_pct_buff"
      BY <1>3, <1>7, <2>1 DEF RxFsm, WaitDone
    <3>. QED  BY <1>3, <1>6, <1>8, <1>15, <2>1, <3>1
  <2>2. CASE t # -1
    BY <1>3, <1>4, <1>6, <1>8, <1>15, <2>2
  <2>. QED  BY <1>4, <2>1, <2>2
<1>20. /\ u = -1 \/ u > r => smpl_rdusedw' <= y
       /\ u = -1 \/ u > r + 1 => smpl_rdusedw_reg' <= y
  <2>1. smpl_rdusedw' \in {x, y} /\ x \in Nat /\ y \in Nat
    BY <1>8, <1>11, <1>14, <1>15, Zenon
  <2>2. u = -1 \/ u > r => t \notin 0 .. r - 1
    BY <1>3, <1>4
  <2>3. u = -1 \/ u > r + 1 => t = -1 \/ t > r
    BY <1>3, <1>4
  <2>4. t = -1 \/ t > r => smpl_rdusedw <= x
    BY <1>6, <1>8, Zenon
  <2>5. t \notin 0 .. r - 1 => y >= x
    BY <1>15
  <2>6. t = -1 \/ t > r => t \notin 0 .. r - 1
    BY <1>3, <1>4
  <2>7. smpl_rdusedw_reg' = smpl_rdusedw /\ smpl_rdusedw \in Nat
    BY <1>5, Zenon
  <2>. QED  BY <2>1, <2>2, <2>3, <2>4, <2>5, <2>6, <2>7
<1>21. (u = -1 \/ u > r + 2) /\ smpl_buff_rdy' => y > r
  <2>1. smpl_buff_rdy' <=> smpl_rdusedw_reg > r
    <3>1. SMPL_RD_SIZE = r
      BY <1>1 DEF SMPL_RD_SIZE, RdSize
    <3>. QED  BY <3>1, Zenon DEF SmplEnough
  <2>. QED  BY <1>3, <1>4, <1>5, <1>6, <1>8, <1>15, <2>1
<1>22. SamplesAt(p, u, m)'
  BY <1>1, <1>c, <1>14, <1>16, <1>17, <1>18, <1>19, <1>20, <1>21, Zenon DEF SamplesAt
<1>23. t \in 0 .. r - 1 => Reads /\ Head(smpl_fifo) = n + t
  BY <1>b, <1>9, <1>13
<1>. QED  BY <1>1, <1>22, <1>23

\* The delay chain of smpl_cnt: when the headers enter data2packets, its last stage
\* still has the number of the first sample.
NumberAt(p, t, n) ==
    /\ \A i \in 1 .. NR_STAGES : t \in 0 .. 7 /\ i >= t => nr_chain[i] = n
    /\ \A i \in 1 .. NR_STAGES : t >= RdSize(p) /\ i <= t - RdSize(p) => nr_chain[i] = n + RdSize(p)
    /\ \A i \in 1 .. NR_STAGES : t = -1 /\ (i < 7 \/ rx_state # "idle") => nr_chain[i] = n

LEMMA NumberNext ==
    ASSUME NEW p \in BOOLEAN, packed = p, NEW t \in -1 .. Last(p), NEW u, Follows(p, t, u),
           ReadAt(p, t), ReadAt(p, u)', NEW n \in Nat, NumberAt(p, t, n),
           NEW m, m = IF u = -1 /\ t # -1 THEN n + RdSize(p) ELSE n,
           smpl_cnt = n + (IF t <= 0 THEN 0 ELSE IF t <= RdSize(p) THEN t ELSE RdSize(p)),
           CountClock, RxFsm
    PROVE  NumberAt(p, u, m)'
<1>1. PICK r : r = RdSize(p)
  OBVIOUS
<1>2. PICK l : l = Stages(p)
  OBVIOUS
<1>3. r \in Nat /\ l \in {1, 4} /\ r >= 4 /\ NR_STAGES = 7
  BY <1>1, <1>2, Sizes DEF NR_STAGES
<1>4. /\ t \in Int /\ t >= -1 /\ t <= r + l + 4 /\ u \in Int
      /\ (u = t + 1 /\ t < r + l + 4) \/ (u = -1 /\ t \in {-1, r + l + 4})
  BY <1>1, <1>2, <1>3 DEF Follows, Last
<1>5. /\ \A i \in 1 .. 7 : t \in 0 .. 7 /\ i >= t => nr_chain[i] = n
      /\ \A i \in 1 .. 7 : t >= r /\ i <= t - r => nr_chain[i] = n + r
      /\ \A i \in 1 .. 7 : t = -1 /\ (i < 7 \/ rx_state # "idle") => nr_chain[i] = n
  BY <1>1, <1>3, Zenon DEF NumberAt
<1>6. \A i \in 1 .. 7 : nr_chain'[i] = IF i = 1 THEN smpl_cnt ELSE nr_chain[i - 1]
  BY <1>3 DEF CountClock
<1>7. smpl_cnt = n + (IF t <= 0 THEN 0 ELSE IF t <= r THEN t ELSE r)
  BY <1>1
<1>8. m = IF u = -1 /\ t # -1 THEN n + r ELSE n
  BY <1>1
<1>9. /\ u = 0 /\ t = -1 => rx_state = "check_pct_buff"
      /\ t >= r => rx_state' \in {"wait_data2packets_done", "idle"}
      /\ t = -1 /\ u = -1 => rx_state = "idle" \/ rx_state' = "idle"
  BY <1>1, <1>3, <1>4 DEF ReadAt, RxFsm, WaitDone
<1>10. ASSUME NEW i \in 1 .. 7, u \in 0 .. 7, i >= u PROVE nr_chain'[i] = m
  <2>1. CASE t = -1
    BY <1>4, <1>5, <1>6, <1>7, <1>8, <1>9, <1>10, <2>1
  <2>2. CASE t >= 0
    BY <1>3, <1>4, <1>5, <1>6, <1>7, <1>8, <1>10, <2>2
  <2>. QED  BY <1>4, <2>1, <2>2
<1>11. ASSUME NEW i \in 1 .. 7, u >= r, i <= u - r PROVE nr_chain'[i] = m + r
  BY <1>3, <1>4, <1>5, <1>6, <1>7, <1>8, <1>11
<1>12. ASSUME NEW i \in 1 .. 7, u = -1, i < 7 \/ rx_state' # "idle" PROVE nr_chain'[i] = m
  <2>1. CASE t = -1
    <3>1. i = 1 \/ i - 1 < 7
      OBVIOUS
    <3>. QED  BY <1>5, <1>6, <1>7, <1>8, <1>12, <2>1, <3>1
  <2>2. CASE t = r + l + 4
    <3>1. i < 7
      BY <1>1, <1>3, <1>4, <1>9, <1>12, <2>2 DEF ReadAt, RxFsm, WaitDone
    <3>. QED  BY <1>3, <1>4, <1>5, <1>6, <1>7, <1>8, <1>12, <2>2, <3>1
  <2>. QED  BY <1>4, <1>12, <2>1, <2>2
<1>13. /\ \A i \in 1 .. NR_STAGES : u \in 0 .. 7 /\ i >= u => nr_chain'[i] = m
       /\ \A i \in 1 .. NR_STAGES : u >= RdSize(p) /\ i <= u - RdSize(p) => nr_chain'[i] = m + RdSize(p)
       /\ \A i \in 1 .. NR_STAGES : u = -1 /\ (i < 7 \/ rx_state' # "idle") => nr_chain'[i] = m
  BY <1>1, <1>3, <1>10, <1>11, <1>12
<1>. QED  BY <1>13, Zenon DEF NumberAt

\* What bit_pack makes of the s-th sample word, where it makes a word.
PairOf(p, n, s) ==
    IF p THEN <<"data", n + s - 2, n + s - 1>> ELSE <<"data", n + s - 1, n + s - 1>>

PairsAt(p, t, n) ==
    /\ t \in 1 .. RdSize(p) => smpl_q = n + t - 1
    /\ t \in 2 .. RdSize(p) => data48_in_reg = n + t - 2
    /\ \A i \in 1 .. Stages(p) : Makes(p, t - i) => pack_pipe[i] = PairOf(p, n, t - i)

LEMMA PairsNext ==
    ASSUME NEW p \in BOOLEAN, packed = p, NEW t \in -1 .. Last(p), NEW u, Follows(p, t, u),
           PackAt(p, t), NEW n \in Nat, PairsAt(p, t, n),
           NEW m, m = IF u = -1 /\ t # -1 THEN n + RdSize(p) ELSE n,
           t \in 0 .. RdSize(p) - 1 => smpl_q' = n + t,
           PackClock
    PROVE  PairsAt(p, u, m)'
<1>1. PICK r : r = RdSize(p)
  OBVIOUS
<1>2. PICK l : l = Stages(p)
  OBVIOUS
<1>3. r \in Nat /\ l \in {1, 4} /\ r >= 4 /\ (p => l = 4) /\ (~p => l = 1)
  BY <1>1, <1>2, Sizes
<1>4. /\ t \in Int /\ t >= -1 /\ t <= r + l + 4 /\ u \in Int
      /\ (u = t + 1 /\ t < r + l + 4) \/ (u = -1 /\ t \in {-1, r + l + 4})
  BY <1>1, <1>2, <1>3 DEF Follows, Last
<1>5. /\ t \in 1 .. r => smpl_q = n + t - 1
      /\ t \in 2 .. r => data48_in_reg = n + t - 2
      /\ \A i \in 1 .. l : Makes(p, t - i) => pack_pipe[i] = PairOf(p, n, t - i)
  BY <1>1, <1>2, Zenon DEF PairsAt
<1>6. data_in_valid <=> t \in 1 .. r
  BY <1>1, Zenon DEF PackAt
<1>7. u \in 0 .. r => m = n /\ u = t + 1
  BY <1>1, <1>3, <1>4
<1>8. u \in 1 .. r => smpl_q' = m + u - 1
  BY <1>1, <1>3, <1>4, <1>7
<1>9. u \in 2 .. r => data48_in_reg' = m + u - 2
  <2>1. SUFFICES ASSUME u \in 2 .. r PROVE data48_in_reg' = m + u - 2
    OBVIOUS
  <2>2. t \in 1 .. r /\ u = t + 1 /\ m = n
    BY <1>3, <1>4, <1>7, <2>1
  <2>3. data48_in_reg' = smpl_q
    BY <1>6, <2>2, Zenon DEF PackClock
  <2>. QED  BY <1>4, <1>5, <2>2, <2>3
<1>10. ASSUME Makes(p, t) PROVE PackedWord = PairOf(p, n, t)
  <2>1. t \in 1 .. r /\ (p => t % 4 # 1)
    BY <1>1, <1>10, Zenon DEF Makes
  <2>2. CASE p
    <3>1. t \in 2 .. r
      <4>1. t % 4 # 1
        BY <2>1, <2>2
      <4>2. t # 1
        BY <4>1
      <4>. QED  BY <1>3, <2>1, <4>2
    <3>2. wr_cnt > 0
      <4>1. wr_cnt = (t + 3) % 4
        BY <1>1, <2>1, <2>2, Zenon DEF PackAt
      <4>2. t % 4 # 1
        BY <2>1, <2>2
      <4>. QED  BY <1>4, <4>1, <4>2
    <3>3. PackedWord = <<"data", data48_in_reg, smpl_q>>
      BY <1>6, <2>1, <2>2, <3>2, Zenon DEF PackedWord
    <3>. QED  BY <1>5, <2>1, <2>2, <3>1, <3>3, Zenon DEF PairOf
  <2>3. CASE ~p
    <3>1. PackedWord = <<"data", smpl_q, smpl_q>>
      BY <1>6, <2>1, <2>3, Zenon DEF PackedWord
    <3>. QED  BY <1>5, <2>1, <2>3, <3>1, Zenon DEF PairOf
  <2>. QED  BY <2>2, <2>3
<1>11. ASSUME NEW i \in 1 .. l, Makes(p, u - i) PROVE pack_pipe'[i] = PairOf(p, m, u - i)
  <2>1. u = t + 1 /\ u - i = t - (i - 1) /\ i - 1 \in Int
    <3>1. u - i \in 1 .. r
      BY <1>1, <1>11 DEF Makes
    <3>. QED  BY <1>3, <1>4, <3>1
  <2>2. m = n
    BY <1>4, <2>1
  <2>3. pack_pipe'[i] = IF i = 1 THEN PackedWord ELSE pack_pipe[i - 1]
    BY <1>2, <1>3 DEF PackClock, PACK_STAGES
  <2>4. CASE i = 1
    <3>1. u - i = t
      BY <1>4, <2>1, <2>4
    <3>. QED  BY <1>10, <1>11, <2>2, <2>3, <2>4, <3>1, Zenon
  <2>5. CASE i # 1
    <3>1. i - 1 \in 1 .. l
      BY <1>3, <2>5
    <3>2. pack_pipe'[i] = pack_pipe[i - 1]
      BY <2>3, <2>5
    <3>. QED  BY <1>5, <1>11, <2>1, <2>2, <3>1, <3>2, Zenon
  <2>. QED  BY <2>4, <2>5
<1>. QED  BY <1>1, <1>2, <1>8, <1>9, <1>11, Zenon DEF PairsAt

\* Dividing a packet number and a position back out of the count of words.
LEMMA DivMod ==
    ASSUME NEW P \in Nat, P > 0, NEW k \in Nat, NEW i \in Nat, i < P
    PROVE  (k * P + i) \div P = k /\ (k * P + i) % P = i
OBVIOUS

LEMMA NextPacket ==
    ASSUME NEW P \in Nat, NEW k \in Nat PROVE (k + 1) * P = k * P + P /\ k * P \in Nat
OBVIOUS

\* The word made of sample word s is the data word of that number.
LEMMA PairIsWord ==
    ASSUME NEW p \in BOOLEAN, NEW n \in Nat, NEW s \in Int, Makes(p, s)
    PROVE  PairOf(p, n, s) = PairNo(p, n, Made(p, s))
<1>1. RdSize(p) \in Nat /\ s \in 1 .. RdSize(p) /\ (p => s % 4 # 1)
  BY Sizes, Zenon DEF Makes
<1>2. CASE p
  <2>1. PICK j : j = Made(p, s)
    OBVIOUS
  <2>2. j = s - 1 - ((s + 2) \div 4) /\ s \in Int /\ s >= 1 /\ s % 4 # 1
    <3>1. j = s - 1 - ((s + 2) \div 4)
      BY <1>2, <2>1, Zenon DEF Made
    <3>. QED  BY <1>1, <1>2, <3>1
  <2>. HIDE <2>1
  <2>3. 4 * (j \div 3) + (j % 3) = s - 2 /\ j \in Int
    BY <2>2
  <2>4. /\ n + 4 * (j \div 3) + (j % 3) = n + s - 2
        /\ n + 4 * (j \div 3) + (j % 3) + 1 = n + s - 1
    <3>1. PICK a \in Int : a = 4 * (j \div 3)
      BY <2>3
    <3>2. PICK b \in Int : b = j % 3
      BY <2>3
    <3>3. a + b = s - 2
      BY <2>3, <3>1, <3>2
    <3>4. n + a + b = n + s - 2 /\ n + a + b + 1 = n + s - 1
      BY <2>2, <3>3
    <3>. QED  BY <3>1, <3>2, <3>4, Zenon
  <2>. QED  BY <1>2, <2>1, <2>4, Zenon DEF PairOf, PairNo
<1>3. CASE ~p
  <2>1. Made(p, s) = s - 1
    BY <1>3, Zenon DEF Made
  <2>2. n + (s - 1) = n + s - 1
    BY <1>1
  <2>. QED  BY <1>3, <2>1, <2>2, Zenon DEF PairOf, PairNo
<1>. QED  BY <1>2, <1>3

\* The words of packet k in the shift register, and how many have left it.
WordsAt(p, s, k) ==
    /\ slot = k * PCT_SIZE + Sent(p, s - 1)
    /\ s \in First(p) + 1 .. RdSize(p) + 1 =>
          /\ reg_0 = Word(p, k, Made(p, s) - 1)
          /\ reg_1 = Word(p, k, Made(p, s))
          /\ reg_2 = Word(p, k, Made(p, s) + 1)
    /\ s = RdSize(p) + 2 => reg_0 = Word(p, k, PCT_SIZE - 2) /\ reg_1 = Word(p, k, PCT_SIZE - 1)
    /\ s = RdSize(p) + 3 => reg_0 = Word(p, k, PCT_SIZE - 1)

LEMMA WordsNext ==
    ASSUME NEW p \in BOOLEAN, NEW s \in Int, s <= RdSize(p) + 3, FormAt(p, s),
           NEW k \in Nat, WordsAt(p, s, k),
           NEW u, u = s + 1,
           NEW pct_hdr_0, NEW pct_hdr_1, NEW pct_data, NEW pct_data_wrreq,
           pct_data_wrreq <=> Makes(p, s),
           FormClock(pct_hdr_0, pct_hdr_1, pct_data, pct_data_wrreq),
           s = First(p) => pct_hdr_0 = Word(p, k, 0) /\ pct_hdr_1 = Word(p, k, 1),
           Makes(p, s) => pct_data = Word(p, k, Made(p, s) + 2),
           slot' = IF pct_wrreq_int THEN slot + 1 ELSE slot
    PROVE  WordsAt(p, u, k)'
<1>1. PICK r : r = RdSize(p)
  OBVIOUS
<1>2. PICK f : f = First(p)
  OBVIOUS
<1>3. r \in Nat /\ f \in {1, 2} /\ r >= f + 3 /\ PCT_SIZE \in Nat /\ PCT_SIZE >= 6
  BY <1>1, <1>2, Sizes, PctSizeAssumption
<1>4. s \in Int /\ s <= r + 3 /\ u = s + 1
  BY <1>1
<1>5. /\ \A x \in Int : x < f \/ x > r => ~Makes(p, x)
      /\ Makes(p, f) /\ Made(p, f) = 0 /\ Makes(p, r)
      /\ \A x \in 1 .. r : Made(p, x) \in Nat
      /\ \A x \in 1 .. r : Made(p, x + 1) = IF Makes(p, x) THEN Made(p, x) + 1 ELSE Made(p, x)
      /\ Made(p, r + 1) = PCT_SIZE - 2
  BY <1>1, <1>2, Words
<1>6. /\ s <= f => form_state = "idle"
      /\ s \in f + 1 .. r => form_state \in {"s0", "s1"}
      /\ s \in r + 1 .. r + 2 => form_state = "s2"
  BY <1>1, <1>2, <1>3, <1>4 DEF FormAt
<1>7. slot' = k * PCT_SIZE + Sent(p, u - 1)
  <2>1. pct_wrreq_int <=> Makes(p, s - 1) \/ s - r \in {2, 3}
    BY <1>1, Zenon DEF FormAt
  <2>2. s - 1 \in Int /\ s - 1 <= r + 2 /\ u - 1 = (s - 1) + 1
    BY <1>3, <1>4
  <2>3. /\ Sent(p, s - 1) \in Nat
        /\ Sent(p, u - 1) = IF Makes(p, s - 1) \/ s - 1 - r \in {1, 2}
                            THEN Sent(p, s - 1) + 1 ELSE Sent(p, s - 1)
    BY <1>1, <2>2, SentNext
  <2>4. s - r \in {2, 3} <=> s - 1 - r \in {1, 2}
    BY <1>3, <1>4
  <2>5. slot = k * PCT_SIZE + Sent(p, s - 1)
    BY Zenon DEF WordsAt
  <2>6. PICK c \in Nat : c = k * PCT_SIZE
    BY <1>3, NextPacket
  <2>7. CASE pct_wrreq_int
    <3>1. slot' = slot + 1 /\ Sent(p, u - 1) = Sent(p, s - 1) + 1
      BY <2>1, <2>3, <2>4, <2>7, Zenon
    <3>. QED  BY <2>3, <2>5, <2>6, <3>1
  <2>8. CASE ~pct_wrreq_int
    <3>1. slot' = slot /\ Sent(p, u - 1) = Sent(p, s - 1)
      BY <2>1, <2>3, <2>4, <2>8, Zenon
    <3>. QED  BY <2>5, <3>1
  <2>. QED  BY <2>7, <2>8
<1>8. /\ s \in f + 1 .. r + 1 =>
            /\ reg_0 = Word(p, k, Made(p, s) - 1)
            /\ reg_1 = Word(p, k, Made(p, s))
            /\ reg_2 = Word(p, k, Made(p, s) + 1)
      /\ s = r + 2 => reg_0 = Word(p, k, PCT_SIZE - 2) /\ reg_1 = Word(p, k, PCT_SIZE - 1)
  BY <1>1, <1>2, Zenon DEF WordsAt
<1>9. /\ reg_2' = IF pct_data_wrreq THEN pct_data ELSE reg_2
      /\ IF form_state = "idle" /\ pct_data_wrreq
         THEN reg_0' = pct_hdr_0 /\ reg_1' = pct_hdr_1
         ELSE IF form_state = "s2" \/ pct_data_wrreq
         THEN reg_0' = reg_1 /\ reg_1' = reg_2
         ELSE reg_0' = reg_0 /\ reg_1' = reg_1
  BY DEF FormClock, FormShift
<1>10. u \in f + 1 .. r + 1 =>
            /\ reg_0' = Word(p, k, Made(p, u) - 1)
            /\ reg_1' = Word(p, k, Made(p, u))
            /\ reg_2' = Word(p, k, Made(p, u) + 1)
  <2>1. CASE s = f
    <3>1. Made(p, u) = 1 /\ Made(p, s) = 0 /\ form_state = "idle" /\ pct_data_wrreq
      BY <1>3, <1>4, <1>5, <1>6, <2>1
    <3>2. reg_0' = Word(p, k, 0) /\ reg_1' = Word(p, k, 1) /\ reg_2' = Word(p, k, 0 + 2)
      BY <1>2, <1>5, <1>9, <2>1, <3>1, Zenon
    <3>3. Made(p, u) - 1 = 0 /\ Made(p, u) + 1 = 2 /\ 0 + 2 = 2
      BY <3>1
    <3>. QED  BY <3>1, <3>2, <3>3, Zenon
  <2>2. CASE s \in f + 1 .. r
    <3>1. form_state # "idle" /\ form_state # "s2" /\ Made(p, s) \in Nat
      BY <1>3, <1>4, <1>5, <1>6, <2>2
    <3>2. s \in f + 1 .. r + 1 /\ s \in 1 .. r
      BY <1>3, <1>4, <2>2
    <3>3. CASE Makes(p, s)
      <4>1. Made(p, u) = Made(p, s) + 1
        BY <1>4, <1>5, <3>2, <3>3
      <4>2. reg_0' = reg_1 /\ reg_1' = reg_2 /\ reg_2' = pct_data
        BY <1>9, <3>1, <3>3, Zenon
      <4>3. Made(p, u) - 1 = Made(p, s) /\ Made(p, u) + 1 = Made(p, s) + 2
        BY <3>1, <4>1
      <4>. QED  BY <1>8, <3>2, <3>3, <4>1, <4>2, <4>3, Zenon
    <3>4. CASE ~Makes(p, s)
      <4>1. Made(p, u) = Made(p, s)
        BY <1>4, <1>5, <3>2, <3>4
      <4>2. reg_0' = reg_0 /\ reg_1' = reg_1 /\ reg_2' = reg_2
        BY <1>9, <3>1, <3>4, Zenon
      <4>. QED  BY <1>8, <3>2, <4>1, <4>2, Zenon
    <3>. QED  BY <3>3, <3>4
  <2>. QED  BY <1>3, <1>4, <2>1, <2>2
<1>11. u = r + 2 => reg_0' = Word(p, k, PCT_SIZE - 2) /\ reg_1' = Word(p, k, PCT_SIZE - 1)
  <2>. SUFFICES ASSUME u = r + 2
                PROVE  reg_0' = Word(p, k, PCT_SIZE - 2) /\ reg_1' = Word(p, k, PCT_SIZE - 1)
    OBVIOUS
  <2>1. s = r + 1 /\ s \in f + 1 .. r + 1 /\ form_state = "s2"
    BY <1>3, <1>4, <1>6
  <2>2. Made(p, s) = PCT_SIZE - 2 /\ Made(p, s) + 1 = PCT_SIZE - 1
    BY <1>3, <1>5, <2>1
  <2>3. reg_0' = reg_1 /\ reg_1' = reg_2
    BY <1>9, <2>1
  <2>. QED  BY <1>8, <2>1, <2>2, <2>3, Zenon
<1>12. u = r + 3 => reg_0' = Word(p, k, PCT_SIZE - 1)
  <2>. SUFFICES ASSUME u = r + 3 PROVE reg_0' = Word(p, k, PCT_SIZE - 1)
    OBVIOUS
  <2>1. s = r + 2 /\ form_state = "s2"
    BY <1>3, <1>4, <1>6
  <2>2. reg_0' = reg_1
    BY <1>9, <2>1
  <2>. QED  BY <1>8, <2>1, <2>2, Zenon
<1>. QED  BY <1>1, <1>2, <1>7, <1>10, <1>11, <1>12, Zenon DEF WordsAt

Gap(p) == IF p THEN GAP_PACKED ELSE GAP_PLAIN

\* What is in the sample FIFO, counted in clocks of the sample interface.
Level(p) == Gap(p) * Len(smpl_fifo) - since

\* It grows by one in a clock and shrinks while samples are read.  The counts that
\* start a packet lag by up to three clocks.
LevelAt(p, t) ==
    /\ since \in 0 .. Gap(p) - 1
    /\ smpl_rdusedw <= RdSize(p) => Level(p) <= Gap(p) * RdSize(p) + 1
    /\ smpl_rdusedw_reg <= RdSize(p) => Level(p) <= Gap(p) * RdSize(p) + 2
    /\ ~smpl_buff_rdy => Level(p) <= Gap(p) * RdSize(p) + 3
    /\ t = -1 /\ rx_state = "idle" => Level(p) <= Gap(p) * RdSize(p) + 4
    /\ t = -1 /\ rx_state = "check_pct_buff" => Level(p) <= Gap(p) * RdSize(p) + 5
    /\ t \in 0 .. RdSize(p) => Level(p) <= Gap(p) * RdSize(p) + 6 - (Gap(p) - 1) * t
    /\ t > RdSize(p) => Level(p) <= 6 + t

\* Reading keeps up with the samples.
LEMMA Rate ==
    ASSUME NEW p \in BOOLEAN
    PROVE  /\ Gap(p) \in Nat /\ Gap(p) >= 2 /\ Gap(p) * RdSize(p) \in Nat
           /\ Gap(p) * RdSize(p) >= RdSize(p) + Stages(p) + 7
           /\ (Gap(p) - 1) * RdSize(p) = Gap(p) * RdSize(p) - RdSize(p)
           /\ SMPL_DEPTH \in Nat /\ SMPL_DEPTH >= RdSize(p) + 3
<1>1. PICK G \in Nat : G = Gap(p) /\ G >= 1
  BY RxAssumption DEF Gap
<1>2. PICK r \in Nat : r = RdSize(p) /\ r >= 4
  BY Sizes
<1>3. (G - 1) * r >= Stages(p) + 7
  <2>1. CASE p
    <3>1. G = GAP_PACKED /\ r = 4 * ((PCT_SIZE - 2) \div 3) /\ Stages(p) = 4
      BY <1>1, <1>2, <2>1, Sizes, Zenon DEF Gap
    <3>2. (G - 1) * r >= 11
      BY <3>1, RxAssumption, Zenon
    <3>. QED  BY <3>1, <3>2
  <2>2. CASE ~p
    <3>1. G = GAP_PLAIN /\ r = PCT_SIZE - 2 /\ Stages(p) = 1
      BY <1>1, <1>2, <2>2, Sizes, Zenon DEF Gap
    <3>2. (G - 1) * r >= 8
      BY <3>1, RxAssumption, Zenon
    <3>. QED  BY <3>1, <3>2
  <2>. QED  BY <2>1, <2>2
<1>4. (G - 1) * r = G * r - r /\ G * r \in Nat
  OBVIOUS
<1>5. Stages(p) \in {1, 4}
  BY Sizes
<1>6. G >= 2
  <2>1. G = 1 => (G - 1) * r = 0
    BY <1>2
  <2>. QED  BY <1>1, <1>3, <1>5, <2>1
<1>7. SMPL_DEPTH \in Nat /\ SMPL_DEPTH >= r + 3
  <2>1. PICK m \in Int : m = (PCT_SIZE - 2) \div 3
    BY PctSizeAssumption
  <2>2. (PCT_SIZE - 2) % 3 = 0 /\ PCT_SIZE \in Nat /\ PCT_SIZE >= 6
    BY PctSizeAssumption, RxAssumption
  <2>3. PCT_SIZE - 2 = 3 * m /\ m >= 0
    BY <2>1, <2>2
  <2>4. SMPL_DEPTH \in Nat /\ SMPL_DEPTH >= 4 * m + 3
    BY <2>1, RxAssumption, Zenon
  <2>5. r = 4 * m \/ r = PCT_SIZE - 2
    BY <1>2, <2>1, Zenon DEF RdSize
  <2>. QED  BY <2>3, <2>4, <2>5
<1>. QED  BY <1>1, <1>2, <1>3, <1>4, <1>5, <1>6, <1>7

LEMMA Lengths ==
    ASSUME NEW q \in Seq(Int), NEW w \in Int
    PROVE  /\ Len(q \o <<w>>) = Len(q) + 1 /\ Len(q \o <<>>) = Len(q) /\ Len(q) \in Nat
           /\ q # <<>> => Tail(q) \in Seq(Int) /\ Len(Tail(q)) = Len(q) - 1 /\ Len(q) >= 1
<1>1. q \o <<w>> = Append(q, w) /\ q \o <<>> = q
  OBVIOUS
<1>. QED  BY <1>1

LEMMA LevelStep ==
    ASSUME NEW p \in BOOLEAN, packed = p, NEW t \in -1 .. Last(p),
           ReadAt(p, t), NEW n \in Nat, SamplesAt(p, t, n), since \in 0 .. Gap(p) - 1,
           NEW arrives \in BOOLEAN, NEW early \in BOOLEAN, SampleClock(arrives, early)
    PROVE  /\ Level(p) \in Int /\ Level(p)' \in Int /\ since' \in 0 .. Gap(p) - 1
           /\ Level(p)' <= Level(p) + 1
           /\ t \in 0 .. RdSize(p) - 1 => Level(p)' <= Level(p) + 1 - Gap(p)
           /\ \/ smpl_rdusedw' = Len(smpl_fifo) \/ smpl_rdusedw' = Len(smpl_fifo')
           /\ Len(smpl_fifo) <= RdSize(p) => Level(p) <= Gap(p) * RdSize(p)
           /\ Len(smpl_fifo') <= RdSize(p) => Level(p)' <= Gap(p) * RdSize(p)
<1>1. PICK r \in Nat : r = RdSize(p)
  BY Sizes
<1>2. PICK G \in Nat : G = Gap(p) /\ G >= 2
  BY Rate
<1>3. PICK x \in Nat : x = Len(smpl_fifo)
  BY DEF SamplesAt
<1>4. Reads <=> t \in 0 .. r - 1
  <2>1. t \in Int /\ t >= -1
    OBVIOUS
  <2>2. /\ t = -1 => rx_state \in {"idle", "check_pct_buff"}
        /\ t \in 0 .. r - 1 => rx_state = "rd_smpl_buff"
        /\ t >= r => rx_state = "wait_data2packets_done"
    BY <1>1, Zenon DEF ReadAt
  <2>3. t \in 0 .. r => x >= r - t
    BY <1>1, <1>3, Zenon DEF SamplesAt
  <2>4. t \in 0 .. r - 1 => smpl_fifo # <<>>
    BY <1>3, <2>1, <2>3
  <2>. QED  BY <2>1, <2>2, <2>4 DEF Reads, SmplRdreq
<1>5. smpl_fifo \in Seq(Int) /\ written \in Int
  BY DEF SamplesAt
<1>6. PICK h \in Seq(Int) : /\ h = IF Reads THEN Tail(smpl_fifo) ELSE smpl_fifo
                            /\ Len(h) = IF t \in 0 .. r - 1 THEN x - 1 ELSE x
  <2>1. CASE Reads
    <3>1. smpl_fifo # <<>>
      BY <2>1 DEF Reads
    <3>. QED  BY <1>3, <1>4, <1>5, <2>1, <3>1, Lengths
  <2>2. CASE ~Reads
    BY <1>3, <1>4, <1>5, <2>2
  <2>. QED  BY <2>1, <2>2
<1>7. PICK y \in Nat : /\ y = Len(smpl_fifo')
                       /\ arrives => y = Len(h) + 1 /\ since = 0
                       /\ ~arrives => y = Len(h)
  <2>1. CASE arrives
    <3>1. smpl_fifo' = h \o <<written>> /\ since = 0
      BY <1>6, <2>1, Zenon DEF SampleClock
    <3>. QED  BY <1>5, <2>1, <3>1, Lengths
  <2>2. CASE ~arrives
    <3>1. smpl_fifo' = h \o <<>>
      BY <1>6, <2>2, Zenon DEF SampleClock
    <3>. QED  BY <1>5, <2>2, <3>1, Lengths
  <2>. QED  BY <2>1, <2>2
<1>8. /\ since \in 0 .. G - 1 /\ GAP = G
      /\ since' = IF arrives THEN GAP - 1 ELSE IF since = 0 THEN 0 ELSE since - 1
  BY <1>2, Zenon DEF SampleClock, GAP, Gap
<1>9. PICK e \in Int : e = since' /\ e \in 0 .. G - 1 /\ (arrives => e = G - 1)
                       /\ (~arrives => e >= since - 1)
  <2>1. CASE arrives
    BY <1>2, <1>8, <2>1
  <2>2. CASE ~arrives
    BY <1>2, <1>8, <2>2
  <2>. QED  BY <2>1, <2>2
<1>10. PICK z \in Nat : z = Len(h) /\ G * z \in Nat /\ G * x \in Nat /\ G * y \in Nat
  OBVIOUS
<1>11. /\ G * (z + 1) = G * z + G
       /\ t \in 0 .. r - 1 => G * z = G * x - G
       /\ t \notin 0 .. r - 1 => G * z = G * x
  <2>1. t \in 0 .. r - 1 => z + 1 = x
    BY <1>6, <1>10
  <2>2. G * (z + 1) = G * z + G
    BY <1>10
  <2>3. t \notin 0 .. r - 1 => z = x
    BY <1>6, <1>10
  <2>4. (t \in 0 .. r - 1 => G * z = G * x - G)
    <3>. SUFFICES ASSUME t \in 0 .. r - 1 PROVE G * z = G * x - G
      OBVIOUS
    <3>1. G * x = G * z + G
      BY <2>1, <2>2
    <3>. QED  BY <1>10, <3>1
  <2>. QED  BY <2>2, <2>3, <2>4, Zenon
<1>12. Level(p) = G * x - since /\ Level(p)' = G * y - e
  BY <1>2, <1>3, <1>7, <1>9, Zenon DEF Level
<1>13. G * y - e <= G * z - since + 1
  <2>1. CASE arrives
    <3>1. G * y = G * z + G /\ e = G - 1 /\ since = 0
      BY <1>7, <1>9, <1>10, <1>11, <2>1
    <3>. QED  BY <1>10, <3>1
  <2>2. CASE ~arrives
    <3>1. G * y = G * z /\ e >= since - 1
      BY <1>7, <1>9, <1>10, <2>2
    <3>. QED  BY <1>8, <1>9, <1>10, <3>1
  <2>. QED  BY <2>1, <2>2
<1>14. PICK c \in Int, a \in Int, b \in Int, d \in Int : c = G * x /\ a = G * y /\ b = G * z /\ d = since
  BY <1>8, <1>10
<1>15. /\ a - e <= b - d + 1 /\ b <= c
       /\ t \in 0 .. r - 1 => b = c - G
  <2>1. a - e <= b - d + 1
    BY <1>13, <1>14
  <2>2. (t \in 0 .. r - 1 => b = c - G) /\ (t \notin 0 .. r - 1 => b = c)
    BY <1>11, <1>14
  <2>. QED  BY <2>1, <2>2
<1>16. /\ a - e <= c - d + 1 /\ (t \in 0 .. r - 1 => a - e <= c - d + 1 - G)
  <2>1. a \in Int /\ b \in Int /\ c \in Int /\ d \in Int /\ e \in Int /\ G \in Int
    BY <1>2, <1>9, <1>14
  <2>. QED  BY <1>15, <2>1
<1>17. /\ x <= r => c - d <= G * r
       /\ y <= r => a - e <= G * r
  <2>1. x <= r => G * x <= G * r
    OBVIOUS
  <2>2. y <= r => G * y <= G * r
    OBVIOUS
  <2>3. G * r \in Int
    OBVIOUS
  <2>. QED  BY <1>8, <1>9, <1>14, <2>1, <2>2, <2>3
<1>18. smpl_rdusedw' = x \/ smpl_rdusedw' = y
  BY <1>3, <1>7, Zenon DEF SampleClock
<1>19. Level(p) = c - d /\ Level(p)' = a - e
  BY <1>12, <1>14
<1>20. Level(p) \in Int /\ Level(p)' \in Int
  BY <1>9, <1>14, <1>19
<1>21. since' \in 0 .. Gap(p) - 1
  BY <1>2, <1>9
<1>. QED  BY <1>1, <1>2, <1>3, <1>7, <1>16, <1>17, <1>18, <1>19, <1>20, <1>21, Zenon

LEMMA LevelNext ==
    ASSUME NEW p \in BOOLEAN, packed = p, NEW t \in -1 .. Last(p), NEW u, Follows(p, t, u),
           ReadAt(p, t), ReadAt(p, u)', NEW n \in Nat, SamplesAt(p, t, n), LevelAt(p, t),
           NEW arrives \in BOOLEAN, NEW early \in BOOLEAN, SampleClock(arrives, early),
           RxFsm, SmplEnough, smpl_rdusedw_reg' = smpl_rdusedw
    PROVE  LevelAt(p, u)'
<1>1. PICK r \in Nat : r = RdSize(p)
  BY Sizes
<1>2. PICK l \in {1, 4} : l = Stages(p)
  BY Sizes
<1>3. PICK G \in Nat : G = Gap(p) /\ G >= 2
  BY Rate
<1>4. PICK g \in Nat : g = G * r /\ g >= r + l + 7 /\ (G - 1) * r = g - r
  BY <1>1, <1>2, <1>3, Rate
<1>5. /\ t \in Int /\ t >= -1 /\ t <= r + l + 4 /\ u \in Int
      /\ (u = t + 1 /\ t < r + l + 4) \/ (u = -1 /\ t \in {-1, r + l + 4})
  BY <1>1, <1>2 DEF Follows, Last
<1>6. PICK v \in Int, w \in Int : v = Level(p) /\ w = Level(p)'
  <2>1. since \in 0 .. Gap(p) - 1
    BY Zenon DEF LevelAt
  <2>. QED  BY <2>1, LevelStep
<1>7. /\ since' \in 0 .. Gap(p) - 1
      /\ w <= v + 1
      /\ t \in 0 .. r - 1 => w <= v + 1 - G
      /\ smpl_rdusedw' = Len(smpl_fifo) \/ smpl_rdusedw' = Len(smpl_fifo')
      /\ Len(smpl_fifo) <= r => v <= g
      /\ Len(smpl_fifo') <= r => w <= g
  <2>1. since \in 0 .. Gap(p) - 1
    BY Zenon DEF LevelAt
  <2>. QED  BY <1>1, <1>3, <1>4, <1>6, <2>1, LevelStep, Zenon
<1>8. /\ smpl_rdusedw <= r => v <= g + 1
      /\ smpl_rdusedw_reg <= r => v <= g + 2
      /\ ~smpl_buff_rdy => v <= g + 3
      /\ t = -1 /\ rx_state = "idle" => v <= g + 4
      /\ t = -1 /\ rx_state = "check_pct_buff" => v <= g + 5
      /\ t \in 0 .. r => v <= g + 6 - (G - 1) * t
      /\ t > r => v <= 6 + t
  BY <1>1, <1>3, <1>4, <1>6, Zenon DEF LevelAt
<1>9. /\ t = -1 => rx_state \in {"idle", "check_pct_buff"}
      /\ t \in 0 .. r - 1 => rx_state = "rd_smpl_buff"
      /\ t >= r => rx_state = "wait_data2packets_done"
      /\ u \in 0 .. r - 1 => rx_state' = "rd_smpl_buff"
      /\ u >= r => rx_state' = "wait_data2packets_done"
  BY <1>1, Zenon DEF ReadAt
<1>10. smpl_rdusedw' <= r => w <= g + 1
  <2>1. Len(smpl_fifo) <= r => w <= g + 1
    BY <1>6, <1>7, <1>4
  <2>2. Len(smpl_fifo') <= r => w <= g + 1
    BY <1>6, <1>7, <1>4
  <2>. QED  BY <1>7, <2>1, <2>2, Zenon
<1>11. smpl_rdusedw_reg' <= r => w <= g + 2
  BY <1>4, <1>6, <1>7, <1>8
<1>12. ~smpl_buff_rdy' => w <= g + 3
  <2>1. smpl_buff_rdy' <=> smpl_rdusedw_reg > r
    <3>1. SMPL_RD_SIZE = r
      BY <1>1 DEF SMPL_RD_SIZE, RdSize
    <3>. QED  BY <3>1, Zenon DEF SmplEnough
  <2>2. smpl_rdusedw_reg \in Nat
    BY Zenon DEF SamplesAt
  <2>3. ~smpl_buff_rdy' => smpl_rdusedw_reg <= r
    BY <2>1, <2>2
  <2>4. smpl_rdusedw_reg <= r => w <= g + 3
    BY <1>4, <1>6, <1>7, <1>8
  <2>. QED  BY <2>3, <2>4, Zenon
<1>13. /\ u = -1 /\ t = -1 => rx_state = "idle"
       /\ u = -1 /\ t = -1 /\ rx_state' = "idle" => ~smpl_buff_rdy
       /\ u = 0 => t = -1 /\ rx_state = "check_pct_buff"
       /\ t = r + l + 4 /\ u = -1 => rx_state' # "check_pct_buff"
       /\ u = -1 => rx_state' \in {"idle", "check_pct_buff"}
  <2>1. u = -1 => rx_state' \in {"idle", "check_pct_buff"}
    BY <1>1, Zenon DEF ReadAt
  <2>2. u = -1 /\ t = -1 => rx_state = "idle"
    BY <1>9, <2>1 DEF RxFsm, WaitDone
  <2>3. u = -1 /\ t = -1 /\ rx_state' = "idle" => ~smpl_buff_rdy
    BY <2>2 DEF RxFsm, WaitDone
  <2>4. u = 0 => t = -1
    BY <1>5
  <2>5. u = 0 => rx_state' # "idle" /\ rx_state' # "check_pct_buff"
    BY <1>4, <1>9
  <2>6. u = 0 => rx_state = "check_pct_buff"
    BY <1>9, <2>4, <2>5 DEF RxFsm, WaitDone
  <2>7. t = r + l + 4 /\ u = -1 => rx_state' # "check_pct_buff"
    BY <1>2, <1>9 DEF RxFsm, WaitDone
  <2>. QED  BY <2>1, <2>2, <2>3, <2>4, <2>6, <2>7, Zenon
<1>14. u = -1 /\ rx_state' = "idle" => w <= g + 4
  <2>1. CASE t = -1
    BY <1>4, <1>6, <1>7, <1>8, <1>13, <2>1
  <2>2. CASE t = r + l + 4
    <3>1. r \in Nat /\ l \in Nat /\ g \in Nat /\ v \in Int /\ w \in Int
      BY <1>1, <1>2, <1>4, <1>6
    <3>2. t > r
      BY <1>2, <2>2, <3>1
    <3>3. w <= v + 1 /\ v <= 6 + t /\ g >= r + l + 7
      BY <1>4, <1>7, <1>8, <3>2, Zenon
    <3>. QED  BY <2>2, <3>1, <3>3
  <2>3. u = -1 => t = -1 \/ t = r + l + 4
    BY <1>5
  <2>. QED  BY <2>1, <2>2, <2>3
<1>15. u = -1 /\ rx_state' = "check_pct_buff" => w <= g + 5
  <2>1. u = -1 => t = -1 \/ t = r + l + 4
    BY <1>5
  <2>. QED  BY <1>4, <1>6, <1>7, <1>8, <1>13, <2>1
<1>16. u \in 0 .. r => w <= g + 6 - (G - 1) * u
  <2>1. CASE u = 0
    <3>1. (G - 1) * u = 0
      BY <2>1
    <3>. QED  BY <1>4, <1>6, <1>7, <1>8, <1>13, <2>1, <3>1
  <2>2. CASE u \in 1 .. r
    <3>1. t \in 0 .. r - 1 /\ u = t + 1
      BY <1>5, <2>2
    <3>2. PICK a \in Int : a = (G - 1) * t
      BY <1>5
    <3>3. (G - 1) * u = a + (G - 1)
      BY <1>5, <3>1, <3>2
    <3>4. v <= g + 6 - a
      BY <1>8, <3>1, <3>2
    <3>. QED  BY <1>4, <1>6, <1>7, <3>1, <3>3, <3>4
  <2>. QED  BY <1>5, <2>1, <2>2
<1>17. u > r => w <= 6 + u
  <2>. SUFFICES ASSUME u > r PROVE w <= 6 + u
    OBVIOUS
  <2>1. t >= r /\ u = t + 1
    BY <1>5
  <2>2. CASE t = r
    BY <1>4, <1>6, <1>7, <1>8, <2>1, <2>2
  <2>3. CASE t > r
    BY <1>5, <1>6, <1>7, <1>8, <2>1, <2>3
  <2>. QED  BY <1>5, <2>1, <2>2, <2>3
<1>. QED  BY <1>1, <1>3, <1>4, <1>6, <1>7, <1>10, <1>11, <1>12, <1>14, <1>15, <1>16, <1>17, Zenon DEF LevelAt

LEMMA LowSum ==
    ASSUME NEW a \in Nat, NEW g \in Nat, NEW G \in Nat, NEW v \in Int, NEW d \in Int,
           v = a - d, d <= G - 1, v <= g + 6, G >= 2
    PROVE  ~(a >= g + 4 * G)
OBVIOUS

\* So the sample FIFO never fills.
LEMMA LevelLow ==
    ASSUME NEW p \in BOOLEAN, NEW t \in -1 .. Last(p), ReadAt(p, t), LevelAt(p, t),
           smpl_fifo \in Seq(Int)
    PROVE  Len(smpl_fifo) <= SMPL_DEPTH
<1>1. PICK r \in Nat : r = RdSize(p)
  BY Sizes
<1>2. PICK l \in {1, 4} : l = Stages(p)
  BY Sizes
<1>3. PICK G \in Nat : G = Gap(p) /\ G >= 2
  BY Rate
<1>4. PICK g \in Nat : g = G * r /\ g >= r + l + 7 /\ SMPL_DEPTH \in Nat /\ SMPL_DEPTH >= r + 3
  BY <1>1, <1>2, <1>3, Rate
<1>5. PICK x \in Nat : x = Len(smpl_fifo) /\ G * x \in Nat
  OBVIOUS
<1>6. PICK d \in Int : d = since /\ d <= G - 1
  BY <1>3 DEF LevelAt
<1>7. PICK v \in Int : v = Level(p) /\ v = G * x - d
  BY <1>3, <1>5, <1>6 DEF Level
<1>8. v <= g + 6
  <2>1. /\ t = -1 /\ rx_state = "idle" => v <= g + 4
        /\ t = -1 /\ rx_state = "check_pct_buff" => v <= g + 5
        /\ t \in 0 .. r => v <= g + 6 - (G - 1) * t
        /\ t > r => v <= 6 + t
        /\ t = -1 => rx_state \in {"idle", "check_pct_buff"}
    BY <1>1, <1>3, <1>4, <1>7, Zenon DEF LevelAt, ReadAt
  <2>2. t \in Int /\ t >= -1 /\ t <= r + l + 4
    BY <1>1, <1>2 DEF Last
  <2>3. t >= 0 => (G - 1) * t >= 0 /\ (G - 1) * t \in Int
    BY <1>3, <2>2
  <2>. QED  BY <1>4, <1>7, <2>1, <2>2, <2>3
<1>9. PICK a \in Nat : a = G * x
  BY <1>5
<1>10. ~(a >= g + 4 * G)
  <2>1. v = a - d
    BY <1>7, <1>9
  <2>. QED  BY <1>3, <1>4, <1>6, <1>7, <1>8, <1>9, <2>1, LowSum, Zenon
<1>11. x <= r + 3
  <2>. SUFFICES ASSUME x >= r + 4 PROVE FALSE
    BY <1>1, <1>5
  <2>1. G * x >= G * (r + 4)
    BY <1>3, <1>5
  <2>2. G * (r + 4) = g + 4 * G
    BY <1>4
  <2>3. a >= g + 4 * G
    BY <1>9, <2>1, <2>2
  <2>. QED  BY <1>10, <2>3
<1>. QED  BY <1>4, <1>5, <1>11

-----------------------------------------------------------------------------
(* The invariant.                                                          *)

DataAt(p, t, k) ==
    /\ LevelAt(p, t)
    /\ SamplesAt(p, t, k * RdSize(p))
    /\ NumberAt(p, t, k * RdSize(p))
    /\ PairsAt(p, t, k * RdSize(p))
    /\ \E s \in Int : s = t - Stages(p) /\ WordsAt(p, s, k)

RxInv ==
    /\ packed \in BOOLEAN
    /\ \E t \in -1 .. Last(packed), k \in Nat : At(packed, t) /\ DataAt(packed, t, k)

\* Between two packets: nothing to say but the count of words.
LEMMA WordsRest ==
    ASSUME NEW p \in BOOLEAN, NEW s \in Int, s <= 0, NEW k \in Nat
    PROVE  /\ WordsAt(p, s, k) <=> slot = k * PCT_SIZE
           /\ WordsAt(p, s, k)' <=> slot' = k * PCT_SIZE
<1>1. RdSize(p) \in Nat /\ First(p) \in {1, 2} /\ PCT_SIZE \in Nat
  BY Sizes, PctSizeAssumption
<1>2. /\ s \notin First(p) + 1 .. RdSize(p) + 1
      /\ s # RdSize(p) + 2 /\ s # RdSize(p) + 3 /\ s - 1 <= First(p)
  BY <1>1
<1>3. Sent(p, s - 1) = 0
  BY <1>2, Zenon DEF Sent
<1>4. k * PCT_SIZE + 0 = k * PCT_SIZE
  <2>1. k * PCT_SIZE \in Nat
    BY <1>1, NextPacket
  <2>. QED  BY <2>1
<1>. QED  BY <1>2, <1>3, <1>4, Zenon DEF WordsAt

\* A clock moves the samples and the words on with the parts.
LEMMA DataNext ==
    ASSUME NEW p \in BOOLEAN, packed = p, packed' = p, NEW t \in -1 .. Last(p),
           NEW u \in -1 .. Last(p), Follows(p, t, u), At(p, t), At(p, u)',
           NEW k \in Nat, DataAt(p, t, k),
           NEW arrives \in BOOLEAN, NEW early_rd \in BOOLEAN, NEW early_wr \in BOOLEAN,
           Clock(arrives, early_rd, early_wr)
    PROVE  \E j \in Nat : DataAt(p, u, j)'
<1>1. PICK r : r = RdSize(p)
  OBVIOUS
<1>2. PICK l : l = Stages(p)
  OBVIOUS
<1>3. /\ r \in Nat /\ l \in {1, 4} /\ r >= 4 /\ First(p) \in {1, 2} /\ r >= First(p) + l + 2
      /\ First(p) + l <= 6 /\ PCT_SIZE \in Nat /\ PCT_SIZE >= 6
  BY <1>1, <1>2, Sizes, PctSizeAssumption
<1>4. /\ t \in Int /\ t >= -1 /\ t <= r + l + 4 /\ u \in Int
      /\ (u = t + 1 /\ t < r + l + 4) \/ (u = -1 /\ t \in {-1, r + l + 4})
  BY <1>1, <1>2, <1>3 DEF Follows, Last
<1>5. PICK j \in Nat : j = IF u = -1 /\ t # -1 THEN k + 1 ELSE k
  OBVIOUS
<1>6. PICK n \in Nat : n = k * r
  BY <1>3, NextPacket
<1>7. PICK m \in Nat : m = j * r /\ m = IF u = -1 /\ t # -1 THEN n + RdSize(p) ELSE n
  <2>1. (k + 1) * r = k * r + r
    BY <1>3, NextPacket
  <2>. QED  BY <1>1, <1>3, <1>5, <1>6, <2>1
<1>8. ReadAt(p, t) /\ ReadAt(p, u)' /\ PackAt(p, t)
  BY Zenon DEF At
<1>9. LevelAt(p, t) /\ SamplesAt(p, t, n) /\ NumberAt(p, t, n) /\ PairsAt(p, t, n)
  BY <1>1, <1>6, Zenon DEF DataAt
<1>10. PICK s \in Int : s = t - Stages(p) /\ FormAt(p, s)
  BY Zenon DEF At
<1>11. WordsAt(p, s, k)
  BY <1>10, Zenon DEF DataAt
<1>12. /\ FsmClock /\ SampleClock(arrives, early_rd) /\ CountClock /\ PackClock /\ TopClock
       /\ FormClock(Hdr0, Hdr1, PctData, PctDataWrreq)
       /\ slot' = IF pct_wrreq_int THEN slot + 1 ELSE slot
  BY Zenon DEF Clock
<1>13. /\ SamplesAt(p, u, m)'
       /\ t \in 0 .. r - 1 => Reads /\ Head(smpl_fifo) = n + t
  BY <1>1, <1>7, <1>8, <1>9, <1>12, SamplesNext, Zenon DEF FsmClock, TopClock
<1>14. NumberAt(p, u, m)'
  <2>1. smpl_cnt = n + (IF t <= 0 THEN 0 ELSE IF t <= RdSize(p) THEN t ELSE RdSize(p))
    BY <1>9, Zenon DEF SamplesAt
  <2>. QED  BY <1>7, <1>8, <1>9, <1>12, <2>1, NumberNext, Zenon DEF FsmClock
<1>15. PairsAt(p, u, m)'
  <2>1. t \in 0 .. r - 1 => smpl_q' = n + t
    BY <1>12, <1>13, Zenon DEF SampleClock
  <2>. QED  BY <1>1, <1>7, <1>8, <1>9, <1>12, <2>1, PairsNext, Zenon
<1>16. PICK v \in Int : v = u - Stages(p)
  BY <1>2, <1>3, <1>4
<1>17. WordsAt(p, v, j)'
  <2>1. CASE u = t + 1
    <3>1. PctDataWrreq <=> Makes(p, s)
      <4>1. PACK_STAGES = Stages(p) /\ Stages(p) \in 1 .. Stages(p)
        BY <1>2, <1>3 DEF PACK_STAGES, Stages
      <4>. QED  BY <1>8, <1>10, <4>1, Zenon DEF PctDataWrreq, PctData, PackAt
    <3>2. s = First(p) => Hdr0 = Word(p, k, 0) /\ Hdr1 = Word(p, k, 1)
      <4>. SUFFICES ASSUME s = First(p) PROVE Hdr0 = Word(p, k, 0) /\ Hdr1 = Word(p, k, 1)
        OBVIOUS
      <4>1. NR_STAGES = 7 /\ 7 \in 1 .. 7 /\ t \in 0 .. 7 /\ 7 >= t
        BY <1>2, <1>3, <1>4, <1>10 DEF NR_STAGES
      <4>2. nr_chain[NR_STAGES] = k * RdSize(p)
        BY <1>1, <1>6, <1>9, <4>1, Zenon DEF NumberAt
      <4>3. 1 # 0
        OBVIOUS
      <4>. QED  BY <4>2, <4>3, Zenon DEF Hdr0, Hdr1, Word
    <3>3. Makes(p, s) => PctData = Word(p, k, Made(p, s) + 2)
      <4>. SUFFICES ASSUME Makes(p, s) PROVE PctData = Word(p, k, Made(p, s) + 2)
        OBVIOUS
      <4>1. PACK_STAGES = Stages(p) /\ Stages(p) \in 1 .. Stages(p)
        BY <1>2, <1>3 DEF PACK_STAGES, Stages
      <4>2. PctData = PairOf(p, n, s)
        BY <1>9, <1>10, <4>1, Zenon DEF PctData, PairsAt
      <4>3. PairOf(p, n, s) = PairNo(p, n, Made(p, s))
        BY PairIsWord
      <4>4. Made(p, s) \in Nat
        <5>1. s \in 1 .. RdSize(p)
          BY Zenon DEF Makes
        <5>. QED  BY <5>1, Words
      <4>5. Made(p, s) + 2 # 0 /\ Made(p, s) + 2 # 1 /\ (Made(p, s) + 2) - 2 = Made(p, s)
        BY <4>4
      <4>. QED  BY <1>1, <1>6, <4>2, <4>3, <4>5, Zenon DEF Word
    <3>4. s <= RdSize(p) + 3 /\ v = s + 1 /\ j = k
      BY <1>1, <1>2, <1>3, <1>4, <1>5, <1>10, <1>16, <2>1
    <3>. QED  BY <1>10, <1>11, <1>12, <3>1, <3>2, <3>3, <3>4, WordsNext, Zenon
  <2>2. CASE u # t + 1
    <3>1. v <= 0 /\ u = -1
      BY <1>2, <1>3, <1>4, <1>16, <2>2
    <3>2. slot = j * PCT_SIZE
      <4>1. CASE t = -1
        <5>1. s <= 0 /\ j = k
          BY <1>2, <1>3, <1>5, <1>10, <4>1
        <5>. QED  BY <1>11, <5>1, WordsRest, Zenon
      <4>2. CASE t = r + l + 4
        <5>1. s = r + 4 /\ j = k + 1
          BY <1>2, <1>3, <1>5, <1>10, <3>1, <4>2
        <5>2. s - 1 = r + 3
          BY <1>3, <5>1
        <5>3. Sent(p, r + 3) = PCT_SIZE
          <6>1. ~(r + 3 <= First(p)) /\ ~(r + 3 <= r + 1) /\ PCT_SIZE - 3 + (r + 3) - r = PCT_SIZE
            BY <1>3
          <6>. QED  BY <1>1, <6>1, Zenon DEF Sent
        <5>4. slot = k * PCT_SIZE + PCT_SIZE
          BY <1>11, <5>2, <5>3, Zenon DEF WordsAt
        <5>. QED  BY <1>3, <5>1, <5>4, NextPacket
      <4>. QED  BY <1>3, <1>4, <2>2, <4>1, <4>2
    <3>3. ~pct_wrreq_int
      <4>1. pct_wrreq_int <=> Makes(p, s - 1) \/ s - RdSize(p) \in {2, 3}
        BY <1>10, Zenon DEF FormAt
      <4>2. s <= 0 \/ s = r + 4
        BY <1>2, <1>3, <1>4, <1>10, <2>2
      <4>3. s - r \notin {2, 3} /\ s - 1 \notin 1 .. r
        BY <1>3, <4>2
      <4>. QED  BY <1>1, <4>1, <4>3, Zenon DEF Makes
    <3>4. slot' = j * PCT_SIZE
      BY <1>12, <3>2, <3>3, Zenon
    <3>5. WordsAt(p, v, j)' <=> slot' = j * PCT_SIZE
      BY <3>1, WordsRest, Zenon
    <3>. QED  BY <3>4, <3>5, Zenon
  <2>. QED  BY <2>1, <2>2
<1>18. LevelAt(p, u)'
  BY <1>8, <1>9, <1>12, LevelNext, Zenon DEF FsmClock, TopClock
<1>19. DataAt(p, u, j)'
  BY <1>1, <1>7, <1>13, <1>14, <1>15, <1>16, <1>17, <1>18, Zenon DEF DataAt
<1>. QED  BY <1>5, <1>19, Zenon

LEMMA DataSame ==
    ASSUME NEW p \in BOOLEAN, NEW t, NEW k, DataAt(p, t, k), UNCHANGED vars
    PROVE  DataAt(p, t, k)'
<1>1. /\ written' = written /\ smpl_cnt' = smpl_cnt /\ smpl_rdusedw' = smpl_rdusedw
      /\ smpl_rdusedw_reg' = smpl_rdusedw_reg /\ smpl_fifo' = smpl_fifo
      /\ rx_state' = rx_state /\ smpl_buff_rdy' = smpl_buff_rdy /\ since' = since
  BY DEF vars, smplVars, cntVars, topVars, fsmVars
<1>2. /\ nr_chain' = nr_chain /\ smpl_q' = smpl_q /\ data48_in_reg' = data48_in_reg
      /\ pack_pipe' = pack_pipe /\ slot' = slot
      /\ reg_0' = reg_0 /\ reg_1' = reg_1 /\ reg_2' = reg_2
  BY DEF vars, cntVars, smplVars, packVars, formVars
<1>3. PICK s \in Int : s = t - Stages(p) /\ WordsAt(p, s, k)
  BY Zenon DEF DataAt
<1>4. PICK n : n = k * RdSize(p)
  OBVIOUS
<1>5. LevelAt(p, t) /\ SamplesAt(p, t, n) /\ NumberAt(p, t, n) /\ PairsAt(p, t, n)
  BY <1>4, Zenon DEF DataAt
<1>6. SamplesAt(p, t, n)'
  BY <1>1, <1>5, Zenon DEF SamplesAt
<1>7. NumberAt(p, t, n)'
  BY <1>1, <1>2, <1>5, Zenon DEF NumberAt
<1>8. PairsAt(p, t, n)'
  BY <1>2, <1>5, Zenon DEF PairsAt
<1>9. WordsAt(p, s, k)'
  BY <1>2, <1>3, Zenon DEF WordsAt
<1>10. LevelAt(p, t)'
  BY <1>1, <1>5, Zenon DEF LevelAt, Level
<1>. QED  BY <1>3, <1>4, <1>6, <1>7, <1>8, <1>9, <1>10, Zenon DEF DataAt

LEMMA RxInvInit == Init => RxInv
<1>. SUFFICES ASSUME Init PROVE RxInv
  OBVIOUS
<1>1. PICK p \in BOOLEAN : packed = p
  BY DEF Init
<1>2. -1 \in -1 .. Last(p) /\ At(p, -1)
  BY <1>1, AtInit, Zenon
<1>3. /\ RdSize(p) \in Nat /\ RdSize(p) >= 4 /\ Stages(p) \in {1, 4} /\ NR_STAGES = 7
      /\ PACK_STAGES = Stages(p)
  BY <1>1, Sizes DEF NR_STAGES, PACK_STAGES, Stages
<1>4. PICK s \in Int : s = -1 - Stages(p)
  BY <1>3
<1>5. s <= 0
  BY <1>3, <1>4
<1>6. 0 * RdSize(p) = 0 /\ 0 * PCT_SIZE = 0
  BY <1>3, PctSizeAssumption
<1>7. SamplesAt(p, -1, 0)
  BY <1>3 DEF Init, SamplesAt
<1>8. NumberAt(p, -1, 0)
  BY <1>3 DEF Init, NumberAt
<1>9. PairsAt(p, -1, 0)
  <2>1. ~(-1 \in 1 .. RdSize(p)) /\ ~(-1 \in 2 .. RdSize(p))
    OBVIOUS
  <2>2. ASSUME NEW i \in 1 .. Stages(p) PROVE ~Makes(p, -1 - i)
    BY <1>3 DEF Makes
  <2>. QED  BY <2>1, <2>2, Zenon DEF PairsAt
<1>10. WordsAt(p, s, 0)
  <2>1. slot = 0 * PCT_SIZE
    BY <1>6 DEF Init
  <2>. QED  BY <1>5, <2>1, WordsRest
<1>11. LevelAt(p, -1)
  <2>1. PICK G \in Nat : G = Gap(p) /\ G >= 2 /\ G * RdSize(p) \in Nat
    BY Rate
  <2>2. Len(smpl_fifo) = 0 /\ since = 0 /\ rx_state = "idle"
    BY DEF Init
  <2>3. Level(p) = 0
    <3>1. G * 0 = 0
      BY <2>1
    <3>. QED  BY <2>1, <2>2, <3>1 DEF Level
  <2>4. 0 \in 0 .. G - 1 /\ -1 \notin 0 .. RdSize(p) /\ ~(-1 > RdSize(p))
    BY <1>3, <2>1
  <2>5. PICK g \in Nat : g = G * RdSize(p)
    BY <2>1
  <2>6. 0 <= g + 1 /\ 0 <= g + 2 /\ 0 <= g + 3 /\ 0 <= g + 4 /\ "idle" # "check_pct_buff"
    BY <2>5
  <2>. QED  BY <2>1, <2>2, <2>3, <2>4, <2>5, <2>6, Zenon DEF LevelAt
<1>12. DataAt(p, -1, 0)
  BY <1>4, <1>6, <1>7, <1>8, <1>9, <1>10, <1>11, Zenon DEF DataAt
<1>. QED  BY <1>1, <1>2, <1>12 DEF RxInv

\* The word that leaves the shift register is the next one of the packet.
LEMMA NextWord ==
    ASSUME NEW p \in BOOLEAN, NEW s \in Int, s <= RdSize(p) + 4, NEW k \in Nat, WordsAt(p, s, k),
           Makes(p, s - 1) \/ s - RdSize(p) \in {2, 3}
    PROVE  /\ s >= 1 /\ s <= RdSize(p) + 3
           /\ Sent(p, s - 1) \in Nat /\ Sent(p, s - 1) < PCT_SIZE
           /\ reg_0 = Word(p, k, Sent(p, s - 1))
<1>1. PICK r : r = RdSize(p)
  OBVIOUS
<1>2. PICK f : f = First(p)
  OBVIOUS
<1>3. r \in Nat /\ f \in {1, 2} /\ r >= f + 3 /\ PCT_SIZE \in Nat /\ PCT_SIZE >= 6
  BY <1>1, <1>2, Sizes, PctSizeAssumption
<1>4. s \in Int /\ s <= r + 4
  BY <1>1
<1>5. /\ \A x \in Int : x < f \/ x > r => ~Makes(p, x)
      /\ Made(p, f) = 0 /\ Made(p, r + 1) = PCT_SIZE - 2
      /\ \A x \in 1 .. r : Made(p, x) \in Nat
      /\ \A x \in 1 .. r : Made(p, x + 1) = IF Makes(p, x) THEN Made(p, x) + 1 ELSE Made(p, x)
  BY <1>1, <1>2, Words
<1>6. \A x \in Int : Sent(p, x) = IF x <= f THEN 0
                                  ELSE IF x <= r + 1 THEN Made(p, x) ELSE PCT_SIZE - 3 + x - r
  BY <1>1, <1>2, Zenon DEF Sent
<1>7. (Makes(p, s - 1) /\ s - 1 \in f .. r) \/ s = r + 2 \/ s = r + 3
  <2>1. Makes(p, s - 1) \/ s - r \in {2, 3}
    BY <1>1
  <2>2. Makes(p, s - 1) => s - 1 \in f .. r
    BY <1>3, <1>4, <1>5
  <2>. QED  BY <1>3, <1>4, <2>1, <2>2
<1>8. s >= 1 /\ s <= r + 3
  BY <1>3, <1>4, <1>7
<1>9. Sent(p, s - 1) \in Nat /\ Sent(p, s - 1) < PCT_SIZE
  <2>1. s - 1 \in Int /\ s - 1 <= r + 2
    BY <1>3, <1>4, <1>8
  <2>. QED  BY <1>1, <2>1, SentNext
<1>10. /\ s \in f + 1 .. r + 1 => reg_0 = Word(p, k, Made(p, s) - 1)
       /\ s = r + 2 => reg_0 = Word(p, k, PCT_SIZE - 2)
       /\ s = r + 3 => reg_0 = Word(p, k, PCT_SIZE - 1)
  BY <1>1, <1>2, Zenon DEF WordsAt
<1>11. reg_0 = Word(p, k, Sent(p, s - 1))
  <2>1. CASE Makes(p, s - 1) /\ s - 1 \in f .. r
    <3>1. s - 1 \in 1 .. r /\ s \in f + 1 .. r + 1 /\ (s - 1) + 1 = s
      BY <1>3, <1>4, <2>1
    <3>2. Made(p, s) = Made(p, s - 1) + 1 /\ Made(p, s - 1) \in Nat
      BY <1>5, <2>1, <3>1
    <3>3. Sent(p, s - 1) = Made(p, s - 1)
      BY <1>3, <1>4, <1>5, <1>6, <2>1
    <3>4. Made(p, s) - 1 = Sent(p, s - 1)
      BY <3>2, <3>3
    <3>. QED  BY <1>10, <3>1, <3>4, Zenon
  <2>2. CASE s = r + 2
    <3>1. Sent(p, s - 1) = PCT_SIZE - 2
      BY <1>3, <1>5, <1>6, <2>2
    <3>. QED  BY <1>10, <2>2, <3>1, Zenon
  <2>3. CASE s = r + 3
    <3>1. Sent(p, s - 1) = PCT_SIZE - 1
      BY <1>3, <1>5, <1>6, <2>3
    <3>. QED  BY <1>10, <2>3, <3>1, Zenon
  <2>. QED  BY <1>7, <2>1, <2>2, <2>3
<1>. QED  BY <1>1, <1>8, <1>9, <1>11

\* The words are those of RxStream.
LEMMA WordIsWord ==
    ASSUME NEW k \in Nat, NEW i \in Nat
    PROVE  Word(packed, k, i) = R!WordOf(k, i)
<1>1. R!SMPL_RD_SIZE = RdSize(packed)
  BY Zenon DEF R!SMPL_RD_SIZE, RdSize
<1>2. CASE i = 0
  BY <1>2 DEF Word, R!WordOf, R!Hdr0
<1>3. CASE i = 1
  <2>1. 1 # 0
    OBVIOUS
  <2>. QED  BY <1>1, <1>3, <2>1 DEF Word, R!WordOf, R!Hdr1
<1>4. CASE i # 0 /\ i # 1
  <2>1. R!WordOf(k, i) = R!DataWord(k * RdSize(packed), i - 2)
    BY <1>1, <1>4 DEF R!WordOf
  <2>2. Word(packed, k, i) = PairNo(packed, k * RdSize(packed), i - 2)
    BY <1>4, Zenon DEF Word
  <2>. QED  BY <2>1, <2>2, Zenon DEF PairNo, R!DataWord
<1>. QED  BY <1>2, <1>3, <1>4, Zenon

\* A clock writes the next word of a packet, or leaves one out, or does nothing.
LEMMA StreamNext ==
    ASSUME NEW p \in BOOLEAN, packed = p, packed' = p, NEW t \in -1 .. Last(p), At(p, t),
           NEW k \in Nat, DataAt(p, t, k), FsmClock, TopClock,
           slot' = IF pct_wrreq_int THEN slot + 1 ELSE slot
    PROVE  R!Next
<1>1. PICK r : r = RdSize(p)
  OBVIOUS
<1>2. PICK l : l = Stages(p)
  OBVIOUS
<1>3. PICK P \in Nat : P = PCT_SIZE /\ P >= 6
  BY PctSizeAssumption
<1>4. r \in Nat /\ l \in {1, 4} /\ r >= 4
  BY <1>1, <1>2, Sizes
<1>5. PICK s \in Int : s = t - Stages(p) /\ FormAt(p, s) /\ WordsAt(p, s, k)
  BY Zenon DEF At, DataAt
<1>6. t \in Int /\ t >= -1 /\ s = t - l /\ s <= r + 4
  BY <1>1, <1>2, <1>4, <1>5 DEF Last
<1>7. pct_wrreq_int <=> Makes(p, s - 1) \/ s - r \in {2, 3}
  BY <1>1, <1>5, Zenon DEF FormAt
<1>8. PICK i : i = Sent(p, s - 1)
  OBVIOUS
<1>9. slot = k * P + i
  BY <1>3, <1>5, <1>8, Zenon DEF WordsAt
<1>10. pct_buff_wr_en' <=> IF rx_state = "check_pct_buff" THEN pct_buff_rdy ELSE pct_buff_wr_en
  BY Zenon DEF FsmClock, WrEnable
<1>11. t >= 0 => rx_state # "check_pct_buff"
  BY <1>1, <1>4, <1>6 DEF At, ReadAt
<1>12. /\ pct_buff_wrreq' <=> pct_wrreq_int /\ pct_buff_wr_en
       /\ pct_buff_wrdata' = reg_0
  BY Zenon DEF TopClock
<1>13. CASE pct_wrreq_int
  <2>1. s >= 1 /\ i \in Nat /\ i < P /\ reg_0 = Word(p, k, i)
    BY <1>1, <1>3, <1>5, <1>6, <1>7, <1>8, <1>13, NextWord
  <2>2. pct_buff_wr_en' <=> pct_buff_wr_en
    <3>1. t >= 0
      BY <1>4, <1>6, <2>1
    <3>. QED  BY <1>10, <1>11, <3>1, Zenon
  <2>3. slot \div P = k /\ slot % P = i
    BY <1>3, <1>9, <2>1, DivMod
  <2>4. /\ i + 1 < P => slot' \div P = k /\ slot' % P = i + 1
        /\ i + 1 = P => slot' \div P = k + 1 /\ slot' % P = 0
    <3>1. k * P \in Nat /\ (k + 1) * P = k * P + P
      BY NextPacket
    <3>2. slot' = k * P + (i + 1)
      <4>1. slot' = slot + 1
        BY <1>13
      <4>. QED  BY <1>9, <2>1, <3>1, <4>1
    <3>3. CASE i + 1 < P
      <4>1. i + 1 \in Nat
        BY <2>1
      <4>2. slot' \div P = k /\ slot' % P = i + 1
        <5>1. P > 0
          BY <1>3
        <5>. QED  BY <3>2, <3>3, <4>1, <5>1, DivMod, Zenon
      <4>. QED  BY <3>3, <4>2
    <3>4. CASE i + 1 = P
      <4>1. slot' = (k + 1) * P + 0
        BY <2>1, <3>1, <3>2, <3>4
      <4>2. 0 < P /\ 0 \in Nat /\ k + 1 \in Nat
        BY <1>3
      <4>3. slot' \div P = k + 1 /\ slot' % P = 0
        BY <4>1, <4>2, DivMod
      <4>. QED  BY <3>4, <4>3
    <3>. QED  BY <1>3, <2>1, <3>3, <3>4
  <2>5. CASE pct_buff_wr_en
    <3>1. Out' = R!WordOf(k, i)
      <4>1. Out' = Word(p, k, i)
        BY <1>12, <1>13, <2>1, <2>5, Zenon DEF Out
      <4>. QED  BY <2>1, <4>1, WordIsWord, Zenon
    <3>2. Pos = i /\ Pos' = slot' % P
      BY <1>3, <2>2, <2>3, <2>5, Zenon DEF Pos
    <3>3. R!Write
      <4>1. CASE i + 1 = P
        BY <1>3, <2>1, <2>3, <2>4, <3>1, <3>2, <4>1 DEF R!Write
      <4>2. CASE i + 1 # P
        BY <1>3, <2>1, <2>3, <2>4, <3>1, <3>2, <4>2 DEF R!Write
      <4>. QED  BY <4>1, <4>2
    <3>. QED  BY <3>3 DEF R!Next
  <2>6. CASE ~pct_buff_wr_en
    <3>1. Out' = NoWord /\ Pos = 0 /\ Pos' = 0
      BY <1>12, <2>2, <2>6, Zenon DEF Out, Pos
    <3>2. NoWord = R!NoWord
      BY DEF NoWord, R!NoWord
    <3>3. CASE i + 1 = P
      BY <1>3, <2>3, <2>4, <3>1, <3>2, <3>3 DEF R!Next, R!LeaveOut
    <3>4. CASE i + 1 # P
      BY <1>3, <2>1, <2>3, <2>4, <3>1, <3>2, <3>4 DEF R!Next, R!Wait
    <3>. QED  BY <3>3, <3>4
  <2>. QED  BY <2>5, <2>6
<1>14. CASE ~pct_wrreq_int
  <2>1. slot' = slot /\ Out' = NoWord
    BY <1>12, <1>14, Zenon DEF Out
  <2>2. Pos' = Pos
    <3>1. CASE rx_state # "check_pct_buff"
      <4>1. pct_buff_wr_en' <=> pct_buff_wr_en
        BY <1>10, <3>1, Zenon
      <4>. QED  BY <2>1, <4>1, Zenon DEF Pos
    <3>2. CASE rx_state = "check_pct_buff"
      <4>1. s <= 0
        BY <1>4, <1>6, <1>11, <3>2
      <4>2. slot = k * P + 0 /\ 0 < P /\ 0 \in Nat
        <5>1. k * P \in Nat
          BY NextPacket
        <5>. QED  BY <1>3, <1>5, <4>1, <5>1, WordsRest
      <4>3. slot % P = 0
        BY <4>2, DivMod
      <4>. QED  BY <1>3, <2>1, <4>3, Zenon DEF Pos
    <3>. QED  BY <3>1, <3>2
  <2>3. NoWord = R!NoWord
    BY DEF NoWord, R!NoWord
  <2>. QED  BY <2>1, <2>2, <2>3 DEF R!Next, R!Wait
<1>. QED  BY <1>13, <1>14

\* All of it holds at all times.
LEMMA RxInvNext == RxInv /\ [Next]_vars => RxInv' /\ (Next => R!Next)
<1>. SUFFICES ASSUME RxInv, [Next]_vars PROVE RxInv' /\ (Next => R!Next)
  OBVIOUS
<1>1. PICK p \in BOOLEAN : packed = p
  BY DEF RxInv
<1>2. PICK t \in -1 .. Last(p), k \in Nat : At(p, t) /\ DataAt(p, t, k)
  BY <1>1, Zenon DEF RxInv
<1>3. ASSUME NEW arrives \in BOOLEAN, NEW early_rd \in BOOLEAN, NEW early_wr \in BOOLEAN,
             Clock(arrives, early_rd, early_wr)
      PROVE  RxInv' /\ R!Next
  <2>1. packed' = p /\ FsmClock /\ TopClock /\ slot' = IF pct_wrreq_int THEN slot + 1 ELSE slot
    BY <1>1, <1>3, Zenon DEF Clock
  <2>2. PICK u \in -1 .. Last(p) : Follows(p, t, u) /\ At(p, u)'
    BY <1>1, <1>2, <1>3, <2>1, AtNext, Zenon
  <2>3. PICK j \in Nat : DataAt(p, u, j)'
    BY <1>1, <1>2, <1>3, <2>1, <2>2, DataNext, Zenon
  <2>4. R!Next
    BY <1>1, <1>2, <2>1, StreamNext, Zenon
  <2>. QED  BY <2>1, <2>2, <2>3, <2>4, Zenon DEF RxInv
<1>4. ASSUME UNCHANGED vars PROVE RxInv'
  <2>1. packed' = p
    BY <1>1, <1>4 DEF vars
  <2>2. At(p, t)'
    BY <1>1, <1>2, <1>4, AtSame, Zenon
  <2>3. DataAt(p, t, k)'
    BY <1>2, <1>4, DataSame, Zenon
  <2>. QED  BY <1>2, <2>1, <2>2, <2>3, Zenon DEF RxInv
<1>. QED  BY <1>3, <1>4 DEF Next

\* What is known in each clock gives both halves of NoWordLost.
LEMMA RxInvSafe == RxInv => NoWordLost
<1>. SUFFICES ASSUME RxInv PROVE NoWordLost
  OBVIOUS
<1>1. PICK p \in BOOLEAN : packed = p
  BY DEF RxInv
<1>2. PICK t \in -1 .. Last(p), k \in Nat : At(p, t) /\ DataAt(p, t, k)
  BY <1>1, Zenon DEF RxInv
<1>3. PICK s \in Int : s = t - Stages(p) /\ FormAt(p, s) /\ RoomAt(p, t, s)
  BY <1>2, Zenon DEF At
<1>4. PICK r : r = RdSize(p)
  OBVIOUS
<1>5. /\ r \in Nat /\ r >= 4 /\ Stages(p) \in {1, 4} /\ First(p) \in {1, 2} /\ r >= First(p) + 3
      /\ t \in Int /\ t >= -1 /\ t <= r + Stages(p) + 4
  BY <1>4, Sizes DEF Last
<1>6. \A x \in Int : x < 1 \/ x > r => ~Makes(p, x)
  BY <1>4, <1>5 DEF Makes
<1>7. NoDataWhileFlushing
  <2>1. PACK_STAGES = Stages(p) /\ Stages(p) \in 1 .. Stages(p)
    BY <1>1, <1>5 DEF PACK_STAGES, Stages
  <2>2. PctDataWrreq <=> Makes(p, s)
    BY <1>2, <1>3, <2>1, Zenon DEF PctDataWrreq, PctData, At, PackAt
  <2>3. s <= r => form_state # "s2"
    BY <1>3, <1>4, <1>5 DEF FormAt
  <2>. QED  BY <1>3, <1>5, <1>6, <2>2, <2>3 DEF NoDataWhileFlushing
<1>8. NoPctOverflow
  <2>. SUFFICES ASSUME pct_buff_wrreq PROVE pct_used < PCT_DEPTH
    BY Zenon DEF NoPctOverflow
  <2>1. (Makes(p, s - 2) \/ s - r \in {3, 4}) /\ pct_buff_wr_en
    BY <1>3, <1>4, Zenon DEF RoomAt
  <2>2. t >= 0 /\ s - 2 \in Int /\ s - 2 <= r + 2
    BY <1>3, <1>5, <1>6, <2>1
  <2>3. pct_used \in Nat /\ pct_used <= PCT_DEPTH - PCT_SIZE + Sent(p, s - 2)
    BY <1>3, <2>1, <2>2, Zenon DEF RoomAt
  <2>4. Sent(p, s - 2) \in Nat /\ Sent(p, s - 2) < PCT_SIZE
    BY <1>4, <2>2, SentNext
  <2>5. PCT_SIZE \in Nat /\ PCT_DEPTH \in Nat
    BY PctSizeAssumption, RxAssumption
  <2>. QED  BY <2>3, <2>4, <2>5
<1>. QED  BY <1>7, <1>8 DEF NoWordLost

\* The invariant holds at all times.
THEOREM RxInvariant == Spec => []RxInv
<1>1. Init => RxInv
  BY RxInvInit
<1>2. RxInv /\ [Next]_vars => RxInv'
  BY RxInvNext, Zenon
<1>. QED  BY <1>1, <1>2, PTL DEF Spec

\* No word of a packet is lost: none comes to data2packets while it is flushed,
\* none is written to a full packet FIFO (data2packets.vhd, data2packets_fsm.vhd).
THEOREM PacketsArriveWhole == Spec => []NoWordLost
<1>1. RxInv => NoWordLost
  BY RxInvSafe
<1>. QED  BY <1>1, RxInvariant, PTL

\* What is written to the packet FIFO are the packets RxStream promises: the samples
\* in the order received, each header with the number of the first sample of its
\* packet, packets left out only whole (data2packets.vhd, bit_pack.vhd, the delay of
\* smpl_cnt in rx_path_top.vhd).
THEOREM WritesRxStream == Spec => RefinesRxStream
<1>1. Init => R!Init
  <2>. SUFFICES ASSUME Init PROVE R!Init
    OBVIOUS
  <2>1. packed \in BOOLEAN /\ slot = 0 /\ pct_buff_wr_en = FALSE /\ pct_buff_wrreq = FALSE
    BY DEF Init
  <2>2. 0 \div PCT_SIZE = 0
    BY PctSizeAssumption
  <2>. QED  BY <2>1, <2>2 DEF R!Init, R!NoWord, NoWord, Pos, Out
<1>2. RxInv /\ [Next]_vars => [R!Next]_<<packed, slot \div PCT_SIZE, Pos, Out>>
  <2>. SUFFICES ASSUME RxInv, [Next]_vars
                PROVE  [R!Next]_<<packed, slot \div PCT_SIZE, Pos, Out>>
    OBVIOUS
  <2>1. CASE Next
    BY <2>1, RxInvNext, Zenon
  <2>2. CASE UNCHANGED vars
    <3>1. /\ packed' = packed /\ slot' = slot /\ pct_buff_wr_en' = pct_buff_wr_en
          /\ pct_buff_wrreq' = pct_buff_wrreq /\ pct_buff_wrdata' = pct_buff_wrdata
      BY <2>2 DEF vars, fsmVars, topVars
    <3>. QED  BY <3>1, Zenon DEF Pos, Out
  <2>. QED  BY <2>1, <2>2
<1>. QED  BY <1>1, <1>2, RxInvariant, PTL DEF Spec, RefinesRxStream, R!Spec

\* All samples of a packet are there when its first is read, and the sample FIFO is
\* never full: so no sample is lost in front of the counter, however slowly the host
\* reads (data2packets_fsm.vhd reads on whether the packet is let through or not).
THEOREM SamplesAreKept == Spec => []SamplesKept
<1>1. RxInv => SamplesKept
  <2>. SUFFICES ASSUME RxInv PROVE SamplesKept
    OBVIOUS
  <2>1. PICK p \in BOOLEAN : packed = p
    BY DEF RxInv
  <2>2. PICK t \in -1 .. Last(p), k \in Nat : At(p, t) /\ DataAt(p, t, k)
    BY <2>1, Zenon DEF RxInv
  <2>3. PICK n : n = k * RdSize(p)
    OBVIOUS
  <2>4. ReadAt(p, t) /\ LevelAt(p, t) /\ SamplesAt(p, t, n)
    BY <2>2, <2>3, Zenon DEF At, DataAt
  <2>5. Len(smpl_fifo) <= SMPL_DEPTH
    BY <2>4, LevelLow, Zenon DEF SamplesAt
  <2>6. SmplRdreq => smpl_fifo # <<>>
    <3>1. PICK r \in Nat : r = RdSize(p)
      BY Sizes
    <3>2. t \in Int /\ t >= -1 /\ smpl_fifo \in Seq(Int)
      BY <2>4 DEF SamplesAt
    <3>3. /\ t = -1 => rx_state \in {"idle", "check_pct_buff"}
          /\ t >= r => rx_state = "wait_data2packets_done"
          /\ t \in 0 .. r => Len(smpl_fifo) >= r - t
      BY <2>4, <3>1, Zenon DEF ReadAt, SamplesAt
    <3>4. SmplRdreq => t \in 0 .. r - 1
      BY <3>1, <3>2, <3>3 DEF SmplRdreq
    <3>. QED  BY <3>1, <3>2, <3>3, <3>4
  <2>. QED  BY <2>5, <2>6 DEF SamplesKept
<1>. QED  BY <1>1, RxInvariant, PTL
=============================================================================
