-------------------------- MODULE TxSamples_proofs --------------------------
(***************************************************************************)
(* Proofs about TxSamples, for any capacity of the sample FIFO, any delay  *)
(* of its pointers, any settings of the host, any gaps between the reads   *)
(* and any pulses: every word reaches the bus once and in order.  The      *)
(* measure is the number of words that are under way when the full flag    *)
(* rises.  A burst is exact, and the antenna on, for the settings that     *)
(* BurstSizes and AntennaKept name.                                        *)
(***************************************************************************)
EXTENDS TxSamples, FiniteSetTheorems, SequenceTheorems, TLAPS

-----------------------------------------------------------------------------
(* The invariant.                                                          *)

One(b) == IF b THEN 1 ELSE 0

Pipes == [Stages -> BOOLEAN]

\* Words a .. b - 1 at the read side of the sample FIFO.
Window(a, b) == [j \in 1 .. b - a |-> Expected(a + j - 1)]

\* Words of the packet buffers that the unpacker has.
Consumed == next_word - One(buff_q # None) - One(smpl_buff_q # None)

\* A word that was read is under way to the unpacker, which keeps the one before it.
SourceInv ==
    /\ next_word \in Nat /\ Consumed \in Nat
    /\ smpl_buff_q # None => smpl_buff_q = Consumed
    /\ buff_q # None => buff_q = Consumed + One(smpl_buff_q # None)
    /\ data64_in_reg = Consumed - 1

\* Words of 128 bits that were written to the sample FIFO; the number of the word that
\* each register behind the unpacker would hold next, and of the one it makes next.
Written == (popped + Len(smpl_fifo)) \div 2
AtMux0 == Written + One(mux1_data128_reg # NoSamples)
AtOut == AtMux0 + One(mux0_data128_reg # NoSamples)
AtWord == IF regs.packed THEN AtOut + One(data128_out_reg # NoSamples) ELSE AtMux0
Produced == AtWord + One(word128 # NoSamples)

\* The registers behind the unpacker hold words one after the other, and it makes the
\* words that the input makes up.
UnpackInv ==
    /\ mux1_data128_reg # NoSamples => mux1_data128_reg = Unpacked(Written)
    /\ regs.packed /\ mux0_data128_reg # NoSamples => mux0_data128_reg = Unpacked(AtMux0)
    /\ regs.packed /\ data128_out_reg # NoSamples => data128_out_reg = Unpacked(AtOut)
    /\ word128 # NoSamples => word128 = Unpacked(AtWord)
    /\ unp_wr_cnt \in 0 .. GROUP - 1
    /\ \E g \in Nat : /\ Consumed = GROUP * g + unp_wr_cnt
                      /\ Produced = IF regs.packed THEN 2 * g + One(unp_wr_cnt = 2) ELSE g

\* Words that may still have to be written when nothing more is read.
UnderWay == Produced - Written + One(smpl_buff_q # None) + One(buff_q # None)

\* There is room for all of them, and where the full flag is down, for nine more:
\* the eight of fifo_limit, and the one it may be late by.
RoomInv ==
    /\ WrUsed + UnderWay <= FIFO_WORDS
    /\ ~fifo_full_sig => WrUsed <= FifoLimit + 1

\* The sample FIFO holds consecutive words; the read side sees whole writes.
FifoInv ==
    /\ popped \in Nat /\ smpl_arriving \in Pipes /\ smpl_leaving \in Pipes
    /\ popped + Len(smpl_fifo) = 2 * Written /\ Written \in Nat
    /\ smpl_fifo = Window(popped, 2 * Written) /\ popped <= 2 * Written
    /\ Len(smpl_fifo) >= 2 * InFlight(smpl_arriving)
    /\ txiq_state = "rd_samples" => ~RdEmpty
    /\ int_fifo_q_valid => smpl_q = Expected(popped - 1) /\ popped > 0

Fast == regs.int_mode = "00"
Loads == int_fifo_q_valid \/ zero_valid

\* txiq reads no earlier than the word in the shift registers is out, and in a burst
\* only in rd_samples.
IqInv ==
    /\ regs \in CONFIGS
    /\ txiq_state \in {"idle", "rd_samples", "zero_samples", "wait_rd_cycles"}
    /\ ctrl_state \in {"idle", "txant_enable_wait", "rd_samples", "txant_dis_wait"}
    /\ rd_wait_cnt \in Nat /\ diq_pos \in 0 .. 4
    /\ int_fifo_q_valid \in BOOLEAN /\ zero_valid \in BOOLEAN
    /\ txiq_state # "wait_rd_cycles" => ~Loads
    /\ txiq_state = "wait_rd_cycles" =>
          rd_wait_cnt <= RdWaitMax /\ (Loads <=> rd_wait_cnt = 0)
    /\ regs.sync_mode /\ txiq_state = "rd_samples" => ctrl_state = "rd_samples"
    /\ diq_word # Zeros =>
          /\ Loads => diq_pos >= IF Fast THEN 1 ELSE 3
          /\ ~Fast /\ txiq_state # "wait_rd_cycles" => diq_pos >= 2
          /\ ~Fast /\ txiq_state = "wait_rd_cycles" /\ rd_wait_cnt > 0 => diq_pos >= rd_wait_cnt - 1

SamplesInv == SourceInv /\ UnpackInv /\ RoomInv /\ FifoInv /\ IqInv

\* The host's sizes of bursts.
BurstSizes == \A c \in CONFIGS : c.sync_mode => c.sync_size >= 1 /\ c.sync_size <= 65535

\* A burst is counted where it is read, and has all its words when it is over.
BurstInv ==
    regs.sync_mode =>
        /\ burst \in Nat /\ burst <= regs.sync_size
        /\ ctrl_state = "rd_samples" => burst_cnt = burst /\ burst < regs.sync_size
        /\ ctrl_state = "txant_dis_wait" => burst = regs.sync_size

\* Position of the last samples of a word.
LastPosition == [mode \in {"00", "01", "10", "11"} |->
                    CASE mode = "00" -> 1 [] mode = "01" -> 2 [] OTHER -> 3]

\* The host keeps the antenna on until the last samples are out.
AntennaKept ==
    \A c \in CONFIGS : c.sync_mode => c.after <= 65535 /\ LastPosition[c.int_mode] <= c.after + 1

\* The antenna is on for a word that is p clocks old, and stays on: without bursts
\* as long as txiq_state keeps it, in a burst for txant_cyc_after_en clocks.
Covered(p) ==
    IF regs.sync_mode
    THEN /\ p <= regs.after + 1 /\ p >= 0 => txant_en_mux
         /\ p <= regs.after => txant_en_reg
         /\ p < regs.after =>
               \/ ctrl_state = "rd_samples"
               \/ ctrl_state = "txant_dis_wait" /\ txant_dis_wait_cnt >= regs.after - 1 - p
    ELSE LET last == IF Fast THEN 1 ELSE 3
         IN /\ p <= last /\ p >= 0 => txant_en_mux
            /\ p < last => txiq_txant_en
            /\ p < last - 1 => txiq_state = "wait_rd_cycles" /\ rd_wait_cnt = p + 1

AntennaInv ==
    /\ txant_en_reg \in BOOLEAN /\ txant_dis_wait_cnt \in Nat
    /\ regs.sync_mode => txant_dis_wait_cnt <= 65535
    /\ ctrl_state \in {"rd_samples", "txant_dis_wait"} => txant_en_reg
    /\ int_fifo_q_valid => Covered(-1)
    /\ diq_word # Zeros => diq_pos <= 3 /\ Covered(diq_pos)

-----------------------------------------------------------------------------
(* Pointers under way, and windows of words.                               *)

LEMMA InFlightType ==
    ASSUME NEW pipe
    PROVE  /\ IsFiniteSet({k \in Stages : pipe[k]}) /\ InFlight(pipe) \in Nat
           /\ InFlight(pipe) = 0 <=> \A k \in Stages : ~pipe[k]
<1>1. IsFiniteSet(Stages)
  BY FS_Interval, SyncStagesAssumption DEF Stages
<1>2. IsFiniteSet({k \in Stages : pipe[k]})
  BY <1>1, FS_Subset
<1>3. InFlight(pipe) \in Nat
  BY <1>2, FS_CardinalityType DEF InFlight
<1>4. InFlight(pipe) = 0 <=> {k \in Stages : pipe[k]} = {}
  BY <1>2, FS_EmptySet DEF InFlight
<1>5. {k \in Stages : pipe[k]} = {} <=> \A k \in Stages : ~pipe[k]
  OBVIOUS
<1>. QED  BY <1>2, <1>3, <1>4, <1>5

\* A clock takes the oldest step out of the pipeline and the new one in.
LEMMA ShiftCounts ==
    ASSUME NEW pipe \in Pipes, NEW step \in BOOLEAN
    PROVE  /\ Shift(pipe, step) \in Pipes
           /\ InFlight(Shift(pipe, step)) =
                 InFlight(pipe) + (IF step THEN 1 ELSE 0) - (IF pipe[SYNC_STAGES] THEN 1 ELSE 0)
           /\ Shift(pipe, step)[1] = step
           /\ \A k \in Stages : k + 1 \in Stages => Shift(pipe, step)[k + 1] = pipe[k]
<1>. DEFINE new == Shift(pipe, step)
            old == {k \in Stages : pipe[k]}
            kept == old \ {SYNC_STAGES}
            moved == {k \in Stages : new[k]} \ {1}
<1>0. SYNC_STAGES \in Nat /\ SYNC_STAGES >= 1 /\ Stages = 1 .. SYNC_STAGES
  BY SyncStagesAssumption DEF Stages
<1>1. /\ new \in Pipes /\ new[1] = step
      /\ \A k \in Stages : k # 1 => k - 1 \in Stages /\ new[k] = pipe[k - 1]
      /\ \A k \in Stages : k + 1 \in Stages => new[k + 1] = pipe[k]
  BY <1>0 DEF Shift, Pipes
<1>. HIDE DEF new
<1>2. IsFiniteSet(old) /\ IsFiniteSet({k \in Stages : new[k]})
  BY InFlightType
<1>3. IsFiniteSet(kept) /\ Cardinality(kept) = InFlight(pipe) - (IF pipe[SYNC_STAGES] THEN 1 ELSE 0)
  <2>1. Cardinality(old) = InFlight(pipe) /\ InFlight(pipe) \in Nat
    BY InFlightType DEF InFlight
  <2>2. SYNC_STAGES \in old <=> pipe[SYNC_STAGES]
    BY <1>0
  <2>. QED  BY <1>2, <2>1, <2>2, FS_RemoveElement
<1>4. Cardinality(moved) = InFlight(new) - (IF step THEN 1 ELSE 0)
  <2>1. Cardinality({k \in Stages : new[k]}) = InFlight(new) /\ InFlight(new) \in Nat
    BY InFlightType DEF InFlight
  <2>2. 1 \in {k \in Stages : new[k]} <=> step
    BY <1>0, <1>1
  <2>3. Cardinality(moved) = IF 1 \in {k \in Stages : new[k]} THEN InFlight(new) - 1 ELSE InFlight(new)
    BY <1>2, <2>1, FS_RemoveElement
  <2>. QED  BY <2>1, <2>2, <2>3
<1>5. Cardinality(moved) = Cardinality(kept)
  <2>. DEFINE f == [k \in kept |-> k + 1]
  <2>1. \A k \in kept : k + 1 \in moved
    BY <1>0, <1>1
  <2>2. \A k \in moved : k - 1 \in kept /\ k - 1 + 1 = k
    BY <1>0, <1>1
  <2>3. f \in [kept -> moved]
    BY <2>1
  <2>4. \A k, l \in kept : f[k] = f[l] => k = l
    BY <1>0
  <2>5. \A k \in moved : \E l \in kept : f[l] = k
    <3>. TAKE k \in moved
    <3>1. k - 1 \in kept /\ f[k - 1] = k
      BY <1>0, <2>2
    <3>. QED  BY <3>1
  <2>6. f \in Bijection(kept, moved)
    BY <2>3, <2>4, <2>5 DEF Bijection, Injection, Surjection, IsInjective
  <2>. QED  BY <1>3, <2>6, FS_Bijection DEF ExistsBijection
<1>6. InFlight(new) \in Nat /\ InFlight(pipe) \in Nat
  BY InFlightType
<1>. QED  BY <1>1, <1>3, <1>4, <1>5, <1>6 DEF new

LEMMA ShiftAdds ==
    ASSUME NEW pipe \in Pipes, NEW step \in BOOLEAN
    PROVE  /\ Shift(pipe, step) \in Pipes /\ InFlight(pipe) \in Nat /\ InFlight(Shift(pipe, step)) \in Nat
           /\ InFlight(Shift(pipe, step)) <= InFlight(pipe) + One(step)
<1>1. InFlight(pipe) \in Nat /\ InFlight(Shift(pipe, step)) \in Nat
  BY InFlightType
<1>. QED  BY <1>1, ShiftCounts DEF One

LEMMA NothingUnderWay == Nothing \in Pipes /\ InFlight(Nothing) = 0
<1>1. Nothing \in Pipes /\ \A k \in Stages : ~Nothing[k]
  BY DEF Nothing, Pipes
<1>. QED  BY <1>1, InFlightType

Words == (Int \X Int \X Int) \X Int

LEMMA UnpackedIs ==
    ASSUME NEW n \in Nat
    PROVE  Unpacked(n) \in Int \X Int \X Int /\ Unpacked(n) # NoSamples
<1>1. CASE regs.packed
  <2>. DEFINE k == n % 2
              a == 3 * (n \div 2) + k
  <2>1. k \in Nat /\ a \in Nat
    OBVIOUS
  <2>2. Unpacked(n) = <<k, a, a + 1>>
    BY <1>1 DEF Unpacked
  <2>. HIDE DEF k, a
  <2>. QED  BY <2>1, <2>2 DEF NoSamples
<1>2. CASE ~regs.packed
  <2>1. Unpacked(n) = <<0, 2 * n, 2 * n + 1>>
    BY <1>2 DEF Unpacked
  <2>. QED  BY <2>1 DEF NoSamples
<1>. QED  BY <1>1, <1>2

LEMMA ExpectedIs ==
    ASSUME NEW n \in Nat
    PROVE  /\ Expected(n) \in Words /\ Expected(n) # Zeros
           /\ Expected(2 * n) = <<Unpacked(n), 0>> /\ Expected(2 * n + 1) = <<Unpacked(n), 1>>
<1>1. n \div 2 \in Nat /\ n % 2 \in Int
  OBVIOUS
<1>2. Unpacked(n \div 2) \in Int \X Int \X Int
  BY <1>1, UnpackedIs
<1>3. Expected(n) \in Words
  BY <1>1, <1>2 DEF Expected, Words
<1>4. Expected(n) # Zeros
  BY <1>1 DEF Expected, Zeros
<1>5. (2 * n) \div 2 = n /\ (2 * n) % 2 = 0 /\ (2 * n + 1) \div 2 = n /\ (2 * n + 1) % 2 = 1
  OBVIOUS
<1>. QED  BY <1>3, <1>4, <1>5 DEF Expected

LEMMA WindowIs ==
    ASSUME NEW a \in Nat, NEW b \in Nat, a <= b
    PROVE  /\ Window(a, b) \in Seq(Words) /\ Len(Window(a, b)) = b - a
           /\ \A j \in 1 .. b - a : Window(a, b)[j] = Expected(a + j - 1)
<1>1. \A j \in 1 .. b - a : a + j - 1 \in Nat /\ Expected(a + j - 1) \in Words
  BY ExpectedIs
<1>2. Window(a, b) \in [1 .. b - a -> Words]
  BY <1>1 DEF Window
<1>. QED  BY <1>2 DEF Window

LEMMA WindowTail ==
    ASSUME NEW a \in Nat, NEW b \in Nat, a < b
    PROVE  Head(Window(a, b)) = Expected(a) /\ Tail(Window(a, b)) = Window(a + 1, b)
<1>0. 1 \in 1 .. b - a /\ a + 1 - 1 = a
  OBVIOUS
<1>1. Window(a, b) \in Seq(Words) /\ Len(Window(a, b)) = b - a /\ Window(a, b)[1] = Expected(a)
  <2>0. a <= b
    OBVIOUS
  <2>1. \A j \in 1 .. b - a : Window(a, b)[j] = Expected(a + j - 1)
    BY <2>0, WindowIs
  <2>2. Window(a, b)[1] = Expected(a + 1 - 1)
    BY <1>0, <2>1
  <2>3. Window(a, b) \in Seq(Words) /\ Len(Window(a, b)) = b - a
    BY <2>0, WindowIs
  <2>. QED  BY <1>0, <2>2, <2>3
<1>2. Window(a, b) # <<>>
  BY <1>1
<1>3. Head(Window(a, b)) = Expected(a)
  BY <1>1, <1>2
<1>4. /\ Tail(Window(a, b)) \in Seq(Words) /\ Len(Tail(Window(a, b))) = b - a - 1
      /\ \A j \in 1 .. b - a - 1 : Tail(Window(a, b))[j] = Window(a, b)[j + 1]
  BY <1>1, <1>2
<1>5. Window(a + 1, b) \in Seq(Words) /\ Len(Window(a + 1, b)) = b - a - 1
  BY WindowIs
<1>6. \A j \in 1 .. b - a - 1 : Tail(Window(a, b))[j] = Window(a + 1, b)[j]
  <2>. TAKE j \in 1 .. b - a - 1
  <2>1. Window(a, b)[j + 1] = Expected(a + (j + 1) - 1)
    BY WindowIs
  <2>2. Window(a + 1, b)[j] = Expected(a + 1 + j - 1)
    BY WindowIs
  <2>3. a + (j + 1) - 1 = a + 1 + j - 1
    OBVIOUS
  <2>. QED  BY <1>4, <2>1, <2>2, <2>3
<1>7. Tail(Window(a, b)) = Window(a + 1, b)
  BY <1>4, <1>5, <1>6, SeqEqual
<1>. QED  BY <1>3, <1>7

LEMMA WindowMore ==
    ASSUME NEW a \in Nat, NEW w \in Nat, a <= 2 * w
    PROVE  Window(a, 2 * w) \o << <<Unpacked(w), 0>>, <<Unpacked(w), 1>> >> = Window(a, 2 * (w + 1))
<1>. DEFINE b == 2 * w
            more == << Expected(b), Expected(b + 1) >>
<1>1. b \in Nat /\ a <= b /\ 2 * (w + 1) = b + 2
  OBVIOUS
<1>2. more = << <<Unpacked(w), 0>>, <<Unpacked(w), 1>> >>
  BY ExpectedIs
<1>3. Expected(b) \in Words /\ Expected(b + 1) \in Words
  BY <1>1, ExpectedIs
<1>. HIDE DEF b
<1>4. more \in Seq(Words) /\ Len(more) = 2 /\ more[1] = Expected(b) /\ more[2] = Expected(b + 1)
  BY <1>3
<1>. HIDE DEF more
<1>5. Window(a, b) \in Seq(Words) /\ Len(Window(a, b)) = b - a
  BY <1>1, WindowIs
<1>6. /\ Window(a, b) \o more \in Seq(Words) /\ Len(Window(a, b) \o more) = b - a + 2
      /\ \A j \in 1 .. b - a + 2 : (Window(a, b) \o more)[j] =
            IF j <= b - a THEN Window(a, b)[j] ELSE more[j - (b - a)]
  <2>. DEFINE first == Window(a, b)
  <2>1. first \in Seq(Words) /\ Len(first) = b - a
    BY <1>5
  <2>. HIDE DEF first
  <2>2. /\ first \o more \in Seq(Words) /\ Len(first \o more) = Len(first) + Len(more)
        /\ \A j \in 1 .. Len(first) + Len(more) : (first \o more)[j] =
              IF j <= Len(first) THEN first[j] ELSE more[j - Len(first)]
    BY <1>4, <2>1, ConcatProperties
  <2>3. /\ first \o more \in Seq(Words) /\ Len(first \o more) = b - a + 2
        /\ \A j \in 1 .. b - a + 2 : (first \o more)[j] =
              IF j <= b - a THEN first[j] ELSE more[j - (b - a)]
    BY <1>4, <2>1, <2>2
  <2>. QED  BY <2>3 DEF first
<1>7. Window(a, b + 2) \in Seq(Words) /\ Len(Window(a, b + 2)) = b - a + 2
  BY <1>1, WindowIs
<1>8. \A j \in 1 .. b - a + 2 : (Window(a, b) \o more)[j] = Window(a, b + 2)[j]
  <2>. TAKE j \in 1 .. b - a + 2
  <2>1. Window(a, b + 2)[j] = Expected(a + j - 1)
    BY <1>1, WindowIs
  <2>2. CASE j <= b - a
    <3>1. j \in 1 .. b - a /\ Window(a, b)[j] = Expected(a + j - 1)
      BY <1>1, <2>2, WindowIs
    <3>. QED  BY <1>6, <2>1, <2>2, <3>1
  <2>3. CASE j = b - a + 1
    <3>1. j - (b - a) = 1 /\ a + j - 1 = b /\ ~(j <= b - a)
      BY <1>1, <2>3
    <3>. QED  BY <1>4, <1>6, <2>1, <3>1
  <2>4. CASE j = b - a + 2
    <3>1. j - (b - a) = 2 /\ a + j - 1 = b + 1 /\ ~(j <= b - a)
      BY <1>1, <2>4
    <3>. QED  BY <1>4, <1>6, <2>1, <3>1
  <2>5. j \in Int /\ j >= 1 /\ j <= b - a + 2
    BY <1>1
  <2>6. j <= b - a \/ j = b - a + 1 \/ j = b - a + 2
    BY <1>1, <2>5
  <2>. QED  BY <2>2, <2>3, <2>4, <2>6
<1>9. Window(a, b) \o more = Window(a, b + 2)
  BY <1>1, <1>6, <1>7, <1>8, SeqEqual
<1>. QED  BY <1>1, <1>2, <1>9 DEF b
-----------------------------------------------------------------------------
(* What a clock does.                                                      *)

LEMMA Types ==
    ASSUME SamplesInv
    PROVE  /\ smpl_fifo \in Seq(Words) /\ Len(smpl_fifo) \in Nat
           /\ Written \in Nat /\ Consumed \in Nat /\ popped \in Nat /\ next_word \in Nat
           /\ AtMux0 \in Nat /\ AtOut \in Nat /\ AtWord \in Nat /\ Produced \in Nat
           /\ Written + One(mux1_data128_reg # NoSamples) <= Produced
           /\ UnderWay \in Nat /\ WrUsed \in Nat
           /\ InFlight(smpl_leaving) \in Nat /\ InFlight(smpl_arriving) \in Nat
           /\ FIFO_WORDS \in Nat /\ FIFO_WORDS >= 9
<1>1. /\ Written \in Nat /\ Consumed \in Nat /\ popped \in Nat /\ popped <= 2 * Written
      /\ smpl_fifo = Window(popped, 2 * Written) /\ next_word \in Nat
  BY DEF SamplesInv, SourceInv, FifoInv
<1>2. smpl_fifo \in Seq(Words) /\ Len(smpl_fifo) = 2 * Written - popped
  <2>1. 2 * Written \in Nat
    BY <1>1
  <2>. QED  BY <1>1, <2>1, WindowIs
<1>3. /\ AtMux0 \in Nat /\ AtOut \in Nat /\ AtWord \in Nat /\ Produced \in Nat
      /\ Written + One(mux1_data128_reg # NoSamples) <= Produced
  BY <1>1 DEF AtMux0, AtOut, AtWord, Produced, One
<1>4. InFlight(smpl_leaving) \in Nat /\ InFlight(smpl_arriving) \in Nat
  BY InFlightType
<1>5. WrUsed \in Nat
  <2>1. Len(smpl_fifo) \in Nat
    BY <1>2
  <2>. QED  BY <1>4, <2>1 DEF WrUsed
<1>6. UnderWay \in Nat
  BY <1>1, <1>3 DEF UnderWay, One
<1>. QED  BY <1>1, <1>2, <1>3, <1>4, <1>5, <1>6, FifoAssumption

\* No word is lost at a full FIFO, and nothing is asked of an empty one.
LEMMA NothingIsLost ==
    ASSUME SamplesInv
    PROVE  /\ mux1_data128_reg # NoSamples => WrUsed < FIFO_WORDS
           /\ FifoRdreq(RdEmpty) <=> txiq_state = "rd_samples"
           /\ txiq_state = "rd_samples" => Len(smpl_fifo) > 2 * InFlight(smpl_arriving)
<1>1. ASSUME mux1_data128_reg # NoSamples PROVE WrUsed < FIFO_WORDS
  <2>1. UnderWay >= 1
    <3>1. Written \in Nat /\ Produced \in Nat /\ Written + 1 <= Produced
      BY <1>1, Types DEF One
    <3>2. One(smpl_buff_q # None) \in Nat /\ One(buff_q # None) \in Nat
      BY DEF One
    <3>. QED  BY <3>1, <3>2 DEF UnderWay
  <2>. QED  BY <2>1, Types DEF SamplesInv, RoomInv
<1>2. txiq_state = "rd_samples" => ~RdEmpty
  BY DEF SamplesInv, FifoInv
<1>3. FifoRdreq(RdEmpty) <=> txiq_state = "rd_samples"
  BY <1>2 DEF FifoRdreq
<1>4. txiq_state = "rd_samples" => Len(smpl_fifo) > 2 * InFlight(smpl_arriving)
  BY <1>2, Types DEF SamplesInv, FifoInv, RdEmpty
<1>. QED  BY <1>1, <1>3, <1>4

LEMMA FifoStep ==
    ASSUME SamplesInv, NEW reads \in BOOLEAN, NEW pulse \in BOOLEAN, Clock(reads, pulse)
    PROVE  /\ popped' = popped + One(txiq_state = "rd_samples")
           /\ Len(smpl_fifo') = Len(smpl_fifo) - One(txiq_state = "rd_samples")
                                + 2 * One(mux1_data128_reg # NoSamples)
           /\ smpl_fifo' = Window(popped', 2 * (Written + One(mux1_data128_reg # NoSamples)))
           /\ popped' <= 2 * (Written + One(mux1_data128_reg # NoSamples))
           /\ txiq_state = "rd_samples" => smpl_q' = Expected(popped)
           /\ Written' = Written + One(mux1_data128_reg # NoSamples)
           /\ smpl_arriving' = Shift(smpl_arriving, mux1_data128_reg # NoSamples)
           /\ smpl_leaving' = Shift(smpl_leaving, txiq_state = "rd_samples")
<1>. DEFINE write == mux1_data128_reg # NoSamples
            read == txiq_state = "rd_samples"
            kept == IF read THEN Tail(smpl_fifo) ELSE smpl_fifo
<1>1. write <=> (mux1_data128_reg # NoSamples /\ WrUsed < FIFO_WORDS)
  BY NothingIsLost
<1>2. read <=> FifoRdreq(RdEmpty)
  BY NothingIsLost
<1>3. /\ smpl_fifo' = kept \o (IF write THEN << <<mux1_data128_reg, 0>>, <<mux1_data128_reg, 1>> >>
                                         ELSE <<>>)
      /\ smpl_q' = IF read THEN Head(smpl_fifo) ELSE smpl_q
      /\ popped' = IF read THEN popped + 1 ELSE popped
  BY <1>1, <1>2 DEF Clock, SmplFifoClock
<1>4. /\ smpl_arriving' = Shift(smpl_arriving, write)
      /\ smpl_leaving' = Shift(smpl_leaving, read)
  <2>1. (mux1_data128_reg # NoSamples /\ WrUsed < FIFO_WORDS) = write
    BY <1>1
  <2>2. FifoRdreq(RdEmpty) = read
    BY <1>2 DEF FifoRdreq
  <2>. QED  BY <2>1, <2>2 DEF Clock, SmplFifoClock
<1>5. /\ popped \in Nat /\ Written \in Nat /\ popped + Len(smpl_fifo) = 2 * Written
      /\ smpl_fifo = Window(popped, 2 * Written) /\ popped <= 2 * Written
      /\ Len(smpl_fifo) \in Nat /\ InFlight(smpl_arriving) \in Nat
      /\ smpl_fifo \in Seq(Words)
  BY Types DEF SamplesInv, FifoInv
<1>6. read => popped < 2 * Written
  BY <1>5, NothingIsLost
<1>7. /\ popped' \in Nat /\ popped' <= 2 * Written
      /\ kept = Window(popped', 2 * Written)
      /\ read => smpl_q' = Expected(popped)
  <2>1. CASE read
    <3>1. Head(smpl_fifo) = Expected(popped) /\ Tail(smpl_fifo) = Window(popped + 1, 2 * Written)
      <4>1. 2 * Written \in Nat /\ popped < 2 * Written
        BY <1>5, <1>6, <2>1
      <4>. QED  BY <1>5, <4>1, WindowTail
    <3>. QED  BY <1>3, <1>5, <1>6, <2>1, <3>1
  <2>2. CASE ~read
    BY <1>3, <1>5, <2>2
  <2>. QED  BY <2>1, <2>2
<1>. HIDE DEF kept
<1>8. /\ smpl_fifo' = Window(popped', 2 * (Written + One(write)))
      /\ popped' <= 2 * (Written + One(write))
  <2>1. CASE write
    <3>1. mux1_data128_reg = Unpacked(Written)
      BY <2>1 DEF SamplesInv, UnpackInv
    <3>2. smpl_fifo' = Window(popped', 2 * Written) \o << <<Unpacked(Written), 0>>, <<Unpacked(Written), 1>> >>
      BY <1>3, <1>7, <2>1, <3>1
    <3>3. smpl_fifo' = Window(popped', 2 * (Written + 1))
      BY <1>5, <1>7, <3>2, WindowMore
    <3>. QED  BY <1>5, <1>7, <2>1, <3>3 DEF One
  <2>2. CASE ~write
    <3>1. kept \in Seq(Words)
      <4>1. 2 * Written \in Nat
        BY <1>5
      <4>. QED  BY <1>7, <4>1, WindowIs
    <3>2. smpl_fifo' = kept
      BY <1>3, <2>2, <3>1
    <3>3. Written + One(write) = Written
      BY <1>5, <2>2 DEF One
    <3>. QED  BY <1>7, <3>2, <3>3
  <2>. QED  BY <2>1, <2>2
<1>9. One(write) \in Nat /\ One(read) \in Nat
  BY DEF One
<1>. HIDE DEF write
<1>10. popped' = popped + One(read)
  BY <1>3, <1>5 DEF One
<1>. HIDE DEF read
<1>11. Len(smpl_fifo') = 2 * (Written + One(write)) - popped'
  <2>1. 2 * (Written + One(write)) \in Nat
    BY <1>5, <1>9
  <2>. QED  BY <1>7, <1>8, <2>1, WindowIs
<1>12. popped' + Len(smpl_fifo') = 2 * (Written + One(write))
  BY <1>5, <1>7, <1>9, <1>11
<1>13. Written' = Written + One(write)
  <2>1. Written' = (popped' + Len(smpl_fifo')) \div 2
    BY DEF Written
  <2>. QED  BY <1>5, <1>9, <1>12, <2>1
<1>14. Len(smpl_fifo') = Len(smpl_fifo) - One(read) + 2 * One(write)
  BY <1>5, <1>9, <1>10, <1>11
<1>15. read => smpl_q' = Expected(popped)
  BY <1>7
<1>. QED  BY <1>4, <1>8, <1>10, <1>13, <1>14, <1>15 DEF read, write
-----------------------------------------------------------------------------
(* A clock preserves the invariant.                                        *)

LEMMA SourceStep ==
    ASSUME SamplesInv, NEW reads \in BOOLEAN, NEW pulse \in BOOLEAN, Clock(reads, pulse)
    PROVE  SourceInv' /\ Consumed' = Consumed + One(smpl_buff_q # None)
<1>1. /\ next_word' = IF reads THEN next_word + 1 ELSE next_word
      /\ buff_q' = IF reads THEN next_word ELSE None
      /\ smpl_buff_q' = buff_q
      /\ data64_in_reg' = IF smpl_buff_q # None THEN smpl_buff_q ELSE data64_in_reg
  BY DEF Clock, SourceClock, UnpackClock
<1>2. SourceInv /\ Consumed \in Nat /\ next_word \in Nat
  BY Types DEF SamplesInv
<1>3. One(buff_q' # None) = One(reads) /\ One(smpl_buff_q' # None) = One(buff_q # None)
  BY <1>1, <1>2 DEF One, None
<1>4. next_word' = next_word + One(reads)
  BY <1>1, <1>2 DEF One
<1>5. Consumed' = next_word' - One(buff_q' # None) - One(smpl_buff_q' # None)
  BY DEF Consumed, One, None
<1>6. Consumed' = Consumed + One(smpl_buff_q # None)
  <2>1. One(reads) \in Nat /\ One(buff_q # None) \in Nat /\ One(smpl_buff_q # None) \in Nat
    BY DEF One
  <2>2. Consumed = next_word - One(buff_q # None) - One(smpl_buff_q # None)
    BY DEF Consumed
  <2>. QED  BY <1>2, <1>3, <1>4, <1>5, <2>1, <2>2
<1>7. Consumed' \in Nat /\ next_word' \in Nat
  BY <1>1, <1>2, <1>6 DEF One
<1>8. smpl_buff_q' # None => smpl_buff_q' = Consumed'
  BY <1>1, <1>2, <1>6 DEF SourceInv
<1>9. buff_q' # None => buff_q' = Consumed' + One(smpl_buff_q' # None)
  <2>1. CASE reads
    <3>1. next_word = Consumed + One(buff_q # None) + One(smpl_buff_q # None)
      BY <1>2 DEF Consumed, One
    <3>. QED  BY <1>1, <1>2, <1>3, <1>6, <2>1, <3>1 DEF One
  <2>2. CASE ~reads
    BY <1>1, <2>2
  <2>. QED  BY <2>1, <2>2
<1>10. data64_in_reg' = Consumed' - 1
  <2>1. CASE smpl_buff_q # None
    BY <1>1, <1>2, <1>6, <2>1 DEF SourceInv, One
  <2>2. CASE ~(smpl_buff_q # None)
    BY <1>1, <1>2, <1>6, <2>2 DEF SourceInv, One
  <2>. QED  BY <2>1, <2>2
<1>11. SourceInv'
  BY <1>7, <1>8, <1>9, <1>10 DEF SourceInv, One, None
<1>. QED  BY <1>6, <1>11

\* The word that the unpacker makes in a clock.
Made(data_in) ==
    IF data_in # None /\ unp_wr_cnt \in {1, 2} THEN <<unp_wr_cnt - 1, data64_in_reg, data_in>>
    ELSE NoSamples

\* It is the next one, and it is made where the words of the input make it up.
LEMMA MadeIsNext ==
    ASSUME SamplesInv, NEW reads \in BOOLEAN, NEW pulse \in BOOLEAN, Clock(reads, pulse)
    PROVE  /\ Made(smpl_buff_q) # NoSamples => Made(smpl_buff_q) = Unpacked(Produced)
           /\ unp_wr_cnt' \in 0 .. GROUP - 1
           /\ \E g \in Nat :
                 /\ Consumed' = GROUP * g + unp_wr_cnt'
                 /\ Produced + One(Made(smpl_buff_q) # NoSamples) =
                       IF regs.packed THEN 2 * g + One(unp_wr_cnt' = 2) ELSE g
<1>0. PICK g \in Nat : /\ Consumed = GROUP * g + unp_wr_cnt
                       /\ Produced = IF regs.packed THEN 2 * g + One(unp_wr_cnt = 2) ELSE g
  BY DEF SamplesInv, UnpackInv
<1>1. /\ unp_wr_cnt \in 0 .. GROUP - 1 /\ Consumed \in Nat /\ Produced \in Nat
      /\ data64_in_reg = Consumed - 1 /\ (smpl_buff_q # None => smpl_buff_q = Consumed)
  BY Types DEF SamplesInv, UnpackInv, SourceInv
<1>2. unp_wr_cnt' = IF ~(smpl_buff_q # None) THEN unp_wr_cnt
                    ELSE IF unp_wr_cnt < GROUP - 1 THEN unp_wr_cnt + 1 ELSE 0
  BY DEF Clock, UnpackClock
<1>3. Consumed' = Consumed + One(smpl_buff_q # None)
  BY SourceStep
<1>4. CASE ~(smpl_buff_q # None)
  <2>1. Made(smpl_buff_q) = NoSamples /\ unp_wr_cnt' = unp_wr_cnt /\ Consumed' = Consumed
    BY <1>1, <1>2, <1>3, <1>4 DEF Made, One
  <2>. QED  BY <1>0, <1>1, <2>1 DEF One
<1>5. CASE smpl_buff_q # None
  <2>1. Consumed' = Consumed + 1 /\ smpl_buff_q = Consumed
    BY <1>1, <1>3, <1>5 DEF One
  <2>2. CASE regs.packed
    <3>1. GROUP = 3 /\ Consumed = 3 * g + unp_wr_cnt /\ Produced = 2 * g + One(unp_wr_cnt = 2)
      BY <1>0, <2>2 DEF GROUP
    <3>2. CASE unp_wr_cnt = 0
      <4>1. Made(smpl_buff_q) = NoSamples /\ unp_wr_cnt' = 1
        BY <1>2, <1>5, <3>1, <3>2 DEF Made
      <4>2. Consumed' = 3 * g + 1 /\ Produced + 0 = 2 * g
        BY <2>1, <3>1, <3>2 DEF One
      <4>. QED  BY <2>2, <3>1, <4>1, <4>2 DEF One
    <3>3. CASE unp_wr_cnt = 1
      <4>1. Made(smpl_buff_q) = <<0, 3 * g, 3 * g + 1>> /\ unp_wr_cnt' = 2
        BY <1>1, <1>2, <1>5, <2>1, <3>1, <3>3 DEF Made
      <4>2. Consumed' = 3 * g + 2 /\ Produced = 2 * g
        BY <2>1, <3>1, <3>3 DEF One
      <4>3. Unpacked(2 * g) = <<0, 3 * g, 3 * g + 1>>
        <5>1. (2 * g) % 2 = 0 /\ (2 * g) \div 2 = g /\ 3 * g + 0 = 3 * g
          OBVIOUS
        <5>. QED  BY <2>2, <5>1 DEF Unpacked
      <4>4. Made(smpl_buff_q) # NoSamples
        BY <4>1 DEF NoSamples
      <4>5. Produced + One(Made(smpl_buff_q) # NoSamples) = 2 * g + One(unp_wr_cnt' = 2)
        BY <4>1, <4>2, <4>4 DEF One
      <4>. QED  BY <2>2, <3>1, <4>1, <4>2, <4>3, <4>5
    <3>4. CASE unp_wr_cnt = 2
      <4>1. Made(smpl_buff_q) = <<1, 3 * g + 1, 3 * g + 2>> /\ unp_wr_cnt' = 0
        BY <1>1, <1>2, <1>5, <2>1, <3>1, <3>4 DEF Made
      <4>2. Consumed' = 3 * (g + 1) + 0 /\ Produced = 2 * g + 1
        BY <2>1, <3>1, <3>4 DEF One
      <4>3. Unpacked(2 * g + 1) = <<1, 3 * g + 1, 3 * g + 2>>
        <5>1. (2 * g + 1) % 2 = 1 /\ (2 * g + 1) \div 2 = g /\ 3 * g + 1 + 1 = 3 * g + 2
          OBVIOUS
        <5>. QED  BY <2>2, <5>1 DEF Unpacked
      <4>4. Made(smpl_buff_q) # NoSamples
        BY <4>1 DEF NoSamples
      <4>5. Produced + One(Made(smpl_buff_q) # NoSamples) = 2 * (g + 1) + One(unp_wr_cnt' = 2)
        BY <4>1, <4>2, <4>4 DEF One
      <4>6. g + 1 \in Nat
        OBVIOUS
      <4>. QED  BY <2>2, <3>1, <4>1, <4>2, <4>3, <4>5, <4>6
    <3>. QED  BY <1>1, <3>1, <3>2, <3>3, <3>4
  <2>3. CASE ~regs.packed
    <3>1. GROUP = 2 /\ Consumed = 2 * g + unp_wr_cnt /\ Produced = g
      BY <1>0, <2>3 DEF GROUP
    <3>2. CASE unp_wr_cnt = 0
      <4>1. Made(smpl_buff_q) = NoSamples /\ unp_wr_cnt' = 1
        BY <1>2, <1>5, <3>1, <3>2 DEF Made
      <4>2. Consumed' = 2 * g + 1 /\ Produced + 0 = g
        BY <2>1, <3>1, <3>2
      <4>. QED  BY <2>3, <3>1, <4>1, <4>2 DEF One
    <3>3. CASE unp_wr_cnt = 1
      <4>1. Made(smpl_buff_q) = <<0, 2 * g, 2 * g + 1>> /\ unp_wr_cnt' = 0
        BY <1>1, <1>2, <1>5, <2>1, <3>1, <3>3 DEF Made
      <4>2. Consumed' = 2 * (g + 1) + 0
        BY <2>1, <3>1, <3>3
      <4>3. Unpacked(g) = <<0, 2 * g, 2 * g + 1>>
        BY <2>3 DEF Unpacked
      <4>4. Made(smpl_buff_q) # NoSamples
        BY <4>1 DEF NoSamples
      <4>5. Produced + One(Made(smpl_buff_q) # NoSamples) = g + 1
        BY <3>1, <4>4 DEF One
      <4>6. g + 1 \in Nat
        OBVIOUS
      <4>. QED  BY <2>3, <3>1, <4>1, <4>2, <4>3, <4>5, <4>6
    <3>. QED  BY <1>1, <3>1, <3>2, <3>3
  <2>. QED  BY <2>2, <2>3
<1>. QED  BY <1>4, <1>5

LEMMA UnpackStep ==
    ASSUME SamplesInv, NEW reads \in BOOLEAN, NEW pulse \in BOOLEAN, Clock(reads, pulse)
    PROVE  /\ UnpackInv'
           /\ Produced' = Produced + One(Made(smpl_buff_q) # NoSamples)
<1>1. /\ regs' = regs /\ word128' = Made(smpl_buff_q)
      /\ data128_out_reg' = word128 /\ mux0_data128_reg' = data128_out_reg
      /\ mux1_data128_reg' = IF regs.packed THEN mux0_data128_reg ELSE word128
  BY DEF Clock, UnpackClock, Made
<1>2. Written' = Written + One(mux1_data128_reg # NoSamples)
  BY FifoStep
<1>3. /\ Written \in Nat /\ AtMux0 \in Nat /\ AtOut \in Nat /\ AtWord \in Nat /\ Produced \in Nat
      /\ UnpackInv
  BY Types DEF SamplesInv
<1>4. /\ AtMux0' = Written' + One(mux1_data128_reg' # NoSamples)
      /\ AtOut' = AtMux0' + One(mux0_data128_reg' # NoSamples)
      /\ AtWord' = IF regs.packed THEN AtOut' + One(data128_out_reg' # NoSamples) ELSE AtMux0'
      /\ Produced' = AtWord' + One(word128' # NoSamples)
  BY <1>1 DEF AtMux0, AtOut, AtWord, Produced, One, NoSamples
<1>5. Written' = AtMux0
  BY <1>2 DEF AtMux0
<1>6. /\ regs.packed => AtMux0' = AtOut /\ AtOut' = AtWord
      /\ AtWord' = Produced
  BY <1>1, <1>4, <1>5 DEF AtOut, AtWord, Produced
<1>7. Produced' = Produced + One(Made(smpl_buff_q) # NoSamples)
  BY <1>1, <1>4, <1>6
<1>8. \A n : Unpacked(n)' = Unpacked(n)
  BY <1>1 DEF Unpacked
<1>9. mux1_data128_reg' # NoSamples => mux1_data128_reg' = Unpacked(Written')
  BY <1>1, <1>3, <1>5 DEF UnpackInv, AtWord
<1>10. regs.packed /\ mux0_data128_reg' # NoSamples => mux0_data128_reg' = Unpacked(AtMux0')
  BY <1>1, <1>3, <1>6 DEF UnpackInv
<1>11. regs.packed /\ data128_out_reg' # NoSamples => data128_out_reg' = Unpacked(AtOut')
  BY <1>1, <1>3, <1>6 DEF UnpackInv
<1>12. word128' # NoSamples => word128' = Unpacked(AtWord')
  BY <1>1, <1>6, MadeIsNext
<1>13. /\ unp_wr_cnt' \in 0 .. GROUP - 1
       /\ \E g \in Nat : /\ Consumed' = GROUP * g + unp_wr_cnt'
                         /\ Produced' = IF regs.packed THEN 2 * g + One(unp_wr_cnt' = 2) ELSE g
  BY <1>7, MadeIsNext
<1>14. GROUP' = GROUP
  BY <1>1 DEF GROUP
<1>15. UnpackInv'
  BY <1>1, <1>8, <1>9, <1>10, <1>11, <1>12, <1>13, <1>14 DEF UnpackInv, One, NoSamples
<1>. QED  BY <1>7, <1>15

\* WrUsed follows the writes, and the pointer of the read side no faster than the reads.
LEMMA UsedStep ==
    ASSUME SamplesInv, NEW reads \in BOOLEAN, NEW pulse \in BOOLEAN, Clock(reads, pulse)
    PROVE  WrUsed' \in Nat /\ WrUsed' <= WrUsed + One(mux1_data128_reg # NoSamples)
<1>. DEFINE L == Len(smpl_fifo)
            I == InFlight(smpl_leaving)
            J == InFlight(Shift(smpl_leaving, txiq_state = "rd_samples"))
            r == One(txiq_state = "rd_samples")
            w == One(mux1_data128_reg # NoSamples)
<1>1. L \in Nat /\ I \in Nat /\ WrUsed = (L + I + 1) \div 2
  BY Types DEF WrUsed
<1>2. J \in Nat /\ J <= I + r
  <2>1. smpl_leaving \in Pipes /\ (txiq_state = "rd_samples") \in BOOLEAN
    BY DEF SamplesInv, FifoInv
  <2>. QED  BY <2>1, ShiftAdds
<1>3. WrUsed' = (L + 2 * w - r + J + 1) \div 2
  <2>1. WrUsed' = (Len(smpl_fifo') + InFlight(smpl_leaving') + 1) \div 2
    BY DEF WrUsed, InFlight
  <2>2. Len(smpl_fifo') = L - r + 2 * w /\ InFlight(smpl_leaving') = J
    BY FifoStep
  <2>3. r \in Nat /\ w \in Nat
    BY DEF One
  <2>. HIDE DEF L, I, J, r, w
  <2>4. L - r + 2 * w = L + 2 * w - r
    BY <1>1, <2>3
  <2>. QED  BY <2>1, <2>2, <2>4
<1>4. r \in {0, 1} /\ w \in {0, 1}
  BY DEF One
<1>5. r = 1 => L >= 1
  BY NothingIsLost, Types DEF One
<1>. HIDE DEF L, I, J, r, w
<1>6. WrUsed' \in Nat /\ WrUsed' <= WrUsed + w
  <2>1. CASE w = 0
    BY <1>1, <1>2, <1>3, <1>4, <1>5, <2>1
  <2>2. CASE w = 1
    BY <1>1, <1>2, <1>3, <1>4, <1>5, <2>2
  <2>. QED  BY <1>4, <2>1, <2>2
<1>. QED  BY <1>6 DEF w

LEMMA RoomStep ==
    ASSUME SamplesInv, NEW reads \in BOOLEAN, NEW pulse \in BOOLEAN, Clock(reads, pulse)
    PROVE  RoomInv'
<1>. DEFINE w == One(mux1_data128_reg # NoSamples)
            s == One(smpl_buff_q # None)
            b == One(buff_q # None)
            made == One(Made(smpl_buff_q) # NoSamples)
<1>1. /\ RoomInv /\ WrUsed \in Nat /\ UnderWay \in Nat /\ Produced \in Nat /\ Written \in Nat
      /\ FIFO_WORDS \in Nat /\ FIFO_WORDS >= 9
  BY Types DEF SamplesInv
<1>2. \A c : One(c) \in Nat /\ One(c) <= 1
  BY DEF One
<1>3. made <= s
  BY DEF Made, One
<1>4. /\ reads => ~fifo_full_sig
      /\ One(buff_q' # None) = One(reads) /\ One(smpl_buff_q' # None) = b
      /\ fifo_full_sig' = (WrUsed > FifoLimit)
  <2>1. next_word # None
    BY Types DEF None
  <2>. QED  BY <2>1 DEF Clock, SourceClock, FlagClock, One
<1>5. UnderWay = Produced - Written + s + b
  BY DEF UnderWay
<1>6. UnderWay' = Produced' - Written' + b + One(reads)
  <2>1. UnderWay' = Produced' - Written' + One(smpl_buff_q' # None) + One(buff_q' # None)
    BY DEF UnderWay, One, None
  <2>. QED  BY <1>4, <2>1, Zenon
<1>7. Produced' = Produced + made /\ Written' = Written + w
  BY UnpackStep, FifoStep
<1>8. UnderWay' = Produced + made - (Written + w) + b + One(reads)
  <2>0. /\ Produced + made \in Int /\ Written + w \in Int
        /\ made \in Int /\ w \in Int /\ b \in Int /\ One(reads) \in Int
    BY <1>1, <1>2
  <2>. HIDE DEF w, s, b, made
  <2>1. PICK p \in Int : p = Produced + made
    BY <2>0
  <2>2. PICK v \in Int : v = Written + w
    BY <2>0
  <2>3. Produced' = p /\ Written' = v
    BY <1>7, <2>1, <2>2, Zenon
  <2>4. UnderWay' = p - v + b + One(reads)
    BY <1>6, <2>3, Zenon
  <2>5. p - v + b + One(reads) = Produced + made - (Written + w) + b + One(reads)
    BY <1>1, <2>0, <2>1, <2>2
  <2>. QED  BY <2>4, <2>5, Zenon
<1>9. \E m1, m2, m3, m4 \in Nat : /\ m1 <= 1 /\ m2 <= 1 /\ m3 <= 1 /\ m4 <= 1
                                  /\ Produced' = Written' + m1 + m2 + m3 + m4
  <2>. DEFINE m1 == One(mux1_data128_reg' # NoSamples)
              m2 == IF regs'.packed THEN One(mux0_data128_reg' # NoSamples) ELSE 0
              m3 == IF regs'.packed THEN One(data128_out_reg' # NoSamples) ELSE 0
              m4 == One(word128' # NoSamples)
  <2>1. m1 \in Nat /\ m2 \in Nat /\ m3 \in Nat /\ m4 \in Nat /\ m1 <= 1 /\ m2 <= 1 /\ m3 <= 1 /\ m4 <= 1
    BY <1>2
  <2>2. Written' \in Int
    BY <1>1, <1>2, <1>7
  <2>3. Produced' = Written' + m1 + m2 + m3 + m4
    <3>1. AtMux0' = Written' + m1
      BY DEF AtMux0, One, NoSamples
    <3>2. AtWord' = Written' + m1 + m2 + m3
      <4>1. CASE regs'.packed
        <5>1. AtOut' = AtMux0' + m2
          BY <4>1 DEF AtOut, One, NoSamples
        <5>2. AtWord' = AtOut' + m3
          BY <4>1 DEF AtWord, One, NoSamples
        <5>. QED  BY <3>1, <5>1, <5>2, Zenon
      <4>2. CASE ~regs'.packed
        <5>1. AtWord' = AtMux0'
          BY <4>2 DEF AtWord
        <5>2. m2 = 0 /\ m3 = 0
          BY <4>2
        <5>. HIDE DEF m1, m2, m3
        <5>3. Written' + m1 = Written' + m1 + m2 + m3
          BY <2>1, <2>2, <5>2
        <5>. QED  BY <3>1, <5>1, <5>3, Zenon
      <4>. QED  BY <4>1, <4>2
    <3>3. Produced' = AtWord' + m4
      BY DEF Produced, One, NoSamples
    <3>. QED  BY <3>2, <3>3, Zenon
  <2>. HIDE DEF m1, m2, m3, m4
  <2>. QED  BY <2>1, <2>3
<1>10. FifoLimit = FIFO_WORDS - 9
  BY <1>1 DEF FifoLimit
<1>11. ~fifo_full_sig => WrUsed <= FIFO_WORDS - 8
  BY <1>1, <1>10 DEF RoomInv
<1>12. WrUsed + UnderWay <= FIFO_WORDS
  BY <1>1 DEF RoomInv
<1>13. PICK V \in Nat : V = WrUsed' /\ V <= WrUsed + w
  BY UsedStep, Zenon
<1>14. w \in Nat /\ w <= 1 /\ b \in Nat /\ b <= 1 /\ made \in Nat /\ s \in Nat /\ One(reads) \in Nat /\ One(reads) <= 1
  BY <1>2
<1>. HIDE DEF w, s, b, made
<1>15. PICK U \in Int : U = UnderWay' /\ U <= 6 /\ U <= UnderWay - w + One(reads)
  <2>. DEFINE U == Produced + made - (Written + w) + b + One(reads)
  <2>1. U = UnderWay'
    BY <1>8
  <2>2. PICK m1, m2, m3, m4 \in Nat : /\ m1 <= 1 /\ m2 <= 1 /\ m3 <= 1 /\ m4 <= 1
                                      /\ Produced' = Written' + m1 + m2 + m3 + m4
    BY <1>9
  <2>3. Produced + made = Written + w + m1 + m2 + m3 + m4
    BY <1>7, <2>2, Zenon
  <2>4. U \in Int /\ U <= 6
    BY <1>1, <1>14, <2>2, <2>3
  <2>5. U <= UnderWay - w + One(reads)
    BY <1>1, <1>3, <1>5, <1>14
  <2>. HIDE DEF U
  <2>. QED  BY <2>1, <2>4, <2>5
<1>16. V + U <= FIFO_WORDS
  <2>1. CASE reads
    <3>1. WrUsed <= FIFO_WORDS - 8
      BY <1>4, <1>11, <2>1
    <3>2. V <= FIFO_WORDS - 7
      BY <1>1, <1>13, <1>14, <3>1
    <3>3. U <= 6
      BY <1>15
    <3>. QED  BY <1>1, <3>2, <3>3
  <2>2. CASE ~reads
    <3>1. One(reads) = 0
      BY <2>2 DEF One
    <3>2. V <= WrUsed + w /\ U <= UnderWay - w
      BY <1>1, <1>13, <1>14, <1>15, <3>1
    <3>. QED  BY <1>1, <1>12, <1>14, <3>2
  <2>. QED  BY <2>1, <2>2
<1>17. ~fifo_full_sig' => V <= FifoLimit + 1
  <2>. SUFFICES ASSUME ~fifo_full_sig' PROVE V <= FifoLimit + 1
    OBVIOUS
  <2>1. ~(WrUsed > FifoLimit)
    BY <1>4
  <2>2. WrUsed <= FIFO_WORDS - 9
    BY <1>1, <1>10, <2>1
  <2>. QED  BY <1>1, <1>10, <1>13, <1>14, <2>2
<1>18. RoomInv' <=> /\ WrUsed' + UnderWay' <= FIFO_WORDS
                    /\ ~fifo_full_sig' => WrUsed' <= FifoLimit + 1
  BY DEF RoomInv, FifoLimit
<1>. QED  BY <1>13, <1>15, <1>16, <1>17, <1>18, Zenon

LEMMA FifoInvStep ==
    ASSUME SamplesInv, NEW reads \in BOOLEAN, NEW pulse \in BOOLEAN, Clock(reads, pulse)
    PROVE  FifoInv'
<1>. DEFINE r == One(txiq_state = "rd_samples")
            w == One(mux1_data128_reg # NoSamples)
            A == InFlight(Shift(smpl_arriving, mux1_data128_reg # NoSamples))
<1>1. FifoInv /\ Written \in Nat /\ popped \in Nat /\ Len(smpl_fifo) \in Nat
  BY Types DEF SamplesInv
<1>2. r \in {0, 1} /\ w \in {0, 1}
  BY DEF One
<1>3. /\ popped' = popped + r /\ Written' = Written + w
      /\ Len(smpl_fifo') = Len(smpl_fifo) - r + 2 * w
      /\ smpl_fifo' = Window(popped', 2 * (Written + w)) /\ popped' <= 2 * (Written + w)
  BY FifoStep
<1>4. /\ smpl_arriving' = Shift(smpl_arriving, mux1_data128_reg # NoSamples)
      /\ smpl_leaving' = Shift(smpl_leaving, txiq_state = "rd_samples")
  BY FifoStep
<1>5. /\ smpl_arriving' \in Pipes /\ A \in Nat /\ A <= InFlight(smpl_arriving) + w
      /\ InFlight(smpl_arriving) \in Nat
  <2>1. smpl_arriving \in Pipes /\ (mux1_data128_reg # NoSamples) \in BOOLEAN
    BY <1>1 DEF FifoInv
  <2>. QED  BY <1>4, <2>1, ShiftAdds
<1>6. smpl_leaving' \in Pipes
  <2>1. smpl_leaving \in Pipes /\ (txiq_state = "rd_samples") \in BOOLEAN
    BY <1>1 DEF FifoInv
  <2>. QED  BY <1>4, <2>1, ShiftAdds
<1>7. InFlight(smpl_arriving)' = A
  BY <1>4 DEF InFlight
<1>8. popped' \in Nat /\ Written' \in Nat
  BY <1>1, <1>2, <1>3
<1>9. popped' + Len(smpl_fifo') = 2 * Written'
  <2>1. popped + Len(smpl_fifo) = 2 * Written
    BY <1>1 DEF FifoInv
  <2>. HIDE DEF r, w
  <2>2. popped' + Len(smpl_fifo') = 2 * (Written + w)
    BY <1>1, <1>2, <1>3, <2>1
  <2>. QED  BY <1>3, <2>2
<1>10. \A n \in Nat : Expected(n)' = Expected(n)
  BY DEF Expected, Unpacked, Clock
<1>11. smpl_fifo' = Window(popped, 2 * Written)' /\ popped' <= 2 * Written'
  <2>1. Window(popped, 2 * Written)' = Window(popped', 2 * Written')
    BY <1>8 DEF Window, Expected, Unpacked, Clock
  <2>. QED  BY <1>3, <2>1
<1>12. txiq_state = "rd_samples" => Len(smpl_fifo) > 2 * InFlight(smpl_arriving)
  BY NothingIsLost
<1>13. r = 1 => Len(smpl_fifo) > 2 * InFlight(smpl_arriving)
  BY <1>12 DEF One
<1>14. Len(smpl_fifo) >= 2 * InFlight(smpl_arriving)
  BY <1>1 DEF FifoInv
<1>15. Len(smpl_fifo') >= 2 * A
  <2>. HIDE DEF r, w, A
  <2>. QED  BY <1>1, <1>2, <1>3, <1>5, <1>13, <1>14
<1>16. txiq_state' = "rd_samples" => ~RdEmpty'
  <2>. SUFFICES ASSUME txiq_state' = "rd_samples" PROVE ~RdEmpty'
    OBVIOUS
  <2>1. TxiqFsm(RdEmpty)
    BY DEF Clock, IqClock, TxiqClock
  <2>2. txiq_state # "rd_samples" /\ ~RdEmpty
    BY <2>1 DEF TxiqFsm, NextWord
  <2>3. r = 0
    BY <2>2 DEF One
  <2>4. Len(smpl_fifo) # 2 * InFlight(smpl_arriving)
    BY <2>2 DEF RdEmpty
  <2>5. Len(smpl_fifo') # 2 * A
    <3>. HIDE DEF r, w, A
    <3>. QED  BY <1>1, <1>2, <1>3, <1>5, <1>14, <2>3, <2>4
  <2>. QED  BY <1>7, <2>5 DEF RdEmpty
<1>17. int_fifo_q_valid' => smpl_q' = Expected(popped - 1)' /\ popped' > 0
  <2>. SUFFICES ASSUME int_fifo_q_valid' PROVE smpl_q' = Expected(popped - 1)' /\ popped' > 0
    OBVIOUS
  <2>1. txiq_state = "rd_samples"
    BY DEF Clock, IqClock, TxiqClock
  <2>2. smpl_q' = Expected(popped)
    BY <2>1, FifoStep
  <2>3. popped' = popped + 1
    BY <1>3, <2>1 DEF One
  <2>4. popped' - 1 = popped /\ popped' > 0
    BY <1>1, <2>3
  <2>5. Expected(popped - 1)' = Expected(popped)
    <3>1. Expected(popped - 1)' = Expected(popped' - 1)
      BY DEF Expected, Unpacked, Clock
    <3>. QED  BY <2>4, <3>1
  <2>. QED  BY <2>2, <2>4, <2>5
<1>18. Len(smpl_fifo') >= 2 * InFlight(smpl_arriving)'
  BY <1>7, <1>15
<1>. QED  BY <1>5, <1>6, <1>8, <1>9, <1>11, <1>16, <1>17, <1>18 DEF FifoInv, InFlight

LEMMA IqStep ==
    ASSUME SamplesInv, NEW reads \in BOOLEAN, NEW pulse \in BOOLEAN, Clock(reads, pulse)
    PROVE  IqInv'
<1>1. /\ IqInv /\ regs' = regs
      /\ TxiqClock(RdEmpty, smpl_q) /\ CtrlClock(pct_buff_rdy, pulse, RdEmpty)
  BY DEF SamplesInv, Clock, IqClock
<1>2. regs \in CONFIGS /\ regs.int_mode \in {"00", "01", "10", "11"} /\ regs.sync_mode \in BOOLEAN
  BY <1>1, ConfigAssumption DEF IqInv
<1>3. RdWaitMax \in {0, 2} /\ (RdWaitMax = 0 <=> Fast) /\ RdWaitMax' = RdWaitMax /\ Fast' = Fast
  BY <1>1 DEF RdWaitMax, Fast
<1>4. /\ txiq_state \in {"idle", "rd_samples", "zero_samples", "wait_rd_cycles"}
      /\ rd_wait_cnt \in Nat /\ diq_pos \in 0 .. 4
      /\ int_fifo_q_valid \in BOOLEAN /\ zero_valid \in BOOLEAN
  BY <1>1 DEF IqInv
<1>5. /\ txiq_state' \in {"idle", "rd_samples", "zero_samples", "wait_rd_cycles"}
      /\ ctrl_state' \in {"idle", "txant_enable_wait", "rd_samples", "txant_dis_wait"}
      /\ rd_wait_cnt' \in Nat /\ diq_pos' \in 0 .. 4
      /\ int_fifo_q_valid' \in BOOLEAN /\ zero_valid' \in BOOLEAN
  <2>1. txiq_state' \in {"idle", "rd_samples", "zero_samples", "wait_rd_cycles"}
    BY <1>1 DEF TxiqClock, TxiqFsm, NextWord
  <2>2. ctrl_state' \in {"idle", "txant_enable_wait", "rd_samples", "txant_dis_wait"}
    BY <1>1 DEF CtrlClock, CtrlFsm
  <2>3. rd_wait_cnt' \in Nat /\ diq_pos' \in 0 .. 4
    BY <1>1, <1>4 DEF TxiqClock
  <2>4. int_fifo_q_valid' \in BOOLEAN /\ zero_valid' \in BOOLEAN
    BY <1>1 DEF TxiqClock
  <2>. QED  BY <2>1, <2>2, <2>3, <2>4
<1>6. Loads' <=> txiq_state \in {"rd_samples", "zero_samples"}
  BY <1>1 DEF TxiqClock, Loads
<1>7. txiq_state' # "wait_rd_cycles" => ~Loads'
  BY <1>1, <1>6 DEF TxiqClock, TxiqFsm
<1>8. txiq_state' = "wait_rd_cycles" =>
         rd_wait_cnt' <= RdWaitMax' /\ (Loads' <=> rd_wait_cnt' = 0)
  <2>. SUFFICES ASSUME txiq_state' = "wait_rd_cycles"
                PROVE  rd_wait_cnt' <= RdWaitMax /\ (Loads' <=> rd_wait_cnt' = 0)
    BY <1>3
  <2>1. \/ txiq_state \in {"rd_samples", "zero_samples"}
        \/ txiq_state = "wait_rd_cycles" /\ rd_wait_cnt # RdWaitMax
    BY <1>1 DEF TxiqClock, TxiqFsm, NextWord
  <2>2. CASE txiq_state \in {"rd_samples", "zero_samples"}
    <3>1. rd_wait_cnt' = 0
      BY <1>1, <2>2 DEF TxiqClock
    <3>. QED  BY <1>3, <1>6, <2>2, <3>1
  <2>3. CASE txiq_state = "wait_rd_cycles" /\ rd_wait_cnt # RdWaitMax
    <3>1. rd_wait_cnt' = rd_wait_cnt + 1 /\ rd_wait_cnt <= RdWaitMax
      BY <1>1, <2>3 DEF TxiqClock, IqInv
    <3>. QED  BY <1>3, <1>4, <1>6, <2>3, <3>1
  <2>. QED  BY <2>1, <2>2, <2>3
<1>9. regs.sync_mode /\ txiq_state' = "rd_samples" => ctrl_state' = "rd_samples"
  <2>. SUFFICES ASSUME regs.sync_mode, txiq_state' = "rd_samples" PROVE ctrl_state' = "rd_samples"
    OBVIOUS
  <2>1. TxiqEn /\ txiq_state # "rd_samples"
    BY <1>1 DEF TxiqClock, TxiqFsm, NextWord
  <2>2. ctrl_state = "rd_samples" /\ ~LastOfBurst(RdEmpty)
    BY <2>1 DEF TxiqEn, LastOfBurst, FifoRdreq
  <2>. QED  BY <1>1, <2>2 DEF CtrlClock, CtrlFsm
<1>10. diq_word' # Zeros =>
          /\ Loads' => diq_pos' >= IF Fast THEN 1 ELSE 3
          /\ ~Fast /\ txiq_state' # "wait_rd_cycles" => diq_pos' >= 2
          /\ ~Fast /\ txiq_state' = "wait_rd_cycles" /\ rd_wait_cnt' > 0 => diq_pos' >= rd_wait_cnt' - 1
  <2>. SUFFICES ASSUME diq_word' # Zeros
                PROVE  /\ Loads' => diq_pos' >= IF Fast THEN 1 ELSE 3
                       /\ ~Fast /\ txiq_state' # "wait_rd_cycles" => diq_pos' >= 2
                       /\ ~Fast /\ txiq_state' = "wait_rd_cycles" /\ rd_wait_cnt' > 0 =>
                             diq_pos' >= rd_wait_cnt' - 1
    OBVIOUS
  <2>1. CASE Loads
    \* The word is loaded in this clock, one after the wait began.
    <3>1. txiq_state = "wait_rd_cycles" /\ rd_wait_cnt = 0
      BY <1>1, <2>1 DEF IqInv
    <3>2. rd_wait_cnt' = 1 /\ diq_pos' = 0 /\ ~Loads'
      BY <1>1, <1>6, <2>1, <3>1 DEF TxiqClock, Loads
    <3>3. ~Fast => txiq_state' = "wait_rd_cycles"
      BY <1>1, <1>3, <3>1 DEF TxiqClock, TxiqFsm
    <3>. QED  BY <3>2, <3>3
  <2>2. CASE ~Loads
    <3>1. diq_pos' = (IF diq_pos < 4 THEN diq_pos + 1 ELSE 4) /\ diq_word # Zeros /\ diq_pos # 3
      BY <1>1, <2>2 DEF TxiqClock, Loads
    <3>2. CASE txiq_state \in {"rd_samples", "zero_samples"}
      <4>1. txiq_state' = "wait_rd_cycles" /\ rd_wait_cnt' = 0
        BY <1>1, <3>2 DEF TxiqClock, TxiqFsm
      <4>2. ~Fast => diq_pos >= 2
        BY <1>1, <3>1, <3>2 DEF IqInv
      <4>. QED  BY <1>4, <3>1, <4>1, <4>2
    <3>3. CASE txiq_state = "idle"
      <4>1. txiq_state' # "wait_rd_cycles"
        BY <1>1, <3>3 DEF TxiqClock, TxiqFsm, NextWord
      <4>2. ~Fast => diq_pos >= 2
        BY <1>1, <3>1, <3>3 DEF IqInv
      <4>3. ~Loads'
        BY <1>6, <3>3
      <4>. QED  BY <1>4, <3>1, <4>1, <4>2, <4>3
    <3>4. CASE txiq_state = "wait_rd_cycles"
      <4>1. rd_wait_cnt > 0 /\ rd_wait_cnt <= RdWaitMax
        BY <1>1, <1>4, <2>2, <3>4 DEF IqInv
      <4>2. ~Fast => diq_pos >= rd_wait_cnt - 1
        BY <1>1, <3>1, <3>4, <4>1 DEF IqInv
      <4>3. rd_wait_cnt' = rd_wait_cnt + 1 /\ ~Loads'
        BY <1>1, <1>6, <3>4 DEF TxiqClock
      <4>4. txiq_state' # "wait_rd_cycles" => rd_wait_cnt = RdWaitMax
        BY <1>1, <3>4 DEF TxiqClock, TxiqFsm
      <4>5. ~Fast => RdWaitMax = 2
        BY <1>3
      <4>6. ASSUME ~Fast, txiq_state' # "wait_rd_cycles" PROVE diq_pos' >= 2
        BY <1>4, <3>1, <4>2, <4>4, <4>5, <4>6
      <4>7. ASSUME ~Fast PROVE diq_pos' >= rd_wait_cnt' - 1
        BY <1>4, <3>1, <4>1, <4>2, <4>3, <4>5, <4>7
      <4>. QED  BY <4>3, <4>6, <4>7
    <3>. QED  BY <1>4, <3>2, <3>3, <3>4
  <2>. QED  BY <2>1, <2>2
<1>. QED  BY <1>1, <1>2, <1>3, <1>5, <1>7, <1>8, <1>9, <1>10 DEF IqInv

LEMMA SamplesInvInit == Init => SamplesInv
<1>. SUFFICES ASSUME Init PROVE SamplesInv
  OBVIOUS
<1>1. SourceInv
  BY DEF Init, UnpackInit, SourceInv, Consumed, One, None
<1>2. Len(smpl_fifo) = 0 /\ popped = 0 /\ Written = 0
  BY DEF Init, Written
<1>3. Consumed = 0 /\ Produced = 0 /\ UnderWay = 0
  BY <1>2 DEF Init, UnpackInit, Consumed, Produced, AtWord, AtOut, AtMux0, UnderWay, One, None
<1>4. UnpackInv
  <2>1. unp_wr_cnt = 0 /\ GROUP \in {2, 3}
    BY DEF Init, UnpackInit, GROUP
  <2>2. Consumed = GROUP * 0 + unp_wr_cnt /\ Produced = IF regs.packed THEN 2 * 0 + One(unp_wr_cnt = 2) ELSE 0
    BY <1>3, <2>1 DEF One
  <2>3. /\ mux1_data128_reg = NoSamples /\ mux0_data128_reg = NoSamples
        /\ data128_out_reg = NoSamples /\ word128 = NoSamples
    BY DEF Init, UnpackInit
  <2>. QED  BY <2>1, <2>2, <2>3 DEF UnpackInv
<1>5. InFlight(smpl_arriving) = 0 /\ InFlight(smpl_leaving) = 0 /\ smpl_arriving \in Pipes /\ smpl_leaving \in Pipes
  BY NothingUnderWay DEF Init
<1>6. RoomInv
  <2>1. WrUsed = 0
    BY <1>2, <1>5 DEF WrUsed
  <2>. QED  BY <1>3, <2>1, FifoAssumption DEF RoomInv, FifoLimit
<1>7. FifoInv
  <2>1. smpl_fifo = <<>> /\ Window(0, 0) = <<>>
    <3>1. Window(0, 0) \in Seq(Words) /\ Len(Window(0, 0)) = 0 - 0
      BY WindowIs
    <3>. QED  BY <3>1 DEF Init
  <2>2. txiq_state = "idle" /\ int_fifo_q_valid = FALSE
    BY DEF Init, IqInit
  <2>3. 2 * Written = 0 /\ popped + Len(smpl_fifo) = 0
    BY <1>2
  <2>. QED  BY <1>2, <1>5, <2>1, <2>2, <2>3 DEF FifoInv
<1>8. IqInv
  <2>1. /\ regs \in CONFIGS /\ txiq_state = "idle" /\ ctrl_state = "idle" /\ rd_wait_cnt = 0
        /\ diq_pos = 4 /\ diq_word = Zeros /\ int_fifo_q_valid = FALSE /\ zero_valid = FALSE
    BY DEF Init, RegsInit, IqInit
  <2>2. int_fifo_q_valid \in BOOLEAN /\ zero_valid \in BOOLEAN /\ ~Loads
    BY <2>1, Zenon DEF Loads
  <2>. QED  BY <2>1, <2>2 DEF IqInv
<1>. QED  BY <1>1, <1>4, <1>6, <1>7, <1>8 DEF SamplesInv

LEMMA SamplesInvNext == SamplesInv /\ [Next]_vars => SamplesInv'
<1>. SUFFICES ASSUME SamplesInv, [Next]_vars PROVE SamplesInv'
  OBVIOUS
<1>1. CASE Next
  <2>1. PICK reads \in BOOLEAN, pulse \in BOOLEAN : Clock(reads, pulse)
    BY <1>1 DEF Next
  <2>. QED  BY <2>1, SourceStep, UnpackStep, RoomStep, FifoInvStep, IqStep DEF SamplesInv
<1>2. CASE UNCHANGED vars
  <2>1. UNCHANGED <<SourceInv, UnpackInv, RoomInv, FifoInv, IqInv>>
    BY <1>2 DEF vars, unpackVars, iqVars, topVars, SourceInv, Consumed, UnpackInv, Written, AtMux0, AtOut,
       AtWord, Produced, GROUP, Unpacked, RoomInv, WrUsed, UnderWay, FifoInv, Window, Expected, RdEmpty,
       IqInv, Loads, RdWaitMax, Fast, InFlight, One
  <2>. QED  BY <2>1 DEF SamplesInv
<1>. QED  BY <1>1, <1>2

\* The invariant says what the property asks: the words in the FIFO are consecutive,
\* and a word is not loaded before the one in the shift registers is out.
LEMMA SamplesInvMeans == SamplesInv => SamplesInOrder
<1>. SUFFICES ASSUME SamplesInv PROVE SamplesInOrder
  OBVIOUS
<1>1. /\ popped \in Nat /\ Written \in Nat /\ popped <= 2 * Written
      /\ popped + Len(smpl_fifo) = 2 * Written /\ Len(smpl_fifo) \in Nat
      /\ smpl_fifo = Window(popped, 2 * Written)
  BY Types DEF SamplesInv, FifoInv
<1>2. WordsInOrder
  <2>1. \A j \in 1 .. Len(smpl_fifo) : smpl_fifo[j] = Expected(popped + j - 1)
    <3>1. 2 * Written \in Nat /\ Len(smpl_fifo) = 2 * Written - popped
      BY <1>1
    <3>2. \A j \in 1 .. 2 * Written - popped : Window(popped, 2 * Written)[j] = Expected(popped + j - 1)
      BY <1>1, <3>1, WindowIs
    <3>. QED  BY <1>1, <3>1, <3>2
  <2>2. int_fifo_q_valid => smpl_q = Expected(popped - 1)
    BY DEF SamplesInv, FifoInv
  <2>. QED  BY <2>1, <2>2 DEF WordsInOrder
<1>3. WordOutBeforeNext
  <2>. SUFFICES ASSUME int_fifo_q_valid \/ zero_valid, diq_word # Zeros,
                       NEW p \in diq_pos + 1 .. 4
                PROVE  Position(p) = {}
    BY DEF WordOutBeforeNext
  <2>1. diq_pos >= (IF Fast THEN 1 ELSE 3) /\ diq_pos \in 0 .. 4
    BY DEF SamplesInv, IqInv, Loads
  <2>2. regs.int_mode \in {"00", "01", "10", "11"}
    BY ConfigAssumption DEF SamplesInv, IqInv
  <2>3. p \in {2, 3, 4} /\ (~Fast => p = 4)
    BY <2>1
  <2>4. CASE Fast
    <3>1. Position(p) = << {0, 1}, {2, 3}, {}, {}, {} >>[p + 1]
      BY <2>4 DEF Position, Fast
    <3>2. << {0, 1}, {2, 3}, {}, {}, {} >>[3] = {}
      OBVIOUS
    <3>3. << {0, 1}, {2, 3}, {}, {}, {} >>[4] = {}
      OBVIOUS
    <3>4. << {0, 1}, {2, 3}, {}, {}, {} >>[5] = {}
      OBVIOUS
    <3>5. p + 1 = 3 \/ p + 1 = 4 \/ p + 1 = 5
      BY <2>3
    <3>. QED  BY <3>1, <3>2, <3>3, <3>4, <3>5, Zenon
  <2>5. CASE ~Fast
    <3>1. p + 1 = 5
      BY <2>3, <2>5
    <3>2. /\ << {0, 1}, {}, {2, 3}, {}, {} >>[5] = {}
          /\ << {}, {0, 1}, {}, {2, 3}, {} >>[5] = {}
          /\ << {0}, {1}, {2}, {3}, {} >>[5] = {}
      OBVIOUS
    <3>3. CASE regs.int_mode = "01"
      <4>1. Position(p) = << {0, 1}, {}, {2, 3}, {}, {} >>[p + 1]
        BY <3>3 DEF Position
      <4>. QED  BY <3>1, <3>2, <4>1, Zenon
    <3>4. CASE regs.int_mode = "10"
      <4>1. Position(p) = << {}, {0, 1}, {}, {2, 3}, {} >>[p + 1]
        BY <3>4 DEF Position
      <4>. QED  BY <3>1, <3>2, <4>1, Zenon
    <3>5. CASE regs.int_mode = "11"
      <4>1. Position(p) = << {0}, {1}, {2}, {3}, {} >>[p + 1]
        BY <3>5 DEF Position
      <4>. QED  BY <3>1, <3>2, <4>1, Zenon
    <3>. QED  BY <2>2, <2>5, <3>3, <3>4, <3>5 DEF Fast
  <2>. QED  BY <2>4, <2>5
<1>. QED  BY <1>2, <1>3 DEF SamplesInOrder

LEMMA SamplesInvariant == Spec => []SamplesInv
<1>. QED  BY SamplesInvInit, SamplesInvNext, PTL DEF Spec

\* The samples of the packet buffers reach the bus in order and all of them, whatever
\* the gaps between the reads: p2d_rd stops late at smpl_buff_almost_full, fifo_limit
\* keeps room for the words that are under way by then, and txiq loads a word only when
\* the one before it is out (packets2data_top.vhd, bit_unpack_64.vhd, txiq.vhd).
THEOREM SamplesArriveInOrder == Spec => []SamplesInOrder
<1>. QED  BY SamplesInvariant, SamplesInvMeans, PTL

-----------------------------------------------------------------------------
(* Bursts.                                                                 *)

LEMMA Settings ==
    ASSUME NEW c \in CONFIGS
    PROVE  /\ c.sync_mode \in BOOLEAN /\ c.sync_size \in Nat /\ c.after \in Nat
           /\ BurstSizes /\ c.sync_mode => c.sync_size >= 1 /\ c.sync_size <= 65535
           /\ AntennaKept /\ c.sync_mode =>
                 c.after <= 65535 /\ LastPosition[c.int_mode] <= c.after + 1
<1>1. c.sync_mode \in BOOLEAN /\ c.sync_size \in Nat /\ c.after \in Nat
  BY ConfigAssumption
<1>2. BurstSizes /\ c.sync_mode => c.sync_size >= 1 /\ c.sync_size <= 65535
  BY <1>1 DEF BurstSizes
<1>3. AntennaKept /\ c.sync_mode => c.after <= 65535 /\ LastPosition[c.int_mode] <= c.after + 1
  BY <1>1 DEF AntennaKept
<1>. QED  BY <1>1, <1>2, <1>3

LEMMA BurstInvInit == BurstSizes /\ Init => BurstInv
<1>. SUFFICES ASSUME BurstSizes, Init PROVE BurstInv
  OBVIOUS
<1>1. regs.sync_mode => regs.sync_size \in Nat /\ regs.sync_size >= 1
  BY Settings DEF Init, RegsInit
<1>2. burst = 0 /\ ctrl_state = "idle"
  BY DEF Init, IqInit
<1>. QED  BY <1>1, <1>2 DEF BurstInv

LEMMA BurstInvStep ==
    ASSUME BurstSizes, SamplesInv, BurstInv,
           NEW reads \in BOOLEAN, NEW pulse \in BOOLEAN, Clock(reads, pulse)
    PROVE  BurstInv'
<1>1. regs' = regs /\ regs \in CONFIGS /\ CtrlClock(pct_buff_rdy, pulse, RdEmpty)
  BY DEF SamplesInv, IqInv, Clock, IqClock
<1>2. SUFFICES ASSUME regs.sync_mode
               PROVE  /\ burst' \in Nat /\ burst' <= regs.sync_size
                      /\ ctrl_state' = "rd_samples" => burst_cnt' = burst' /\ burst' < regs.sync_size
                      /\ ctrl_state' = "txant_dis_wait" => burst' = regs.sync_size
  BY <1>1 DEF BurstInv
<1>3. regs.sync_size \in Nat /\ regs.sync_size >= 1 /\ regs.sync_size <= 65535
  BY <1>1, <1>2, Settings
<1>4. (regs.sync_size - 1) % 65536 = regs.sync_size - 1
  BY <1>3
<1>5. /\ burst \in Nat /\ burst <= regs.sync_size
      /\ ctrl_state = "rd_samples" => burst_cnt = burst /\ burst < regs.sync_size
      /\ ctrl_state = "txant_dis_wait" => burst = regs.sync_size
  BY <1>2 DEF BurstInv
<1>6. FifoRdreq(RdEmpty) <=> txiq_state = "rd_samples"
  BY NothingIsLost
<1>7. txiq_state = "rd_samples" => ctrl_state = "rd_samples"
  BY <1>2 DEF SamplesInv, IqInv
<1>8. burst' = IF ctrl_state = "txant_enable_wait" THEN 0
               ELSE IF txiq_state = "rd_samples" THEN burst + 1 ELSE burst
  BY <1>6 DEF Clock, SmplFifoClock
<1>9. CASE ctrl_state = "idle"
  <2>1. burst' = burst /\ ctrl_state' \in {"idle", "txant_enable_wait"}
    BY <1>1, <1>7, <1>8, <1>9 DEF CtrlClock, CtrlFsm
  <2>. QED  BY <1>5, <2>1
<1>10. CASE ctrl_state = "txant_enable_wait"
  <2>1. burst' = 0 /\ burst_cnt' = 0 /\ ctrl_state' \in {"rd_samples", "txant_enable_wait"}
    BY <1>1, <1>8, <1>10 DEF CtrlClock, CtrlFsm
  <2>. QED  BY <1>3, <2>1
<1>11. CASE ctrl_state = "rd_samples"
  <2>1. burst_cnt = burst /\ burst < regs.sync_size
    BY <1>5, <1>11
  <2>2. CASE txiq_state = "rd_samples"
    <3>1. burst' = burst + 1 /\ burst_cnt' = burst + 1
      BY <1>1, <1>6, <1>8, <1>11, <2>1, <2>2 DEF CtrlClock
    <3>2. ctrl_state' = IF burst >= regs.sync_size - 1 THEN "txant_dis_wait" ELSE "rd_samples"
      BY <1>1, <1>4, <1>6, <1>11, <2>1, <2>2 DEF CtrlClock, CtrlFsm, LastOfBurst
    <3>. QED  BY <1>3, <1>5, <2>1, <3>1, <3>2
  <2>3. CASE txiq_state # "rd_samples"
    <3>1. burst' = burst /\ burst_cnt' = burst
      BY <1>1, <1>6, <1>8, <1>11, <2>1, <2>3 DEF CtrlClock
    <3>2. ctrl_state' = "rd_samples"
      BY <1>1, <1>6, <1>11, <2>3 DEF CtrlClock, CtrlFsm, LastOfBurst
    <3>. QED  BY <1>5, <2>1, <3>1, <3>2
  <2>. QED  BY <2>2, <2>3
<1>12. CASE ctrl_state = "txant_dis_wait"
  <2>1. burst' = burst /\ ctrl_state' \in {"idle", "txant_dis_wait"}
    BY <1>1, <1>7, <1>8, <1>12 DEF CtrlClock, CtrlFsm
  <2>. QED  BY <1>5, <1>12, <2>1
<1>13. ctrl_state \in {"idle", "txant_enable_wait", "rd_samples", "txant_dis_wait"}
  BY DEF SamplesInv, IqInv
<1>. QED  BY <1>9, <1>10, <1>11, <1>12, <1>13

LEMMA BurstInvNext == BurstSizes /\ SamplesInv /\ BurstInv /\ [Next]_vars => BurstInv'
<1>. SUFFICES ASSUME BurstSizes, SamplesInv, BurstInv, [Next]_vars PROVE BurstInv'
  OBVIOUS
<1>1. CASE Next
  <2>1. PICK reads \in BOOLEAN, pulse \in BOOLEAN : Clock(reads, pulse)
    BY <1>1 DEF Next
  <2>. QED  BY <2>1, BurstInvStep
<1>2. CASE UNCHANGED vars
  BY <1>2 DEF vars, iqVars, BurstInv
<1>. QED  BY <1>1, <1>2

LEMMA BurstInvMeans == BurstInv => BurstIsExact
<1>. QED  BY DEF BurstInv, BurstIsExact

\* A burst has exactly the words that the host asked for: txiq_en falls in the clock in
\* which the last read is counted, and txiq has no other read under way then
\* (txiq_ctrl.vhd, txiq.vhd).  The size has 16 bits and is not zero.
THEOREM BurstsAreExact ==
    ASSUME BurstSizes
    PROVE  Spec => []BurstIsExact
<1>1. BurstSizes
  OBVIOUS
<1>2. Init => BurstInv
  BY <1>1, BurstInvInit
<1>3. SamplesInv /\ BurstInv /\ [Next]_vars => BurstInv'
  BY <1>1, BurstInvNext
<1>4. Spec => []BurstInv
  BY <1>2, <1>3, SamplesInvariant, PTL DEF Spec
<1>. QED  BY <1>4, BurstInvMeans, PTL

-----------------------------------------------------------------------------
(* The antenna.                                                            *)

\* Every clock the word is one clock older.
LEMMA CoveredStep ==
    ASSUME AntennaKept, SamplesInv, AntennaInv, NEW p \in -1 .. 3, Covered(p),
           NEW reads \in BOOLEAN, NEW pulse \in BOOLEAN, Clock(reads, pulse)
    PROVE  Covered(p + 1)'
<1>1. /\ regs' = regs /\ regs \in CONFIGS
      /\ TxiqClock(RdEmpty, smpl_q) /\ CtrlClock(pct_buff_rdy, pulse, RdEmpty)
  BY DEF SamplesInv, IqInv, Clock, IqClock
<1>2. p \in Int /\ p >= -1 /\ p <= 3
  OBVIOUS
<1>3. CASE regs.sync_mode
  <2>1. regs.after \in Nat /\ regs.after <= 65535
    BY <1>1, <1>3, Settings
  <2>2. /\ p <= regs.after => txant_en_reg
        /\ p < regs.after => \/ ctrl_state = "rd_samples"
                             \/ ctrl_state = "txant_dis_wait" /\ txant_dis_wait_cnt >= regs.after - 1 - p
    BY <1>3 DEF Covered
  <2>3. txant_en_mux' = txant_en_reg /\ TxantReg
    BY <1>1, <1>3 DEF CtrlClock
  <2>4. ASSUME p + 1 <= regs.after + 1 PROVE txant_en_mux'
    BY <1>2, <2>1, <2>2, <2>3, <2>4
  <2>5. ASSUME p + 1 <= regs.after PROVE txant_en_reg'
    <3>1. ctrl_state \in {"rd_samples", "txant_dis_wait"}
      BY <1>2, <2>1, <2>2, <2>5
    <3>. QED  BY <2>3, <3>1 DEF AntennaInv, TxantReg
  <2>6. ASSUME p + 1 < regs.after
        PROVE  \/ ctrl_state' = "rd_samples"
               \/ ctrl_state' = "txant_dis_wait" /\ txant_dis_wait_cnt' >= regs.after - 1 - (p + 1)
    <3>1. p < regs.after
      BY <1>2, <2>1, <2>6
    <3>2. CASE ctrl_state = "rd_samples"
      <4>1. ctrl_state' \in {"rd_samples", "txant_dis_wait"} /\ txant_dis_wait_cnt' = regs.after
        BY <1>1, <3>2 DEF CtrlClock, CtrlFsm
      <4>. QED  BY <1>2, <2>1, <4>1
    <3>3. CASE ctrl_state = "txant_dis_wait" /\ txant_dis_wait_cnt >= regs.after - 1 - p
      <4>1. txant_dis_wait_cnt \in Nat /\ txant_dis_wait_cnt <= 65535
        BY <1>3 DEF AntennaInv
      <4>2. txant_dis_wait_cnt >= 1
        BY <1>2, <2>1, <2>6, <3>3, <4>1
      <4>3. (txant_dis_wait_cnt - 1) % 65536 = txant_dis_wait_cnt - 1
        BY <4>1, <4>2
      <4>4. ctrl_state' = "txant_dis_wait" /\ txant_dis_wait_cnt' = txant_dis_wait_cnt - 1
        BY <1>1, <3>3, <4>1, <4>2, <4>3 DEF CtrlClock, CtrlFsm
      <4>. QED  BY <1>2, <2>1, <3>3, <4>1, <4>4
    <3>. QED  BY <2>2, <3>1, <3>2, <3>3
  <2>. QED  BY <1>1, <1>3, <2>4, <2>5, <2>6 DEF Covered
<1>4. CASE ~regs.sync_mode
  <2>. DEFINE last == IF Fast THEN 1 ELSE 3
  <2>1. /\ p < last => txiq_txant_en
        /\ p < last - 1 => txiq_state = "wait_rd_cycles" /\ rd_wait_cnt = p + 1
    BY <1>4 DEF Covered
  <2>2. last \in Nat /\ last <= 3 /\ (p + 1 < last - 1 => RdWaitMax = 2 /\ last = 3)
    BY <1>2 DEF RdWaitMax, Fast
  <2>3. last' = last
    BY <1>1 DEF Fast
  <2>4. txant_en_mux' = txiq_txant_en /\ txiq_txant_en' = (txiq_state # "idle")
    BY <1>1, <1>4 DEF CtrlClock, TxiqClock
  <2>. HIDE DEF last
  <2>5. ASSUME p + 1 <= last PROVE txant_en_mux'
    BY <1>2, <2>1, <2>2, <2>4, <2>5
  <2>6. ASSUME p + 1 < last PROVE txiq_txant_en'
    <3>1. txiq_state = "wait_rd_cycles"
      BY <1>2, <2>1, <2>2, <2>6
    <3>. QED  BY <2>4, <3>1
  <2>7. ASSUME p + 1 < last - 1 PROVE txiq_state' = "wait_rd_cycles" /\ rd_wait_cnt' = p + 1 + 1
    <3>1. txiq_state = "wait_rd_cycles" /\ rd_wait_cnt = p + 1 /\ p + 1 < 2 /\ RdWaitMax = 2
      BY <1>2, <2>1, <2>2, <2>7
    <3>2. rd_wait_cnt # RdWaitMax
      BY <1>2, <3>1
    <3>. QED  BY <1>1, <3>1, <3>2 DEF TxiqClock, TxiqFsm
  <2>8. Covered(p + 1)' <=> /\ p + 1 <= last' /\ p + 1 >= 0 => txant_en_mux'
                            /\ p + 1 < last' => txiq_txant_en'
                            /\ p + 1 < last' - 1 => txiq_state' = "wait_rd_cycles" /\ rd_wait_cnt' = p + 1 + 1
    BY <1>1, <1>4 DEF Covered, last
  <2>. QED  BY <2>3, <2>5, <2>6, <2>7, <2>8
<1>. QED  BY <1>3, <1>4

LEMMA AntennaInvStep ==
    ASSUME AntennaKept, SamplesInv, AntennaInv,
           NEW reads \in BOOLEAN, NEW pulse \in BOOLEAN, Clock(reads, pulse)
    PROVE  AntennaInv'
<1>1. /\ regs' = regs /\ regs \in CONFIGS /\ IqInv
      /\ TxiqClock(RdEmpty, smpl_q) /\ CtrlClock(pct_buff_rdy, pulse, RdEmpty)
  BY DEF SamplesInv, IqInv, Clock, IqClock
<1>2. txant_en_reg' \in BOOLEAN
  <2>1. txant_en_reg' = TRUE \/ txant_en_reg' = FALSE \/ txant_en_reg' = txant_en_reg
    BY <1>1 DEF CtrlClock, TxantReg
  <2>2. txant_en_reg \in BOOLEAN
    BY DEF AntennaInv
  <2>. QED  BY <2>1, <2>2, Zenon
<1>3. /\ txant_dis_wait_cnt' \in Nat
      /\ regs.sync_mode => txant_dis_wait_cnt' <= 65535
  <2>1. txant_dis_wait_cnt' = IF ctrl_state = "txant_dis_wait" THEN (txant_dis_wait_cnt - 1) % 65536 ELSE regs.after
    BY <1>1 DEF CtrlClock
  <2>2. regs.after \in Nat /\ (regs.sync_mode => regs.after <= 65535)
    BY <1>1, Settings
  <2>3. txant_dis_wait_cnt \in Nat
    BY DEF AntennaInv
  <2>. QED  BY <2>1, <2>2, <2>3
<1>4. ctrl_state' \in {"rd_samples", "txant_dis_wait"} => txant_en_reg'
  <2>1. ctrl_state' \in {"rd_samples", "txant_dis_wait"} =>
           ctrl_state \in {"txant_enable_wait", "rd_samples", "txant_dis_wait"}
    BY <1>1 DEF CtrlClock, CtrlFsm
  <2>. QED  BY <1>1, <2>1 DEF CtrlClock, TxantReg, AntennaInv
<1>5. int_fifo_q_valid' => Covered(-1)'
  <2>. SUFFICES ASSUME int_fifo_q_valid' PROVE Covered(-1)'
    OBVIOUS
  <2>1. txiq_state = "rd_samples" /\ txiq_state' = "wait_rd_cycles" /\ rd_wait_cnt' = 0 /\ txiq_txant_en'
    BY <1>1 DEF TxiqClock, TxiqFsm
  <2>2. CASE regs.sync_mode
    <3>1. ctrl_state = "rd_samples"
      BY <1>1, <2>1, <2>2 DEF IqInv
    <3>2. ctrl_state' \in {"rd_samples", "txant_dis_wait"} /\ txant_dis_wait_cnt' = regs.after
      BY <1>1, <3>1 DEF CtrlClock, CtrlFsm
    <3>3. txant_en_reg' /\ regs.after \in Nat
      BY <1>1, <1>4, <3>2, ConfigAssumption
    <3>. QED  BY <1>1, <2>2, <3>2, <3>3 DEF Covered
  <2>3. CASE ~regs.sync_mode
    BY <1>1, <2>1, <2>3 DEF Covered
  <2>. QED  BY <2>2, <2>3
<1>6. ASSUME diq_word' # Zeros PROVE diq_pos' <= 3 /\ Covered(diq_pos)'
  <2>1. \E p \in -1 .. 3 : Covered(p) /\ diq_pos' = p + 1 /\ p # 3
    <3>1. CASE int_fifo_q_valid
      <4>1. diq_pos' = 0 /\ Covered(-1)
        BY <1>1, <3>1 DEF TxiqClock, AntennaInv
      <4>2. -1 \in -1 .. 3 /\ 0 = -1 + 1 /\ -1 # 3
        OBVIOUS
      <4>. QED  BY <4>1, <4>2
    <3>2. CASE ~int_fifo_q_valid
      <4>1. ~zero_valid /\ diq_pos # 3 /\ diq_word # Zeros
        BY <1>1, <1>6, <3>2 DEF TxiqClock
      <4>2. diq_pos \in 0 .. 4 /\ diq_pos <= 3 /\ Covered(diq_pos)
        BY <1>1, <4>1 DEF IqInv, AntennaInv
      <4>3. diq_pos \in -1 .. 3 /\ diq_pos < 4
        BY <4>2
      <4>4. diq_pos' = diq_pos + 1
        BY <1>1, <3>2, <4>1, <4>3 DEF TxiqClock
      <4>. QED  BY <4>1, <4>2, <4>3, <4>4
    <3>. QED  BY <3>1, <3>2
  <2>2. PICK p \in -1 .. 3 : Covered(p) /\ diq_pos' = p + 1 /\ p # 3
    BY <2>1
  <2>3. Covered(p + 1)'
    BY <2>2, CoveredStep
  <2>4. Covered(diq_pos)' <=> Covered(p + 1)'
    BY <2>2 DEF Covered
  <2>. QED  BY <2>2, <2>3, <2>4
<1>. QED  BY <1>1, <1>2, <1>3, <1>4, <1>5, <1>6 DEF AntennaInv

LEMMA AntennaInvInit == Init => AntennaInv
<1>. SUFFICES ASSUME Init PROVE AntennaInv
  OBVIOUS
<1>1. /\ txant_en_reg = FALSE /\ txant_dis_wait_cnt = 0 /\ ctrl_state = "idle"
      /\ int_fifo_q_valid = FALSE /\ diq_word = Zeros
  BY DEF Init, IqInit
<1>2. txant_en_reg \in BOOLEAN
  BY <1>1, Zenon
<1>. QED  BY <1>1, <1>2 DEF AntennaInv

LEMMA AntennaInvNext == AntennaKept /\ SamplesInv /\ AntennaInv /\ [Next]_vars => AntennaInv'
<1>. SUFFICES ASSUME AntennaKept, SamplesInv, AntennaInv, [Next]_vars PROVE AntennaInv'
  OBVIOUS
<1>1. CASE Next
  <2>1. PICK reads \in BOOLEAN, pulse \in BOOLEAN : Clock(reads, pulse)
    BY <1>1 DEF Next
  <2>. QED  BY <2>1, AntennaInvStep
<1>2. CASE UNCHANGED vars
  BY <1>2 DEF vars, iqVars, AntennaInv, Covered, Fast
<1>. QED  BY <1>1, <1>2

LEMMA AntennaInvMeans == AntennaKept /\ SamplesInv /\ AntennaInv => AntennaOn
<1>. SUFFICES ASSUME AntennaKept, SamplesInv, AntennaInv, diq_word # Zeros, Position(diq_pos) # {}
              PROVE  txant_en_mux
  BY DEF AntennaOn
<1>1. regs \in CONFIGS /\ diq_pos \in 0 .. 3 /\ Covered(diq_pos)
  BY DEF SamplesInv, IqInv, AntennaInv
<1>2. regs.int_mode \in {"00", "01", "10", "11"} /\ regs.after \in Nat
  BY <1>1, ConfigAssumption
<1>3. diq_pos <= LastPosition[regs.int_mode]
  <2>1. CASE regs.int_mode = "00"
    <3>1. Position(diq_pos) = << {0, 1}, {2, 3}, {}, {}, {} >>[diq_pos + 1]
      BY <2>1 DEF Position
    <3>2. << {0, 1}, {2, 3}, {}, {}, {} >>[3] = {} /\ << {0, 1}, {2, 3}, {}, {}, {} >>[4] = {}
      OBVIOUS
    <3>3. diq_pos + 1 # 3 /\ diq_pos + 1 # 4
      BY <3>1, <3>2, Zenon
    <3>4. LastPosition[regs.int_mode] = 1
      BY <2>1 DEF LastPosition
    <3>. QED  BY <1>1, <3>3, <3>4
  <2>2. CASE regs.int_mode = "01"
    <3>1. Position(diq_pos) = << {0, 1}, {}, {2, 3}, {}, {} >>[diq_pos + 1]
      BY <2>2 DEF Position
    <3>2. << {0, 1}, {}, {2, 3}, {}, {} >>[4] = {}
      OBVIOUS
    <3>3. diq_pos + 1 # 4
      BY <3>1, <3>2, Zenon
    <3>4. LastPosition[regs.int_mode] = 2
      BY <2>2 DEF LastPosition
    <3>. QED  BY <1>1, <3>3, <3>4
  <2>3. CASE regs.int_mode \in {"10", "11"}
    <3>1. LastPosition[regs.int_mode] = 3
      BY <2>3 DEF LastPosition
    <3>. QED  BY <1>1, <3>1
  <2>. QED  BY <1>2, <2>1, <2>2, <2>3
<1>4. LastPosition[regs.int_mode] \in Nat /\ LastPosition[regs.int_mode] <= 3 /\ (Fast => LastPosition[regs.int_mode] = 1)
  BY <1>2 DEF LastPosition, Fast
<1>5. CASE regs.sync_mode
  <2>1. LastPosition[regs.int_mode] <= regs.after + 1
    BY <1>1, <1>5, Settings
  <2>2. diq_pos <= regs.after + 1 /\ diq_pos >= 0
    BY <1>1, <1>2, <1>3, <1>4, <2>1
  <2>. QED  BY <1>1, <1>5, <2>2 DEF Covered
<1>6. CASE ~regs.sync_mode
  <2>1. diq_pos <= (IF Fast THEN 1 ELSE 3) /\ diq_pos >= 0
    BY <1>1, <1>3, <1>4
  <2>. QED  BY <1>1, <1>6, <2>1 DEF Covered
<1>. QED  BY <1>5, <1>6

\* The antenna is on while a sample of the host is on the bus: without pulses because
\* txiq leaves its idle state before the word it reads is loaded and stays until the word
\* is out, in a burst because txiq_ctrl keeps it on for txant_cyc_after_en clocks after
\* the last read, if the host sets those long enough for the mode (txiq.vhd,
\* txiq_ctrl.vhd).
THEOREM AntennaIsOn ==
    ASSUME AntennaKept
    PROVE  Spec => []AntennaOn
<1>1. AntennaKept
  OBVIOUS
<1>2. SamplesInv /\ AntennaInv /\ [Next]_vars => AntennaInv'
  BY <1>1, AntennaInvNext
<1>3. SamplesInv /\ AntennaInv => AntennaOn
  BY <1>1, AntennaInvMeans
<1>. QED  BY <1>2, <1>3, AntennaInvInit, SamplesInvariant, PTL DEF Spec
=============================================================================
