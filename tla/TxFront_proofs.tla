--------------------------- MODULE TxFront_proofs ----------------------------
(***************************************************************************)
(* Proofs about TxFront, for any packets, any gaps in the stream of the    *)
(* host, any number of clocks that a FIFO pointer takes to the other side, *)
(* and any answers of the comparator and the buffers: the FIFOs are out of *)
(* reset when they are written (NoWriteWhileClearing), a header is taken   *)
(* while its packet is in sight (HeaderMeetsItsPacket), and the whole is   *)
(* the packet FIFO of Packets2Data (RefinesPctFifo).                       *)
(***************************************************************************)
EXTENDS TxFront, FiniteSetTheorems, SequenceTheorems, TLAPS

-----------------------------------------------------------------------------
(* The invariant.                                                          *)

\* The packet that pct_separate_fsm cuts out, or cut out last, is the one of the word
\* it read last.
Pct == infifo_data[1]

\* A packet that the host sent.
HostPacket(p) == p.id \in 1 .. MAX_PKTS /\ \E q \in PACKETS : p = WithId(q, p.id)

\* Words a .. b - 1 of packet p.
Words(p, a, b) == [i \in 1 .. b - a |-> <<p, a + i - 1>>]

Pipes == [Stages -> BOOLEAN]

\* Words the read side sees.
Seen == Len(inst1) - InFlight(inst1_arriving)

\* The host sends its packets in order, each word by word.
HostInv ==
    /\ infifo = <<infifo[1], infifo[2]>> /\ infifo[2] \in Nat /\ Pct.id \in Nat
    /\ infifo[1] = NoPacket => infifo[2] = 0 /\ infifo_rdempty
    /\ infifo[1] # NoPacket => HostPacket(infifo[1])
    /\ infifo[2] = 0 =>
          /\ infifo[1] # NoPacket => infifo[1].id = Pct.id + 1
          /\ sep_state = "rd_pct" => sep_rd_cnt = 0
    /\ infifo[2] # 0 => sep_state = "rd_pct" /\ infifo = <<Pct, sep_rd_cnt>>

\* The counters of pct_separate_fsm in a packet.
CutInv ==
    /\ sep_state \in {"idle", "rd_pct", "rd_done"}
    /\ sep_rd_cnt \in Nat /\ sep_wr_cnt \in Nat
    /\ sep_state = "idle" => ~infifo_data_valid
    /\ sep_state # "idle" => sep_rd_cnt = sep_wr_cnt + (IF infifo_data_valid THEN 1 ELSE 0)
    /\ sep_state # "idle" /\ sep_rd_cnt > 0 =>
          /\ HostPacket(Pct) /\ infifo_data = <<Pct, sep_rd_cnt - 1>>
          /\ sep_rd_cnt_max = (IF sep_wr_cnt = 0 THEN ALL_ONES ELSE PctWords(Pct))
    /\ sep_state = "rd_pct" /\ sep_rd_cnt = 0 => sep_rd_cnt_max = ALL_ONES
    /\ sep_state = "rd_pct" /\ sep_rd_cnt > 0 => sep_rd_cnt < PctWords(Pct)
    /\ sep_state = "rd_done" => sep_rd_cnt > 0 /\ sep_rd_cnt = PctWords(Pct)

\* p2d_wr_fsm is between two packets.
Resting ==
    \/ wr_state \in {"idle", "check_next_buf", "switch_current_buff"}
    \/ wr_state = "wait_wr_end" /\ ~in_pct_rdreq

\* It has the header and has not asked for a word behind it.
HdrTaken == \/ wr_state \in {"check_smpl_nr", "clr_fifo", "switch_next_buff"}
            \/ wr_state = "wait_cmpr_pipe" /\ pipe_cnt >= 2

\* What the write FSM asked for and got.
TakeInv ==
    /\ wr_state \in WrStates /\ wr_rd_cnt \in Nat /\ pipe_cnt \in Nat /\ pct_data_wrreq_cnt \in Nat
    /\ wr_state \notin {"wait_cmpr_pipe", "check_smpl_nr"} => pipe_cnt = 0
    /\ Resting => ~in_pct_rdreq /\ (wr_state # "wait_wr_end" => ~in_pct_data_valid)
    /\ wr_state = "rd_hdr" =>
          ~in_pct_rdreq /\ ~in_pct_data_valid /\ pct_data_wrreq_cnt = 0 /\ wr_rd_cnt = 0
    /\ wr_state = "wait_cmpr_pipe" /\ pipe_cnt = 0 =>
          in_pct_rdreq /\ ~in_pct_data_valid /\ pct_data_wrreq_cnt = 0 /\ wr_rd_cnt = 1
    /\ wr_state = "wait_cmpr_pipe" /\ pipe_cnt = 1 =>
          /\ ~in_pct_rdreq /\ in_pct_data_valid /\ pct_data_wrreq_cnt = 0 /\ wr_rd_cnt = 1
          /\ inst1_q[1] = Pct
    /\ HdrTaken =>
          /\ ~in_pct_rdreq /\ ~in_pct_data_valid /\ pct_data_wrreq_cnt > 0 /\ wr_rd_cnt = 1
          /\ wr_rd_cnt_max = PctWords(Pct)
    /\ wr_state = "rd_pct" =>
          /\ pct_data_wrreq_cnt > 0 /\ wr_rd_cnt_max = PctWords(Pct)
          /\ wr_rd_cnt > 0 /\ wr_rd_cnt < wr_rd_cnt_max
          /\ in_pct_rdreq <=> wr_rd_cnt > 1
    /\ wr_state = "wait_wr_end" /\ in_pct_rdreq =>
          /\ pct_data_wrreq_cnt > 0 /\ wr_rd_cnt_max = PctWords(Pct)
          /\ wr_rd_cnt = wr_rd_cnt_max /\ in_pct_data_valid
    /\ ~in_pct_reset_n_req => wr_state = "idle"

\* No header is on its way or waits.
NoHeader ==
    /\ ~pct_header_valid_wr /\ inst2 = <<>> /\ inst2_arriving = Nothing
    /\ ~pct_header_valid /\ pct_words = ALL_ONES

OutOfReset == in_pct_reset_n_req /\ inst1_reset_sync = <<TRUE, TRUE>>

\* Nothing is held; a reset may still be on its way through the synchroniser.
Empty ==
    /\ Resting /\ inst1 = <<>> /\ NoHeader /\ ~pct_rdy /\ ~infifo_data_valid
    /\ inst1_arriving = Nothing
    /\ sep_state = "rd_pct" => sep_rd_cnt = 0
    /\ in_pct_reset_n_req
    /\ \/ inst1_reset_sync = <<TRUE, TRUE>>
       \/ inst1_reset_sync = <<FALSE, FALSE>> /\ sep_state = "idle"
       \/ inst1_reset_sync = <<TRUE, FALSE>> /\ sep_state \in {"idle", "rd_pct"}
    /\ offered = Pct.id

\* The header of the packet on its way: written, under way, read, or in pct_words.
\* The first word of the packet is always one stage ahead of it.
HeaderInv ==
    \/ NoHeader /\ sep_wr_cnt = 0
    \/ /\ sep_wr_cnt > 0 /\ pct_header_valid_wr /\ pct_header = Pct /\ inst1_arriving[1]
       /\ inst2 = <<>> /\ inst2_arriving = Nothing /\ ~pct_header_valid /\ pct_words = ALL_ONES
    \/ /\ sep_wr_cnt > 0 /\ inst2 = <<Pct>> /\ ~pct_header_valid_wr /\ ~pct_header_valid /\ pct_words = ALL_ONES
       /\ inst2_arriving = Nothing => Seen > 0
       /\ \A j \in Stages : inst2_arriving[j] =>
             IF j = SYNC_STAGES THEN Seen > 0 ELSE inst1_arriving[j + 1]
    \/ /\ sep_wr_cnt > 0 /\ inst2 = <<>> /\ inst2_arriving = Nothing /\ ~pct_header_valid_wr /\ Seen > 0
       /\ \/ pct_header_valid /\ inst2_q = Pct /\ pct_words = ALL_ONES
          \/ ~pct_header_valid /\ pct_words = PctWords(Pct)

\* A packet is being cut out, or waits for its first word to be read.
Filling ==
    /\ OutOfReset
    /\ sep_state \in {"rd_pct", "rd_done"} /\ sep_rd_cnt > 0
    /\ inst1 = Words(Pct, 0, sep_wr_cnt) /\ Seen >= 0
    /\ HeaderInv
    /\ Resting \/ (Offering /\ offered = Pct.id
                   /\ (wr_state = "rd_hdr" \/ (wr_state = "wait_cmpr_pipe" /\ pipe_cnt = 0)))
    /\ pct_rdy => Offering /\ offered = Pct.id
    /\ offered = Pct.id \/ offered = Pct.id - 1
    /\ ~Offering => offered = Pct.id - 1

\* Words taken from the FIFO.
Taken == wr_rd_cnt - (IF in_pct_rdreq THEN 1 ELSE 0)

\* The packet is being read.
Draining ==
    /\ ~Resting /\ wr_state # "rd_hdr" /\ ~(wr_state = "wait_cmpr_pipe" /\ pipe_cnt = 0)
    /\ OutOfReset
    /\ sep_state = "rd_done" /\ ~infifo_data_valid
    /\ inst1 = Words(Pct, Taken, PctWords(Pct)) /\ inst1_arriving = Nothing
    /\ NoHeader
    /\ pct_rdy => wr_state = "wait_cmpr_pipe" /\ pipe_cnt = 1
    /\ offered = Pct.id

\* The packet is being cleared.
Dropping ==
    /\ ~in_pct_reset_n_req /\ inst1_reset_sync = <<TRUE, TRUE>>
    /\ wr_state = "idle" /\ sep_state = "rd_done" /\ ~infifo_data_valid
    /\ inst1 = Words(Pct, 1, PctWords(Pct)) /\ NoHeader /\ ~pct_rdy
    /\ offered = Pct.id

\* What enters the pointer pipelines is true or false.
PipesInv ==
    /\ inst1_arriving \in Pipes /\ inst2_arriving \in Pipes
    /\ infifo_data_valid \in BOOLEAN /\ pct_header_valid_wr \in BOOLEAN

\* One packet at a time: none, being cut out, being taken, or being cleared.
FrontInv ==
    /\ HostInv /\ CutInv /\ TakeInv /\ PipesInv
    /\ Empty \/ Filling \/ Draining \/ Dropping

-----------------------------------------------------------------------------
(* Pointers under way, and the words of a packet.                          *)

LEMMA InFlightType ==
    ASSUME NEW pipe
    PROVE  /\ IsFiniteSet({k \in Stages : pipe[k]}) /\ InFlight(pipe) \in Nat
           /\ InFlight(pipe) = 0 <=> \A k \in Stages : ~pipe[k]
<1>1. IsFiniteSet(Stages)
  BY FS_Interval, SyncStagesAssumption DEF Stages
<1>2. IsFiniteSet({k \in Stages : pipe[k]})
  BY <1>1, FS_Subset
<1>3. InFlight(pipe) \in Nat
  BY <1>2, FS_CardinalityType DEF InFlight
<1>4. InFlight(pipe) = 0 <=> {k \in Stages : pipe[k]} = {}
  BY <1>2, FS_EmptySet DEF InFlight
<1>5. {k \in Stages : pipe[k]} = {} <=> \A k \in Stages : ~pipe[k]
  OBVIOUS
<1>. QED  BY <1>2, <1>3, <1>4, <1>5

LEMMA NothingInFlight ==
    /\ Nothing \in Pipes /\ InFlight(Nothing) = 0 /\ Shift(Nothing, FALSE) = Nothing
    /\ \A pipe \in Pipes : InFlight(pipe) = 0 <=> pipe = Nothing
<1>1. Nothing \in Pipes /\ Shift(Nothing, FALSE) = Nothing
  <2>1. \A k \in Stages : k # 1 => k - 1 \in Stages
    BY SyncStagesAssumption DEF Stages
  <2>2. \A k \in Stages : (IF k = 1 THEN FALSE ELSE Nothing[k - 1]) = FALSE
    BY <2>1 DEF Nothing
  <2>. QED  BY <2>2 DEF Nothing, Pipes, Shift
<1>2. InFlight(Nothing) = 0
  <2>1. \A k \in Stages : ~Nothing[k]
    BY DEF Nothing
  <2>. QED  BY <2>1, InFlightType
<1>3. ASSUME NEW pipe \in Pipes
      PROVE  InFlight(pipe) = 0 <=> pipe = Nothing
  <2>1. ASSUME \A k \in Stages : ~pipe[k]  PROVE pipe = Nothing
    BY <2>1 DEF Pipes, Nothing
  <2>. QED  BY <1>2, <2>1, InFlightType
<1>. QED  BY <1>1, <1>2, <1>3

\* A clock takes the oldest step out of the pipeline and the new one in.
LEMMA ShiftCounts ==
    ASSUME NEW pipe \in Pipes, NEW step \in BOOLEAN
    PROVE  /\ Shift(pipe, step) \in Pipes
           /\ InFlight(Shift(pipe, step)) =
                 InFlight(pipe) + (IF step THEN 1 ELSE 0) - (IF pipe[SYNC_STAGES] THEN 1 ELSE 0)
           /\ Shift(pipe, step)[1] = step
           /\ \A k \in Stages : k + 1 \in Stages => Shift(pipe, step)[k + 1] = pipe[k]
<1>. DEFINE new == Shift(pipe, step)
            old == {k \in Stages : pipe[k]}
            kept == old \ {SYNC_STAGES}
            moved == {k \in Stages : new[k]} \ {1}
<1>0. SYNC_STAGES \in Nat /\ SYNC_STAGES >= 1 /\ Stages = 1 .. SYNC_STAGES
  BY SyncStagesAssumption DEF Stages
<1>1. /\ new \in Pipes /\ new[1] = step
      /\ \A k \in Stages : k # 1 => k - 1 \in Stages /\ new[k] = pipe[k - 1]
      /\ \A k \in Stages : k + 1 \in Stages => new[k + 1] = pipe[k]
  BY <1>0 DEF Shift, Pipes
<1>. HIDE DEF new
<1>2. IsFiniteSet(old) /\ IsFiniteSet({k \in Stages : new[k]})
  BY InFlightType
<1>3. IsFiniteSet(kept) /\ Cardinality(kept) = InFlight(pipe) - (IF pipe[SYNC_STAGES] THEN 1 ELSE 0)
  <2>1. Cardinality(old) = InFlight(pipe) /\ InFlight(pipe) \in Nat
    BY InFlightType DEF InFlight
  <2>2. SYNC_STAGES \in old <=> pipe[SYNC_STAGES]
    BY <1>0
  <2>. QED  BY <1>2, <2>1, <2>2, FS_RemoveElement
<1>4. Cardinality(moved) = InFlight(new) - (IF step THEN 1 ELSE 0)
  <2>1. Cardinality({k \in Stages : new[k]}) = InFlight(new) /\ InFlight(new) \in Nat
    BY InFlightType DEF InFlight
  <2>2. 1 \in {k \in Stages : new[k]} <=> step
    BY <1>0, <1>1
  <2>3. Cardinality(moved) = IF 1 \in {k \in Stages : new[k]} THEN InFlight(new) - 1 ELSE InFlight(new)
    BY <1>2, <2>1, FS_RemoveElement
  <2>. QED  BY <2>1, <2>2, <2>3
<1>5. Cardinality(moved) = Cardinality(kept)
  <2>. DEFINE f == [k \in kept |-> k + 1]
  <2>1. \A k \in kept : k + 1 \in moved
    BY <1>0, <1>1
  <2>2. \A k \in moved : k - 1 \in kept /\ k - 1 + 1 = k
    BY <1>0, <1>1
  <2>3. f \in [kept -> moved]
    BY <2>1
  <2>4. \A k, l \in kept : f[k] = f[l] => k = l
    BY <1>0
  <2>5. \A k \in moved : \E l \in kept : f[l] = k
    <3>. TAKE k \in moved
    <3>1. k - 1 \in kept /\ f[k - 1] = k
      BY <1>0, <2>2
    <3>. QED  BY <3>1
  <2>6. f \in Bijection(kept, moved)
    BY <2>3, <2>4, <2>5 DEF Bijection, Injection, Surjection, IsInjective
  <2>. QED  BY <1>3, <2>6, FS_Bijection DEF ExistsBijection
<1>6. InFlight(new) \in Nat /\ InFlight(pipe) \in Nat
  BY InFlightType
<1>. QED  BY <1>1, <1>3, <1>4, <1>5, <1>6 DEF new

LEMMA WordsSeq ==
    ASSUME NEW p, NEW a \in Nat, NEW b \in Nat, a <= b
    PROVE  /\ Words(p, a, b) \in Seq({p} \X Nat) /\ Len(Words(p, a, b)) = b - a
           /\ Words(p, a, b) = <<>> <=> a = b
           /\ a < b => Head(Words(p, a, b)) = <<p, a>> /\ Tail(Words(p, a, b)) = Words(p, a + 1, b)
           /\ Words(p, a, b) \o <<>> = Words(p, a, b)
           /\ Words(p, a, b) \o <<<<p, b>>>> = Words(p, a, b + 1)
<1>1. Words(p, a, b) \in Seq({p} \X Nat) /\ Len(Words(p, a, b)) = b - a
  BY DEF Words
<1>2. Words(p, a, b) = <<>> <=> a = b
  BY <1>1
<1>3. ASSUME a < b
      PROVE  Head(Words(p, a, b)) = <<p, a>> /\ Tail(Words(p, a, b)) = Words(p, a + 1, b)
  <2>1. Words(p, a, b) # <<>>
    BY <1>2, <1>3
  <2>2. Head(Words(p, a, b)) = <<p, a>>
    BY <1>1, <1>3, <2>1 DEF Words
  <2>3. /\ Tail(Words(p, a, b)) \in Seq({p} \X Nat) /\ Len(Tail(Words(p, a, b))) = b - a - 1
        /\ \A i \in 1 .. b - a - 1 : Tail(Words(p, a, b))[i] = Words(p, a, b)[i + 1]
    BY <1>1, <1>3, <2>1, HeadTailProperties
  <2>4. Words(p, a + 1, b) \in Seq({p} \X Nat) /\ Len(Words(p, a + 1, b)) = b - a - 1
    BY <1>3 DEF Words
  <2>5. \A i \in 1 .. b - a - 1 : Tail(Words(p, a, b))[i] = Words(p, a + 1, b)[i]
    <3>. TAKE i \in 1 .. b - a - 1
    <3>1. Words(p, a, b)[i + 1] = <<p, a + (i + 1) - 1>>
      BY DEF Words
    <3>2. Words(p, a + 1, b)[i] = <<p, a + 1 + i - 1>>
      BY DEF Words
    <3>3. a + (i + 1) - 1 = a + 1 + i - 1 /\ i + 1 \in 1 .. b - a /\ i \in 1 .. b - (a + 1)
      OBVIOUS
    <3>. QED  BY <2>3, <3>1, <3>2, <3>3
  <2>6. Tail(Words(p, a, b)) = Words(p, a + 1, b)
    BY <1>3, <2>3, <2>4, <2>5, SeqEqual
  <2>. QED  BY <2>2, <2>6
<1>4. Words(p, a, b) \o <<>> = Words(p, a, b)
  BY <1>1, ConcatEmptySeq
<1>5. Words(p, a, b) \o <<<<p, b>>>> = Words(p, a, b + 1)
  <2>1. <<<<p, b>>>> \in Seq({p} \X Nat) /\ Len(<<<<p, b>>>>) = 1
    OBVIOUS
  <2>2. /\ Words(p, a, b) \o <<<<p, b>>>> \in Seq({p} \X Nat)
        /\ Len(Words(p, a, b) \o <<<<p, b>>>>) = b - a + 1
        /\ \A i \in 1 .. b - a + 1 : (Words(p, a, b) \o <<<<p, b>>>>)[i] =
                IF i <= b - a THEN Words(p, a, b)[i] ELSE <<<<p, b>>>>[i - (b - a)]
    BY <1>1, <2>1, ConcatProperties
  <2>3. Words(p, a, b + 1) \in Seq({p} \X Nat) /\ Len(Words(p, a, b + 1)) = b - a + 1
    BY DEF Words
  <2>4. \A i \in 1 .. b - a + 1 : (Words(p, a, b) \o <<<<p, b>>>>)[i] = Words(p, a, b + 1)[i]
    <3>. TAKE i \in 1 .. b - a + 1
    <3>1. Words(p, a, b + 1)[i] = <<p, a + i - 1>>
      BY DEF Words
    <3>2. CASE i <= b - a
      <4>1. Words(p, a, b)[i] = <<p, a + i - 1>>
        BY <3>2 DEF Words
      <4>. QED  BY <2>2, <3>1, <3>2, <4>1
    <3>3. CASE i > b - a
      <4>1. i = b - a + 1
        BY <3>3
      <4>2. (Words(p, a, b) \o <<<<p, b>>>>)[i] = <<<<p, b>>>>[1]
        BY <2>2, <3>3, <4>1
      <4>3. <<p, a + i - 1>> = <<p, b>>
        BY <4>1
      <4>. QED  BY <3>1, <4>2, <4>3
    <3>4. i <= b - a \/ i > b - a
      OBVIOUS
    <3>. QED  BY <3>2, <3>3, <3>4
  <2>. QED  BY <2>2, <2>3, <2>4, SeqEqual
<1>. QED  BY <1>1, <1>2, <1>3, <1>4, <1>5

LEMMA WordsFromFirst ==
    ASSUME NEW p, NEW b \in Nat
    PROVE  /\ Len(Words(p, 0, b)) = b /\ (Words(p, 0, b) = <<>> <=> b = 0)
           /\ b > 0 => Head(Words(p, 0, b)) = <<p, 0>> /\ Tail(Words(p, 0, b)) = Words(p, 1, b)
           /\ Words(p, 0, b) \o <<>> = Words(p, 0, b)
           /\ Words(p, 0, b) \o <<<<p, b>>>> = Words(p, 0, b + 1)
<1>1. 0 \in Nat /\ 0 <= b /\ b - 0 = b /\ 0 + 1 = 1 /\ (0 = b <=> b = 0) /\ (0 < b <=> b > 0)
  OBVIOUS
<1>2. /\ Len(Words(p, 0, b)) = b - 0
      /\ Words(p, 0, b) = <<>> <=> 0 = b
      /\ 0 < b => Head(Words(p, 0, b)) = <<p, 0>> /\ Tail(Words(p, 0, b)) = Words(p, 0 + 1, b)
      /\ Words(p, 0, b) \o <<>> = Words(p, 0, b)
      /\ Words(p, 0, b) \o <<<<p, b>>>> = Words(p, 0, b + 1)
  BY ONLY <1>1, WordsSeq
<1>. QED  BY <1>1, <1>2

\* A packet of the host has three words or more, and their number fits the counters.
LEMMA HostPacketWords ==
    ASSUME NEW p, HostPacket(p)
    PROVE  /\ PctWords(p) \in Nat /\ PctWords(p) >= 3 /\ PctWords(p) < ALL_ONES
           /\ p.id \in Nat /\ p.id > 0 /\ p.id <= MAX_PKTS /\ p # NoPacket
<1>1. PICK q \in PACKETS : p = WithId(q, p.id)
  BY DEF HostPacket
<1>2. p.size = q.size /\ q.size \in 0 .. MAX_PAYLOAD /\ q.size % 2 = 0 /\ (q.size = 0 \/ q.size >= 4)
  BY <1>1, FrontPacketsAssumption DEF WithId
<1>3. /\ PayloadWords(p.size) \in Nat /\ PayloadWords(p.size) % 2 = 0 /\ PayloadWords(p.size) >= 4
      /\ PayloadWords(p.size) < 65536
  BY <1>2, MaxPayloadAssumption DEF PayloadWords
<1>4. PctWords(p) \in Nat /\ PctWords(p) >= 3 /\ PctWords(p) < ALL_ONES
  BY <1>3 DEF PctWords, ALL_ONES
<1>5. p.id \in Nat /\ p.id > 0 /\ p.id <= MAX_PKTS
  BY FrontPacketsAssumption DEF HostPacket
<1>. QED  BY <1>4, <1>5 DEF NoPacket

-----------------------------------------------------------------------------
(* One clock, register by register.                                        *)

LEMMA WrFields ==
    ASSUME NEW sample_nr, Clock(sample_nr)
    PROVE  /\ WrFsm(pct_rdy, FALSE)
           /\ in_pct_rdreq' <=> wr_state \in {"rd_pct", "rd_hdr"}
           /\ in_pct_reset_n_req' <=> wr_state # "clr_fifo"
           /\ in_pct_data_valid' <=> in_pct_rdreq
           /\ pct_data_wrreq_cnt' = IF in_pct_data_valid THEN pct_data_wrreq_cnt + 1
                                    ELSE IF wr_state = "idle" THEN 0
                                    ELSE pct_data_wrreq_cnt
           /\ pipe_cnt' = IF wr_state = "wait_cmpr_pipe" THEN pipe_cnt + 1 ELSE 0
           /\ wr_rd_cnt' = IF wr_state \in {"rd_pct", "rd_hdr"} THEN wr_rd_cnt + 1
                           ELSE IF wr_state = "idle" THEN 0 ELSE wr_rd_cnt
           /\ wr_rd_cnt_max' = IF in_pct_data_valid /\ pct_data_wrreq_cnt = 0
                               THEN PctWords(inst1_q[1]) ELSE wr_rd_cnt_max
<1>1. WrClock(pct_rdy, inst1_q, sample_nr, FALSE, wrempty)
  BY DEF Clock
<1>2. WrFsm(pct_rdy, FALSE)
  BY <1>1 DEF WrClock
<1>3. /\ in_pct_rdreq' = (wr_state \in {"rd_pct", "rd_hdr"})
      /\ in_pct_reset_n_req' = (wr_state # "clr_fifo")
      /\ in_pct_data_valid' = in_pct_rdreq
      /\ pct_data_wrreq_cnt' = IF in_pct_data_valid THEN pct_data_wrreq_cnt + 1
                               ELSE IF wr_state = "idle" THEN 0 ELSE pct_data_wrreq_cnt
  BY <1>1 DEF WrClock, WrRequests
<1>4. pipe_cnt' = IF wr_state = "wait_cmpr_pipe" THEN pipe_cnt + 1 ELSE 0
  BY <1>1 DEF WrClock, WrCounters
<1>5. wr_rd_cnt' = IF wr_state \in {"rd_pct", "rd_hdr"} THEN wr_rd_cnt + 1
                   ELSE IF wr_state = "idle" THEN 0 ELSE wr_rd_cnt
  BY <1>1 DEF WrClock, WrCounters
<1>6. wr_rd_cnt_max' = IF in_pct_data_valid /\ pct_data_wrreq_cnt = 0
                       THEN PctWords(inst1_q[1]) ELSE wr_rd_cnt_max
  BY <1>1 DEF WrClock, WrOutReg, HeaderArrives
<1>. QED  BY <1>2, <1>3, <1>4, <1>5, <1>6

LEMMA SepFields ==
    ASSUME NEW sample_nr, Clock(sample_nr)
    PROVE  /\ \/ SepIdle(inst1_wrempty(in_pct_reset_n_req))
              \/ SepRdPct
              \/ SepRdDone(inst1_wrempty(in_pct_reset_n_req))
           /\ infifo_data_valid' <=> infifo_rdreq
           /\ sep_rd_cnt' = IF sep_state = "idle" THEN 0
                            ELSE IF infifo_rdreq THEN sep_rd_cnt + 1 ELSE sep_rd_cnt
           /\ sep_wr_cnt' = IF sep_state = "idle" THEN 0
                            ELSE IF infifo_data_valid THEN sep_wr_cnt + 1 ELSE sep_wr_cnt
           /\ sep_rd_cnt_max' = IF sep_state = "idle" THEN ALL_ONES
                                ELSE IF sep_wr_cnt = 0 /\ infifo_data_valid THEN PctWords(Pct)
                                ELSE sep_rd_cnt_max
           /\ pct_header' = IF sep_wr_cnt = 0 /\ infifo_data_valid THEN Pct ELSE pct_header
           /\ pct_header_valid_wr' <=> sep_wr_cnt = 0 /\ infifo_data_valid
           /\ infifo_data_valid' \in BOOLEAN /\ pct_header_valid_wr' \in BOOLEAN
<1>1. SepClock(infifo_data, inst1_wrempty(in_pct_reset_n_req))
  BY DEF Clock, OnePctClock
<1>2. \/ SepIdle(inst1_wrempty(in_pct_reset_n_req)) \/ SepRdPct
      \/ SepRdDone(inst1_wrempty(in_pct_reset_n_req))
  BY <1>1 DEF SepClock
<1>3. /\ infifo_data_valid' = infifo_rdreq
      /\ pct_header_valid_wr' = (sep_wr_cnt = 0 /\ infifo_data_valid)
  BY <1>1 DEF SepClock, SepCounters, HeaderWord
<1>4. /\ sep_rd_cnt' = IF sep_state = "idle" THEN 0
                       ELSE IF infifo_rdreq THEN sep_rd_cnt + 1 ELSE sep_rd_cnt
      /\ sep_wr_cnt' = IF sep_state = "idle" THEN 0
                       ELSE IF infifo_data_valid THEN sep_wr_cnt + 1 ELSE sep_wr_cnt
  BY <1>1 DEF SepClock, SepCounters
<1>5. /\ sep_rd_cnt_max' = IF sep_state = "idle" THEN ALL_ONES
                           ELSE IF sep_wr_cnt = 0 /\ infifo_data_valid THEN PctWords(Pct)
                           ELSE sep_rd_cnt_max
      /\ pct_header' = IF sep_wr_cnt = 0 /\ infifo_data_valid THEN Pct ELSE pct_header
  BY <1>1 DEF SepClock, SepCounters, HeaderWord, Pct
<1>. QED  BY <1>2, <1>3, <1>4, <1>5 DEF infifo_rdreq

\* The FIFOs and the read side, out of reset.
LEMMA RunFields ==
    ASSUME NEW sample_nr, Clock(sample_nr), in_pct_reset_n_req, inst1_reset_sync[2]
    PROVE  LET pop == in_pct_rdreq /\ Seen > 0
               hdr_pop == Len(inst2) > InFlight(inst2_arriving)
           IN /\ inst1_q' = IF pop THEN Head(inst1) ELSE inst1_q
              /\ inst2_q' = IF hdr_pop THEN Head(inst2) ELSE inst2_q
              /\ inst1' = (IF pop THEN Tail(inst1) ELSE inst1)
                          \o (IF infifo_data_valid THEN <<infifo_data>> ELSE <<>>)
              /\ inst2' = (IF hdr_pop THEN Tail(inst2) ELSE inst2)
                          \o (IF pct_header_valid_wr THEN <<pct_header>> ELSE <<>>)
              /\ inst1_arriving' = Shift(inst1_arriving, infifo_data_valid)
              /\ inst2_arriving' = Shift(inst2_arriving, pct_header_valid_wr)
              /\ pct_header_valid' <=> hdr_pop
              /\ pct_words' = IF in_pct_rdreq \/ Seen = 0 THEN ALL_ONES
                              ELSE IF pct_header_valid THEN PctWords(inst2_q) ELSE pct_words
              /\ pct_rdy' <=> Seen = pct_words
              /\ inst1_reset_sync' = <<TRUE, inst1_reset_sync[1]>>
              /\ inst1_wrempty(in_pct_reset_n_req) => inst1 = <<>>
              /\ offered' = IF pct_words # ALL_ONES /\ Seen = pct_words THEN Head(inst1)[1].id ELSE offered
<1>1. ~Clearing(in_pct_reset_n_req)
  BY DEF Clearing
<1>2. inst1_rdusedw(in_pct_reset_n_req) = Seen
  BY <1>1 DEF inst1_rdusedw, Seen
<1>3. inst2_rdreq(in_pct_reset_n_req) <=> Len(inst2) > InFlight(inst2_arriving)
  BY <1>1 DEF inst2_rdreq
<1>4. inst1_pop(in_pct_rdreq, in_pct_reset_n_req) <=> in_pct_rdreq /\ Seen > 0
  BY <1>2 DEF inst1_pop
<1>5. FifoClock(infifo_data, in_pct_rdreq, in_pct_reset_n_req)
  BY DEF Clock, OnePctClock
<1>6. ReadClock(in_pct_rdreq, in_pct_reset_n_req) /\ ResetClock(in_pct_reset_n_req)
  BY DEF Clock, OnePctClock
<1>. DEFINE pop == in_pct_rdreq /\ Seen > 0
            hdr_pop == Len(inst2) > InFlight(inst2_arriving)
<1>7. /\ inst1_q' = IF pop THEN Head(inst1) ELSE inst1_q
      /\ inst2_q' = IF hdr_pop THEN Head(inst2) ELSE inst2_q
      /\ inst1' = (IF pop THEN Tail(inst1) ELSE inst1)
                  \o (IF infifo_data_valid THEN <<infifo_data>> ELSE <<>>)
      /\ inst2' = (IF hdr_pop THEN Tail(inst2) ELSE inst2)
                  \o (IF pct_header_valid_wr THEN <<pct_header>> ELSE <<>>)
      /\ inst1_arriving' = Shift(inst1_arriving, infifo_data_valid)
      /\ inst2_arriving' = Shift(inst2_arriving, pct_header_valid_wr)
  BY <1>1, <1>3, <1>4, <1>5 DEF FifoClock
<1>8. pct_words' = IF in_pct_rdreq \/ Seen = 0 THEN ALL_ONES
                   ELSE IF pct_header_valid THEN PctWords(inst2_q) ELSE pct_words
  BY <1>2, <1>6 DEF ReadClock, PctWordsClock
<1>9. /\ pct_header_valid' = inst2_rdreq(in_pct_reset_n_req)
      /\ pct_rdy' = (inst1_rdusedw(in_pct_reset_n_req) = pct_words)
      /\ inst1_reset_sync' = <<TRUE, inst1_reset_sync[1]>>
  BY <1>6 DEF ReadClock, ResetClock
<1>10. inst1_wrempty(in_pct_reset_n_req) => inst1 = <<>>
  BY <1>1 DEF inst1_wrempty
<1>11. offered' = IF pct_words # ALL_ONES /\ Seen = pct_words THEN Head(inst1)[1].id ELSE offered
  BY <1>2 DEF Clock, Offering
<1>. QED  BY <1>2, <1>3, <1>7, <1>8, <1>9, <1>10, <1>11

\* In reset.
LEMMA ClearFields ==
    ASSUME NEW sample_nr, Clock(sample_nr), ~in_pct_reset_n_req \/ ~inst1_reset_sync[2]
    PROVE  /\ inst1_q' = inst1_q /\ inst1' = <<>> /\ inst2' = <<>>
           /\ inst1_arriving' = Nothing /\ inst2_arriving' = Nothing
           /\ ~pct_header_valid' /\ pct_words' = ALL_ONES
           /\ pct_rdy' <=> pct_words = 0
           /\ inst1_reset_sync' = IF in_pct_reset_n_req THEN <<TRUE, inst1_reset_sync[1]>>
                                  ELSE <<FALSE, FALSE>>
           /\ inst1_wrempty(in_pct_reset_n_req)
           /\ pct_words # 0 => offered' = offered
<1>1. Clearing(in_pct_reset_n_req)
  BY DEF Clearing
<1>2. inst1_rdusedw(in_pct_reset_n_req) = 0
  BY <1>1 DEF inst1_rdusedw
<1>3. ~inst2_rdreq(in_pct_reset_n_req) /\ ~inst1_pop(in_pct_rdreq, in_pct_reset_n_req)
  BY <1>1, <1>2 DEF inst2_rdreq, inst1_pop
<1>4. FifoClock(infifo_data, in_pct_rdreq, in_pct_reset_n_req)
  BY DEF Clock, OnePctClock
<1>5. ReadClock(in_pct_rdreq, in_pct_reset_n_req) /\ ResetClock(in_pct_reset_n_req)
  BY DEF Clock, OnePctClock
<1>6. /\ inst1_q' = inst1_q /\ inst1' = <<>> /\ inst2' = <<>>
      /\ inst1_arriving' = Nothing /\ inst2_arriving' = Nothing
  BY <1>1, <1>3, <1>4 DEF FifoClock
<1>7. /\ pct_header_valid' = inst2_rdreq(in_pct_reset_n_req)
      /\ pct_rdy' = (inst1_rdusedw(in_pct_reset_n_req) = pct_words)
      /\ inst1_reset_sync' = IF in_pct_reset_n_req THEN <<TRUE, inst1_reset_sync[1]>>
                             ELSE <<FALSE, FALSE>>
  BY <1>5 DEF ReadClock, ResetClock
<1>8. pct_words' = ALL_ONES
  BY <1>2, <1>5 DEF ReadClock, PctWordsClock
<1>9. inst1_wrempty(in_pct_reset_n_req)
  BY <1>1 DEF inst1_wrempty
<1>10. pct_words # 0 => offered' = offered
  BY <1>2 DEF Clock, Offering
<1>. QED  BY <1>2, <1>3, <1>6, <1>7, <1>8, <1>9, <1>10

LEMMA HostFields ==
    ASSUME NEW sample_nr, Clock(sample_nr)
    PROVE  /\ infifo_rdreq =>
                 /\ infifo_data' = infifo
                 /\ infifo' \in IF infifo[2] + 1 < PctWords(infifo[1])
                                THEN {<<infifo[1], infifo[2] + 1>>} ELSE FirstWords(infifo[1].id + 1)
           /\ ~infifo_rdreq => infifo_data' = infifo_data /\ infifo' = infifo
           /\ infifo'[1] = NoPacket => infifo_rdempty'
<1>1. HostClock
  BY DEF Clock
<1>2. infifo_rdreq =>
         /\ infifo_data' = infifo
         /\ infifo' \in IF infifo[2] + 1 < PctWords(infifo[1])
                        THEN {<<infifo[1], infifo[2] + 1>>} ELSE FirstWords(infifo[1].id + 1)
  BY <1>1 DEF HostClock
<1>3. ~infifo_rdreq => infifo_data' = infifo_data /\ infifo' = infifo
  BY <1>1 DEF HostClock
<1>4. infifo'[1] = NoPacket => infifo_rdempty' = TRUE
  BY <1>1 DEF HostClock
<1>. QED  BY <1>2, <1>3, <1>4

-----------------------------------------------------------------------------
(* The host and pct_separate_fsm.                                          *)

\* The next packet of the host, if there is one.
LEMMA NextPacket ==
    ASSUME NEW id \in Nat, NEW w \in FirstWords(id + 1)
    PROVE  /\ w = <<w[1], w[2]>> /\ w[2] = 0
           /\ w[1] # NoPacket => HostPacket(w[1]) /\ w[1].id = id + 1
<1>1. CASE id + 1 > MAX_PKTS
  <2>1. w = <<NoPacket, 0>>
    BY <1>1 DEF FirstWords
  <2>. QED  BY <2>1
<1>2. CASE ~(id + 1 > MAX_PKTS)
  <2>1. PICK q \in PACKETS : w = <<WithId(q, id + 1), 0>>
    BY <1>2 DEF FirstWords
  <2>2. w[1] = WithId(q, id + 1) /\ w[2] = 0 /\ w[1].id = id + 1
    BY <2>1 DEF WithId
  <2>3. w[1].id \in 1 .. MAX_PKTS
    BY <1>2, <2>2, FrontPacketsAssumption
  <2>4. HostPacket(w[1])
    BY <2>2, <2>3 DEF HostPacket
  <2>. QED  BY <2>1, <2>2, <2>4
<1>. QED  BY <1>1, <1>2

\* The last word is known to be the last when it is read: the size is known by then.
LEMMA LastWord ==
    ASSUME NEW sample_nr, Clock(sample_nr), HostInv, CutInv, sep_state = "rd_pct"
    PROVE  sep_state' = IF infifo_rdreq /\ sep_rd_cnt > 0 /\ sep_rd_cnt + 1 = PctWords(Pct)
                        THEN "rd_done" ELSE "rd_pct"
<1>1. sep_state' = IF \/ sep_rd_cnt < (sep_rd_cnt_max - 1) % 65536
                      \/ sep_rd_cnt = (sep_rd_cnt_max - 1) % 65536 /\ infifo_rdempty
                   THEN "rd_pct" ELSE "rd_done"
  BY SepFields DEF SepRdPct, SepIdle, SepRdDone
<1>2. infifo_rdreq <=> ~infifo_rdempty
  BY DEF infifo_rdreq
<1>3. sep_rd_cnt \in Nat /\ sep_wr_cnt \in Nat
      /\ sep_rd_cnt = sep_wr_cnt + (IF infifo_data_valid THEN 1 ELSE 0)
  BY DEF CutInv
<1>4. CASE sep_rd_cnt = 0
  <2>1. sep_rd_cnt_max = 65535
    BY <1>4 DEF CutInv, ALL_ONES
  <2>. QED  BY <1>1, <1>4, <2>1
<1>5. CASE sep_rd_cnt > 0
  <2>1. PctWords(Pct) \in Nat /\ PctWords(Pct) >= 3 /\ PctWords(Pct) < 65535
    BY <1>5, HostPacketWords DEF CutInv, ALL_ONES
  <2>2. sep_rd_cnt < PctWords(Pct)
    BY <1>5 DEF CutInv
  <2>3. CASE sep_wr_cnt = 0
    <3>1. sep_rd_cnt_max = 65535 /\ sep_rd_cnt = 1
      BY <1>3, <1>5, <2>3 DEF CutInv, ALL_ONES
    <3>. QED  BY <1>1, <2>1, <3>1
  <2>4. CASE sep_wr_cnt # 0
    <3>1. sep_rd_cnt_max = PctWords(Pct)
      BY <1>5, <2>4 DEF CutInv
    <3>2. (sep_rd_cnt_max - 1) % 65536 = PctWords(Pct) - 1
      BY <2>1, <3>1
    <3>3. sep_rd_cnt < PctWords(Pct) - 1 \/ sep_rd_cnt = PctWords(Pct) - 1
      BY <1>3, <2>1, <2>2
    <3>. QED  BY <1>1, <1>2, <1>3, <1>5, <2>1, <3>2, <3>3
  <2>. QED  BY <2>3, <2>4
<1>. QED  BY <1>3, <1>4, <1>5

\* The packet being cut out stays until the next one is begun.
LEMMA PctStays ==
    ASSUME NEW sample_nr, Clock(sample_nr), HostInv, CutInv,
           sep_state # "rd_pct" \/ sep_rd_cnt > 0 \/ ~infifo_rdreq
    PROVE  Pct' = Pct
<1>1. CASE ~infifo_rdreq
  BY <1>1, HostFields DEF Pct
<1>2. CASE infifo_rdreq
  <2>1. sep_state = "rd_pct" /\ sep_rd_cnt > 0
    BY <1>2 DEF infifo_rdreq
  <2>2. infifo[2] # 0
    BY <2>1 DEF HostInv
  <2>3. infifo = <<Pct, sep_rd_cnt>>
    BY <2>2 DEF HostInv
  <2>. QED  BY <1>2, <2>3, HostFields DEF Pct
<1>. QED  BY <1>1, <1>2

\* A word is read from the FIFO of the host.
LEMMA WordRead ==
    ASSUME NEW sample_nr, Clock(sample_nr), HostInv, CutInv, infifo_rdreq
    PROVE  /\ HostPacket(Pct') /\ infifo_data' = <<Pct', sep_rd_cnt>>
           /\ sep_state' = IF sep_rd_cnt + 1 = PctWords(Pct') THEN "rd_done" ELSE "rd_pct"
           /\ sep_rd_cnt + 1 <= PctWords(Pct')
           /\ HostInv'
<1>1. sep_state = "rd_pct" /\ ~infifo_rdempty
  BY DEF infifo_rdreq
<1>2. infifo[1] # NoPacket /\ HostPacket(infifo[1]) /\ infifo = <<infifo[1], infifo[2]>>
  BY <1>1 DEF HostInv
<1>3. infifo[2] = sep_rd_cnt /\ sep_rd_cnt \in Nat
  BY <1>1 DEF HostInv, CutInv
<1>4. infifo_data' = infifo /\ Pct' = infifo[1]
  BY HostFields DEF Pct
<1>5. HostPacket(Pct') /\ infifo_data' = <<Pct', sep_rd_cnt>>
  BY <1>2, <1>3, <1>4
<1>6. PctWords(Pct') \in Nat /\ PctWords(Pct') >= 3 /\ Pct'.id \in Nat /\ Pct' # NoPacket
  BY <1>5, HostPacketWords
<1>7. sep_rd_cnt < PctWords(Pct')
  <2>1. CASE sep_rd_cnt = 0
    BY <1>6, <2>1
  <2>2. CASE sep_rd_cnt > 0
    BY <1>1, <2>2, PctStays DEF CutInv
  <2>. QED  BY <1>3, <2>1, <2>2
<1>8. sep_state' = IF sep_rd_cnt + 1 = PctWords(Pct') THEN "rd_done" ELSE "rd_pct"
  <2>1. CASE sep_rd_cnt = 0
    <3>1. sep_state' = "rd_pct"
      BY <1>1, <2>1, LastWord
    <3>2. sep_rd_cnt + 1 # PctWords(Pct')
      BY <1>6, <2>1
    <3>. QED  BY <3>1, <3>2
  <2>2. CASE sep_rd_cnt > 0
    BY <1>1, <2>2, LastWord, PctStays
  <2>. QED  BY <1>3, <2>1, <2>2
<1>9. sep_rd_cnt' = sep_rd_cnt + 1
  BY <1>1, SepFields
<1>10. infifo'[1] = NoPacket => infifo_rdempty'
  BY HostFields
<1>11. HostInv'
  <2>1. CASE sep_rd_cnt + 1 < PctWords(Pct')
    <3>1. infifo' = <<Pct', sep_rd_cnt + 1>>
      BY <1>3, <1>4, <2>1, HostFields
    <3>2. sep_state' = "rd_pct"
      BY <1>3, <1>6, <1>8, <2>1
    <3>. QED  BY <1>3, <1>5, <1>6, <1>9, <3>1, <3>2 DEF HostInv, Pct
  <2>2. CASE ~(sep_rd_cnt + 1 < PctWords(Pct'))
    <3>1. infifo' \in FirstWords(Pct'.id + 1)
      BY <1>3, <1>4, <2>2, HostFields
    <3>2. /\ infifo' = <<infifo'[1], infifo'[2]>> /\ infifo'[2] = 0
          /\ infifo'[1] # NoPacket => HostPacket(infifo'[1]) /\ infifo'[1].id = Pct'.id + 1
      BY <1>6, <3>1, NextPacket
    <3>3. sep_state' = "rd_done"
      BY <1>3, <1>6, <1>7, <1>8, <2>2
    <3>. QED  BY <1>6, <1>10, <3>2, <3>3 DEF HostInv, Pct, HostPacket
  <2>. QED  BY <2>1, <2>2
<1>. QED  BY <1>3, <1>5, <1>6, <1>7, <1>8, <1>11

LEMMA HostKeeps ==
    ASSUME NEW sample_nr, Clock(sample_nr), HostInv, CutInv
    PROVE  HostInv'
<1>1. CASE infifo_rdreq
  BY <1>1, WordRead
<1>2. CASE ~infifo_rdreq
  <2>1. infifo' = infifo /\ Pct' = Pct /\ (infifo'[1] = NoPacket => infifo_rdempty')
    BY <1>2, HostFields DEF Pct
  <2>2. sep_state = "rd_pct" => sep_state' = "rd_pct" /\ sep_rd_cnt' = sep_rd_cnt
    BY <1>2, LastWord, SepFields
  <2>3. sep_state' = "rd_pct" /\ sep_state # "rd_pct" => sep_state = "idle" /\ sep_rd_cnt' = 0
    BY SepFields DEF SepIdle, SepRdPct, SepRdDone
  <2>4. infifo'[2] = 0 /\ sep_state' = "rd_pct" => sep_rd_cnt' = 0
    BY <2>1, <2>2, <2>3 DEF HostInv
  <2>5. infifo'[2] # 0 => sep_state' = "rd_pct" /\ infifo' = <<Pct', sep_rd_cnt'>>
    BY <2>1, <2>2 DEF HostInv
  <2>. QED  BY <2>1, <2>4, <2>5 DEF HostInv, HostPacket
<1>. QED  BY <1>1, <1>2

LEMMA CutKeeps ==
    ASSUME NEW sample_nr, Clock(sample_nr), HostInv, CutInv
    PROVE  CutInv'
<1>. USE SepFields
<1>1. sep_rd_cnt \in Nat /\ sep_wr_cnt \in Nat
  BY DEF CutInv
<1>2. CASE sep_state = "idle"
  <2>1. sep_state' \in {"idle", "rd_pct"}
    BY <1>2 DEF SepIdle, SepRdPct, SepRdDone
  <2>2. ~infifo_data_valid' /\ sep_rd_cnt' = 0 /\ sep_wr_cnt' = 0 /\ sep_rd_cnt_max' = ALL_ONES
    BY <1>2 DEF infifo_rdreq
  <2>. QED  BY <2>1, <2>2 DEF CutInv
<1>3. ASSUME sep_state # "idle"
      PROVE  /\ sep_rd_cnt' = sep_rd_cnt + (IF infifo_rdreq THEN 1 ELSE 0)
             /\ sep_wr_cnt' = sep_wr_cnt + (IF infifo_data_valid THEN 1 ELSE 0)
             /\ sep_rd_cnt' = sep_wr_cnt' + (IF infifo_data_valid' THEN 1 ELSE 0)
  BY <1>1, <1>3 DEF CutInv
<1>4. ASSUME sep_state # "idle", sep_rd_cnt' > 0
      PROVE  sep_rd_cnt_max' = (IF sep_wr_cnt' = 0 THEN ALL_ONES ELSE PctWords(Pct'))
  <2>1. CASE sep_rd_cnt = 0
    <3>1. sep_rd_cnt_max = ALL_ONES /\ ~infifo_data_valid /\ sep_wr_cnt = 0
      <4>1. sep_state = "rd_pct"
        <5>1. sep_state = "rd_done" => PctWords(Pct) = 0
          BY <2>1 DEF CutInv
        <5>2. sep_state = "rd_done" => ~(sep_rd_cnt' > 0)
          BY <2>1, <1>3, <1>4 DEF infifo_rdreq
        <5>. QED  BY <5>2, <1>4 DEF CutInv
      <4>. QED  BY <1>1, <1>4, <2>1, <4>1 DEF CutInv
    <3>. QED  BY <1>3, <1>4, <3>1
  <2>2. CASE sep_rd_cnt > 0
    <3>1. Pct' = Pct
      BY <2>2, PctStays
    <3>2. sep_rd_cnt_max = (IF sep_wr_cnt = 0 THEN ALL_ONES ELSE PctWords(Pct))
      BY <1>4, <2>2 DEF CutInv
    <3>. QED  BY <1>1, <1>3, <1>4, <3>1, <3>2
  <2>. QED  BY <1>1, <2>1, <2>2
<1>5. CASE sep_state = "rd_pct"
  <2>1. CASE infifo_rdreq
    <3>1. /\ HostPacket(Pct') /\ infifo_data' = <<Pct', sep_rd_cnt>>
          /\ sep_state' = IF sep_rd_cnt + 1 = PctWords(Pct') THEN "rd_done" ELSE "rd_pct"
          /\ sep_rd_cnt + 1 <= PctWords(Pct') /\ HostInv'
      BY <2>1, WordRead
    <3>2. sep_rd_cnt' = sep_rd_cnt + 1 /\ sep_rd_cnt' - 1 = sep_rd_cnt
      BY <1>1, <1>3, <1>5, <2>1
    <3>3. PctWords(Pct') \in Nat
      BY <3>1, HostPacketWords
    <3>4. sep_state' = "rd_pct" => sep_rd_cnt' < PctWords(Pct')
      BY <1>1, <3>1, <3>2, <3>3
    <3>5. sep_state' = "rd_done" => sep_rd_cnt' = PctWords(Pct')
      BY <1>1, <3>1, <3>2, <3>3
    <3>6. sep_rd_cnt' \in Nat /\ sep_wr_cnt' \in Nat /\ sep_rd_cnt' > 0
      BY <1>1, <1>3, <1>5, <3>2
    <3>. QED  BY <1>3, <1>4, <1>5, <3>1, <3>2, <3>4, <3>5, <3>6 DEF CutInv, Pct, HostPacket
  <2>2. CASE ~infifo_rdreq
    <3>1. Pct' = Pct /\ infifo_data' = infifo_data
      BY <2>2, PctStays, HostFields
    <3>2. sep_state' = "rd_pct" /\ sep_rd_cnt' = sep_rd_cnt
      BY <1>5, <2>2, LastWord
    <3>3. sep_rd_cnt' \in Nat /\ sep_wr_cnt' \in Nat
      BY <1>1, <1>3, <1>5
    <3>4. sep_rd_cnt' = 0 => sep_rd_cnt_max' = ALL_ONES
      BY <1>1, <1>5, <3>2 DEF CutInv
    <3>5. sep_rd_cnt' > 0 => HostPacket(Pct') /\ infifo_data' = <<Pct', sep_rd_cnt' - 1>> /\ sep_rd_cnt' < PctWords(Pct')
      BY <1>5, <3>1, <3>2 DEF CutInv
    <3>. QED  BY <1>3, <1>4, <1>5, <3>2, <3>3, <3>4, <3>5 DEF CutInv, Pct, HostPacket
  <2>. QED  BY <2>1, <2>2
<1>6. CASE sep_state = "rd_done"
  <2>1. ~infifo_rdreq
    BY <1>6 DEF infifo_rdreq
  <2>2. Pct' = Pct /\ infifo_data' = infifo_data
    BY <2>1, PctStays, HostFields
  <2>3. sep_state' \in {"idle", "rd_done"} /\ sep_rd_cnt' = sep_rd_cnt /\ ~infifo_data_valid'
    BY <1>6, <2>1 DEF SepIdle, SepRdPct, SepRdDone
  <2>4. sep_rd_cnt' \in Nat /\ sep_wr_cnt' \in Nat
    BY <1>1, <1>3, <1>6
  <2>5. sep_rd_cnt' > 0 => HostPacket(Pct') /\ infifo_data' = <<Pct', sep_rd_cnt' - 1>>
    BY <1>6, <2>2, <2>3 DEF CutInv
  <2>6. sep_rd_cnt' > 0 /\ sep_rd_cnt' = PctWords(Pct')
    BY <1>6, <2>2, <2>3 DEF CutInv
  <2>. QED  BY <1>3, <1>4, <1>6, <2>3, <2>4, <2>5, <2>6 DEF CutInv, Pct, HostPacket
<1>. QED  BY <1>2, <1>5, <1>6 DEF CutInv

-----------------------------------------------------------------------------
(* p2d_wr_fsm.                                                             *)

\* What its state machine does with the packet it has asked for.
LEMMA TakeKeeps ==
    ASSUME NEW sample_nr, Clock(sample_nr), TakeInv,
           ~Resting => Pct' = Pct /\ PctWords(Pct) \in Nat /\ PctWords(Pct) >= 3,
           wr_state = "wait_cmpr_pipe" /\ pipe_cnt = 0 => inst1_q'[1] = Pct
    PROVE  TakeInv'
<1>0. /\ WrFsm(pct_rdy, FALSE)
      /\ in_pct_rdreq' <=> wr_state \in {"rd_pct", "rd_hdr"}
      /\ in_pct_reset_n_req' <=> wr_state # "clr_fifo"
      /\ in_pct_data_valid' <=> in_pct_rdreq
      /\ pct_data_wrreq_cnt' = IF in_pct_data_valid THEN pct_data_wrreq_cnt + 1
                               ELSE IF wr_state = "idle" THEN 0
                               ELSE pct_data_wrreq_cnt
      /\ pipe_cnt' = IF wr_state = "wait_cmpr_pipe" THEN pipe_cnt + 1 ELSE 0
      /\ wr_rd_cnt' = IF wr_state \in {"rd_pct", "rd_hdr"} THEN wr_rd_cnt + 1
                      ELSE IF wr_state = "idle" THEN 0 ELSE wr_rd_cnt
      /\ wr_rd_cnt_max' = IF in_pct_data_valid /\ pct_data_wrreq_cnt = 0
                          THEN PctWords(inst1_q[1]) ELSE wr_rd_cnt_max
  BY WrFields
<1>. USE <1>0
<1>1. wr_rd_cnt' \in Nat /\ pipe_cnt' \in Nat /\ pct_data_wrreq_cnt' \in Nat
  <2>1. wr_rd_cnt \in Nat /\ pipe_cnt \in Nat /\ pct_data_wrreq_cnt \in Nat
    BY DEF TakeInv
  <2>2. wr_rd_cnt' \in Nat
    BY <2>1
  <2>3. pipe_cnt' \in Nat
    BY <2>1
  <2>4. pct_data_wrreq_cnt' \in Nat
    BY <2>1
  <2>. QED  BY <2>2, <2>3, <2>4
<1>2. CASE wr_state = "idle"
  <2>1. wr_state' = "idle" \/ wr_state' = "rd_hdr"
    BY <1>2 DEF WrFsm, WrIdle, WrRdHdr, WrWaitCmprPipe, WrCheckSmplNr, WrClrFifo, WrSwitchNextBuff,
                WrRdPct, WrWaitWrEnd, WrCheckNextBuf, WrSwitchCurrentBuff
  <2>2. ~in_pct_rdreq /\ ~in_pct_data_valid
    BY <1>2 DEF TakeInv, Resting
  <2>3. /\ pipe_cnt' = 0 /\ wr_rd_cnt' = 0 /\ pct_data_wrreq_cnt' = 0
        /\ ~in_pct_rdreq' /\ ~in_pct_data_valid' /\ in_pct_reset_n_req'
    BY <1>2, <2>2
  <2>. QED  BY <1>1, <2>1, <2>3 DEF TakeInv, Resting, HdrTaken, WrStates
<1>3. CASE wr_state = "rd_hdr"
  <2>1. wr_state' = "wait_cmpr_pipe"
    BY <1>3 DEF WrFsm, WrIdle, WrRdHdr, WrWaitCmprPipe, WrCheckSmplNr, WrClrFifo, WrSwitchNextBuff,
                WrRdPct, WrWaitWrEnd, WrCheckNextBuf, WrSwitchCurrentBuff
  <2>2. /\ pipe_cnt' = 0 /\ wr_rd_cnt' = 1 /\ pct_data_wrreq_cnt' = 0
        /\ in_pct_rdreq' /\ ~in_pct_data_valid' /\ in_pct_reset_n_req'
    BY <1>3 DEF TakeInv
  <2>. QED  BY <1>1, <2>1, <2>2 DEF TakeInv, Resting, HdrTaken, WrStates
<1>4. CASE wr_state = "wait_cmpr_pipe"
  <2>0. ~Resting
    BY <1>4 DEF Resting
  <2>1. wr_state' = "wait_cmpr_pipe" \/ (pipe_cnt > 3 /\ wr_state' = "check_smpl_nr")
    BY <1>4 DEF WrFsm, WrIdle, WrRdHdr, WrWaitCmprPipe, WrCheckSmplNr, WrClrFifo, WrSwitchNextBuff,
                WrRdPct, WrWaitWrEnd, WrCheckNextBuf, WrSwitchCurrentBuff
  <2>2. /\ pipe_cnt' = pipe_cnt + 1 /\ pipe_cnt \in Nat /\ wr_rd_cnt' = wr_rd_cnt
        /\ ~in_pct_rdreq' /\ in_pct_reset_n_req'
    BY <1>4 DEF TakeInv
  <2>3. CASE pipe_cnt = 0
    <3>1. in_pct_data_valid' /\ pct_data_wrreq_cnt' = 0 /\ wr_rd_cnt' = 1 /\ inst1_q'[1] = Pct'
      BY <1>4, <2>0, <2>3 DEF TakeInv
    <3>2. wr_state' = "wait_cmpr_pipe" /\ pipe_cnt' = 1
      BY <2>1, <2>2, <2>3
    <3>. QED  BY <1>1, <2>2, <3>1, <3>2 DEF TakeInv, Resting, HdrTaken, WrStates, Pct
  <2>4. CASE pipe_cnt = 1
    <3>1. ~in_pct_data_valid' /\ pct_data_wrreq_cnt' = 1 /\ wr_rd_cnt' = 1 /\ wr_rd_cnt_max' = PctWords(Pct')
      BY <1>4, <2>0, <2>4 DEF TakeInv
    <3>2. wr_state' = "wait_cmpr_pipe" /\ pipe_cnt' = 2
      BY <2>1, <2>2, <2>4
    <3>. QED  BY <1>1, <2>2, <3>1, <3>2 DEF TakeInv, Resting, HdrTaken, WrStates, Pct
  <2>5. CASE pipe_cnt >= 2
    <3>1. HdrTaken
      BY <1>4, <2>5 DEF HdrTaken
    <3>2. /\ ~in_pct_data_valid' /\ pct_data_wrreq_cnt' > 0 /\ wr_rd_cnt' = 1
          /\ wr_rd_cnt_max' = PctWords(Pct')
      BY <1>4, <2>0, <3>1 DEF TakeInv
    <3>3. pipe_cnt' > 2
      BY <2>2, <2>5
    <3>. QED  BY <1>1, <2>1, <2>2, <3>2, <3>3 DEF TakeInv, Resting, HdrTaken, WrStates, Pct
  <2>. QED  BY <2>2, <2>3, <2>4, <2>5
<1>5. CASE wr_state \in {"check_smpl_nr", "switch_next_buff"}
  <2>0. ~Resting
    BY <1>5 DEF Resting
  <2>1. wr_state' \in {"check_smpl_nr", "clr_fifo", "switch_next_buff", "rd_pct"}
    BY <1>5 DEF WrFsm, WrIdle, WrRdHdr, WrWaitCmprPipe, WrCheckSmplNr, WrClrFifo, WrSwitchNextBuff,
                WrRdPct, WrWaitWrEnd, WrCheckNextBuf, WrSwitchCurrentBuff
  <2>2. /\ ~in_pct_rdreq' /\ ~in_pct_data_valid' /\ pct_data_wrreq_cnt' > 0 /\ wr_rd_cnt' = 1
        /\ wr_rd_cnt_max' = PctWords(Pct') /\ in_pct_reset_n_req' /\ PctWords(Pct') \in Nat
        /\ PctWords(Pct') >= 3 /\ pipe_cnt' = 0
    BY <1>5, <2>0 DEF TakeInv, HdrTaken
  <2>3. ~(wr_rd_cnt' > 1)
    BY <2>2
  <2>4. wr_rd_cnt' > 0 /\ wr_rd_cnt' < wr_rd_cnt_max'
    BY <2>2
  <2>. QED  BY <1>1, <2>1, <2>2, <2>3, <2>4 DEF TakeInv, Resting, HdrTaken, WrStates, Pct
<1>6. CASE wr_state = "clr_fifo"
  <2>1. wr_state' = "idle"
    BY <1>6 DEF WrFsm, WrIdle, WrRdHdr, WrWaitCmprPipe, WrCheckSmplNr, WrClrFifo, WrSwitchNextBuff,
                WrRdPct, WrWaitWrEnd, WrCheckNextBuf, WrSwitchCurrentBuff
  <2>2. ~in_pct_rdreq' /\ ~in_pct_data_valid' /\ pipe_cnt' = 0
    BY <1>6 DEF TakeInv, HdrTaken
  <2>. QED  BY <1>1, <2>1, <2>2 DEF TakeInv, Resting, HdrTaken, WrStates
<1>7. CASE wr_state = "rd_pct"
  <2>0. ~Resting
    BY <1>7 DEF Resting
  <2>1. wr_state' = IF wr_rd_cnt < wr_rd_cnt_max - 1 THEN "rd_pct" ELSE "wait_wr_end"
    BY <1>7 DEF WrFsm, WrIdle, WrRdHdr, WrWaitCmprPipe, WrCheckSmplNr, WrClrFifo, WrSwitchNextBuff,
                WrRdPct, WrWaitWrEnd, WrCheckNextBuf, WrSwitchCurrentBuff
  <2>2. /\ pct_data_wrreq_cnt > 0 /\ wr_rd_cnt_max = PctWords(Pct) /\ wr_rd_cnt \in Nat
        /\ wr_rd_cnt > 0 /\ wr_rd_cnt < wr_rd_cnt_max /\ pct_data_wrreq_cnt \in Nat
        /\ in_pct_rdreq <=> wr_rd_cnt > 1
    BY <1>7 DEF TakeInv
  <2>3. /\ pct_data_wrreq_cnt' > 0 /\ wr_rd_cnt_max' = PctWords(Pct') /\ wr_rd_cnt_max' = PctWords(Pct)
        /\ wr_rd_cnt' = wr_rd_cnt + 1 /\ pipe_cnt' = 0 /\ in_pct_rdreq' /\ in_pct_reset_n_req'
    BY <1>7, <2>0, <2>2
  <2>4. wr_rd_cnt' > 1
    BY <2>2, <2>3
  <2>5. CASE wr_rd_cnt < wr_rd_cnt_max - 1
    <3>1. wr_rd_cnt' < wr_rd_cnt_max'
      BY <2>0, <2>2, <2>3, <2>5
    <3>. QED  BY <1>1, <2>1, <2>3, <2>4, <2>5, <3>1 DEF TakeInv, Resting, HdrTaken, WrStates, Pct
  <2>6. CASE ~(wr_rd_cnt < wr_rd_cnt_max - 1)
    <3>1. wr_rd_cnt' = wr_rd_cnt_max' /\ wr_rd_cnt > 1
      BY <2>0, <2>2, <2>3, <2>6
    <3>2. in_pct_data_valid'
      BY <2>2, <3>1
    <3>. QED  BY <1>1, <2>1, <2>3, <2>4, <2>6, <3>1, <3>2 DEF TakeInv, Resting, HdrTaken, WrStates, Pct
  <2>. QED  BY <2>5, <2>6
<1>8. CASE wr_state = "wait_wr_end"
  <2>1. wr_state' = IF in_pct_data_valid THEN "wait_wr_end" ELSE "check_next_buf"
    BY <1>8 DEF WrFsm, WrIdle, WrRdHdr, WrWaitCmprPipe, WrCheckSmplNr, WrClrFifo, WrSwitchNextBuff,
                WrRdPct, WrWaitWrEnd, WrCheckNextBuf, WrSwitchCurrentBuff
  <2>2. ~in_pct_rdreq' /\ in_pct_reset_n_req' /\ pipe_cnt' = 0
    BY <1>8
  <2>3. ~in_pct_data_valid => ~in_pct_data_valid'
    BY <1>8 DEF TakeInv
  <2>. QED  BY <1>1, <2>1, <2>2, <2>3 DEF TakeInv, Resting, HdrTaken, WrStates
<1>9. CASE wr_state \in {"check_next_buf", "switch_current_buff"}
  <2>1. wr_state' \in {"check_next_buf", "switch_current_buff", "idle"}
    BY <1>9 DEF WrFsm, WrIdle, WrRdHdr, WrWaitCmprPipe, WrCheckSmplNr, WrClrFifo, WrSwitchNextBuff,
                WrRdPct, WrWaitWrEnd, WrCheckNextBuf, WrSwitchCurrentBuff
  <2>2. ~in_pct_rdreq' /\ ~in_pct_data_valid' /\ in_pct_reset_n_req' /\ pipe_cnt' = 0
    BY <1>9 DEF TakeInv, Resting
  <2>. QED  BY <1>1, <2>1, <2>2 DEF TakeInv, Resting, HdrTaken, WrStates
<1>10. wr_state \in WrStates
  BY DEF TakeInv
<1>. QED  BY <1>2, <1>3, <1>4, <1>5, <1>6, <1>7, <1>8, <1>9, <1>10 DEF WrStates

\* Between two packets nothing is asked for, and a packet is begun only when offered.
LEMMA RestNext ==
    ASSUME NEW sample_nr, Clock(sample_nr), TakeInv, Resting
    PROVE  /\ Resting' \/ (pct_rdy /\ wr_state' = "rd_hdr")
           /\ in_pct_reset_n_req' /\ ~in_pct_rdreq /\ ~in_pct_rdreq'
<1>1. ~in_pct_rdreq /\ (wr_state # "wait_wr_end" => ~in_pct_data_valid)
  BY DEF TakeInv
<1>2. wr_state \in {"idle", "check_next_buf", "switch_current_buff", "wait_wr_end"}
  BY DEF Resting
<1>3. in_pct_reset_n_req' /\ ~in_pct_rdreq'
  BY <1>2, WrFields
<1>4. \/ wr_state' \in {"idle", "check_next_buf", "switch_current_buff", "wait_wr_end"}
      \/ pct_rdy /\ wr_state' = "rd_hdr"
  BY <1>2, WrFields
     DEF WrFsm, WrIdle, WrRdHdr, WrWaitCmprPipe, WrCheckSmplNr, WrClrFifo, WrSwitchNextBuff,
         WrRdPct, WrWaitWrEnd, WrCheckNextBuf, WrSwitchCurrentBuff
<1>. QED  BY <1>1, <1>3, <1>4 DEF Resting

-----------------------------------------------------------------------------
(* A packet is being cut out.                                              *)

\* A packet that is offered is there as a whole.
LEMMA OfferWhole ==
    ASSUME HostInv, CutInv, PipesInv, Filling
    PROVE  /\ HostPacket(Pct) /\ PctWords(Pct) \in Nat /\ PctWords(Pct) >= 3
           /\ Seen \in Nat /\ Len(inst1) = sep_wr_cnt /\ Seen < ALL_ONES /\ sep_wr_cnt \in Nat
           /\ Seen = sep_wr_cnt - InFlight(inst1_arriving)
           /\ Offering <=> pct_words # ALL_ONES /\ Seen = pct_words
           /\ Offering =>
                 /\ sep_state = "rd_done" /\ ~infifo_data_valid /\ sep_wr_cnt = PctWords(Pct)
                 /\ inst1_arriving = Nothing /\ pct_words = PctWords(Pct)
                 /\ inst2 = <<>> /\ inst2_arriving = Nothing
                 /\ ~pct_header_valid_wr /\ ~pct_header_valid
<1>1. HostPacket(Pct) /\ sep_rd_cnt \in Nat /\ sep_wr_cnt \in Nat
      /\ sep_rd_cnt = sep_wr_cnt + (IF infifo_data_valid THEN 1 ELSE 0)
  BY DEF Filling, CutInv
<1>2. PctWords(Pct) \in Nat /\ PctWords(Pct) >= 3 /\ PctWords(Pct) < ALL_ONES
  BY <1>1, HostPacketWords
<1>3. sep_rd_cnt <= PctWords(Pct) /\ (sep_rd_cnt = PctWords(Pct) => sep_state = "rd_done")
  BY <1>1, <1>2 DEF Filling, CutInv
<1>4. Len(inst1) = sep_wr_cnt
  <2>1. Len(Words(Pct, 0, sep_wr_cnt)) = sep_wr_cnt
    BY <1>1, WordsFromFirst
  <2>. QED  BY <1>1, <2>1 DEF Filling
<1>5. InFlight(inst1_arriving) \in Nat
  BY InFlightType
<1>6. Seen \in Nat /\ Seen <= sep_wr_cnt /\ Seen = sep_wr_cnt - InFlight(inst1_arriving)
  BY <1>1, <1>4, <1>5 DEF Seen, Filling
<1>7. Seen < ALL_ONES
  BY <1>1, <1>2, <1>3, <1>6 DEF ALL_ONES
<1>8. Offering <=> pct_words # ALL_ONES /\ Seen = pct_words
  BY DEF Offering, inst1_rdusedw, Clearing, Filling, OutOfReset, Seen
<1>9. ASSUME Offering
      PROVE  /\ sep_state = "rd_done" /\ ~infifo_data_valid /\ sep_wr_cnt = PctWords(Pct)
             /\ inst1_arriving = Nothing /\ pct_words = PctWords(Pct)
             /\ inst2 = <<>> /\ inst2_arriving = Nothing
             /\ ~pct_header_valid_wr /\ ~pct_header_valid
  <2>1. /\ pct_words = PctWords(Pct) /\ inst2 = <<>> /\ inst2_arriving = Nothing
        /\ ~pct_header_valid_wr /\ ~pct_header_valid
    BY <1>8, <1>9 DEF Filling, HeaderInv, NoHeader
  <2>2. Seen = PctWords(Pct)
    BY <1>8, <1>9, <2>1
  <2>3. /\ sep_wr_cnt = PctWords(Pct) /\ sep_rd_cnt = PctWords(Pct) /\ ~infifo_data_valid
        /\ InFlight(inst1_arriving) = 0
    BY <1>1, <1>2, <1>3, <1>5, <1>6, <2>2
  <2>4. inst1_arriving = Nothing
    BY <2>3, NothingInFlight DEF PipesInv
  <2>. QED  BY <1>3, <2>1, <2>3, <2>4
<1>. QED  BY <1>1, <1>2, <1>4, <1>6, <1>7, <1>8, <1>9

\* The words go into the data FIFO in order and come into sight one by one.
LEMMA WordsArrive ==
    ASSUME NEW sample_nr, Clock(sample_nr), HostInv, CutInv, PipesInv, Filling, ~in_pct_rdreq
    PROVE  /\ Pct' = Pct /\ sep_state' \in {"rd_pct", "rd_done"} /\ sep_rd_cnt' > 0
           /\ sep_wr_cnt' = sep_wr_cnt + (IF infifo_data_valid THEN 1 ELSE 0)
           /\ inst1' = Words(Pct', 0, sep_wr_cnt') /\ PipesInv'
           /\ Seen' = Seen + (IF inst1_arriving[SYNC_STAGES] THEN 1 ELSE 0) /\ Seen' >= 0
           /\ inst1_arriving' = Shift(inst1_arriving, infifo_data_valid)
<1>0. in_pct_reset_n_req /\ inst1_reset_sync[2] /\ sep_state \in {"rd_pct", "rd_done"} /\ sep_rd_cnt > 0
  BY DEF Filling, OutOfReset
<1>1. Pct' = Pct
  BY <1>0, PctStays
<1>2. sep_state' \in {"rd_pct", "rd_done"}
  <2>1. CASE sep_state = "rd_pct"
    BY <2>1, LastWord
  <2>2. CASE sep_state = "rd_done"
    <3>1. sep_rd_cnt = PctWords(Pct) /\ sep_rd_cnt >= 3
      BY <2>2, OfferWhole DEF CutInv
    <3>2. sep_wr_cnt > 0
      BY <2>2, <3>1 DEF CutInv
    <3>3. inst1 # <<>>
      BY <3>2, OfferWhole
    <3>4. ~inst1_wrempty(in_pct_reset_n_req)
      BY <1>0, <3>3, RunFields
    <3>. QED  BY <2>2, <3>4, SepFields DEF SepIdle, SepRdPct, SepRdDone
  <2>. QED  BY <1>0, <2>1, <2>2
<1>3. /\ sep_rd_cnt' = IF infifo_rdreq THEN sep_rd_cnt + 1 ELSE sep_rd_cnt
      /\ sep_wr_cnt' = IF infifo_data_valid THEN sep_wr_cnt + 1 ELSE sep_wr_cnt
  BY <1>0, SepFields
<1>4. sep_rd_cnt' > 0 /\ sep_wr_cnt' = sep_wr_cnt + (IF infifo_data_valid THEN 1 ELSE 0)
  BY <1>0, <1>3 DEF CutInv
<1>5. /\ inst1' = inst1 \o (IF infifo_data_valid THEN <<infifo_data>> ELSE <<>>)
      /\ inst1_arriving' = Shift(inst1_arriving, infifo_data_valid)
      /\ inst2_arriving' = Shift(inst2_arriving, pct_header_valid_wr)
  BY <1>0, RunFields
<1>6. infifo_data_valid => infifo_data = <<Pct, sep_wr_cnt>>
  BY <1>0 DEF CutInv
<1>7. inst1' = Words(Pct', 0, sep_wr_cnt')
  <2>0. inst1 = Words(Pct, 0, sep_wr_cnt) /\ sep_wr_cnt \in Nat
    BY DEF Filling, CutInv
  <2>1. CASE infifo_data_valid
    BY <1>1, <1>3, <1>5, <1>6, <2>0, <2>1, WordsFromFirst
  <2>2. CASE ~infifo_data_valid
    BY <1>1, <1>3, <1>5, <2>0, <2>2, WordsFromFirst
  <2>. QED  BY <2>1, <2>2
<1>8. infifo_data_valid \in BOOLEAN /\ pct_header_valid_wr \in BOOLEAN
  BY DEF PipesInv
<1>9. PipesInv'
  <2>1. infifo_data_valid' \in BOOLEAN /\ pct_header_valid_wr' \in BOOLEAN
    BY SepFields
  <2>. QED  BY <1>5, <1>8, <2>1, ShiftCounts DEF PipesInv
<1>10. Len(inst1') = sep_wr_cnt' /\ sep_wr_cnt' \in Nat
  <2>1. sep_wr_cnt' \in Nat
    BY <1>4 DEF CutInv
  <2>2. Len(Words(Pct', 0, sep_wr_cnt')) = sep_wr_cnt'
    BY <2>1, WordsFromFirst
  <2>. QED  BY <1>7, <2>1, <2>2
<1>11. InFlight(inst1_arriving') =
          InFlight(inst1_arriving) + (IF infifo_data_valid THEN 1 ELSE 0)
             - (IF inst1_arriving[SYNC_STAGES] THEN 1 ELSE 0)
  BY <1>5, <1>8, ShiftCounts DEF PipesInv
<1>12. InFlight(inst1_arriving) \in Nat /\ InFlight(inst1_arriving') \in Nat
  BY InFlightType
<1>13. Seen' = Len(inst1') - InFlight(inst1_arriving')
  BY DEF Seen
<1>14. Seen = sep_wr_cnt - InFlight(inst1_arriving) /\ Seen \in Nat /\ sep_wr_cnt \in Nat
  BY OfferWhole
<1>15. Seen' = Seen + (IF inst1_arriving[SYNC_STAGES] THEN 1 ELSE 0) /\ Seen' >= 0
  BY <1>14, <1>4, <1>10, <1>11, <1>12, <1>13
<1>. QED  BY <1>1, <1>2, <1>4, <1>5, <1>7, <1>9, <1>15

\* The header follows the first word of its packet, one stage behind it.
LEMMA HeaderFollows ==
    ASSUME NEW sample_nr, Clock(sample_nr), HostInv, CutInv, PipesInv, Filling, ~in_pct_rdreq
    PROVE  HeaderInv'
<1>. DEFINE hdr_pop == Len(inst2) > InFlight(inst2_arriving)
<1>0. in_pct_reset_n_req /\ inst1_reset_sync[2] /\ sep_state # "idle" /\ sep_wr_cnt \in Nat
  BY DEF Filling, OutOfReset, CutInv
<1>1. /\ inst2_q' = IF hdr_pop THEN Head(inst2) ELSE inst2_q
      /\ inst2' = (IF hdr_pop THEN Tail(inst2) ELSE inst2)
                  \o (IF pct_header_valid_wr THEN <<pct_header>> ELSE <<>>)
      /\ inst2_arriving' = Shift(inst2_arriving, pct_header_valid_wr)
      /\ pct_header_valid' <=> hdr_pop
      /\ pct_words' = IF Seen = 0 THEN ALL_ONES
                      ELSE IF pct_header_valid THEN PctWords(inst2_q) ELSE pct_words
  BY <1>0, RunFields
<1>2. /\ sep_wr_cnt' = sep_wr_cnt + (IF infifo_data_valid THEN 1 ELSE 0)
      /\ pct_header' = IF sep_wr_cnt = 0 /\ infifo_data_valid THEN Pct ELSE pct_header
      /\ pct_header_valid_wr' <=> sep_wr_cnt = 0 /\ infifo_data_valid
  BY <1>0, SepFields, WordsArrive
<1>3. /\ Pct' = Pct /\ inst1_arriving' = Shift(inst1_arriving, infifo_data_valid)
      /\ Seen' = Seen + (IF inst1_arriving[SYNC_STAGES] THEN 1 ELSE 0) /\ Seen \in Nat
  BY WordsArrive, OfferWhole
<1>4. infifo_data_valid \in BOOLEAN /\ inst1_arriving \in Pipes /\ inst2_arriving \in Pipes
  BY DEF PipesInv
<1>5. /\ inst1_arriving'[1] = infifo_data_valid
      /\ \A k \in Stages : k + 1 \in Stages => inst1_arriving'[k + 1] = inst1_arriving[k]
  BY <1>3, <1>4, ShiftCounts
<1>6. SYNC_STAGES \in Nat /\ SYNC_STAGES >= 1 /\ Stages = 1 .. SYNC_STAGES
  BY SyncStagesAssumption DEF Stages
<1>7. ASSUME inst2 = <<>>, inst2_arriving = Nothing  PROVE ~hdr_pop
  BY <1>7, NothingInFlight
<1>8. ASSUME NoHeader, sep_wr_cnt = 0
      PROVE  HeaderInv'
  <2>1. inst2' = <<>> /\ inst2_arriving' = Nothing /\ ~pct_header_valid' /\ pct_words' = ALL_ONES
    <3>1. ~hdr_pop
      BY <1>7, <1>8 DEF NoHeader
    <3>2. inst2' = <<>> \o <<>>
      BY <1>1, <1>8, <3>1 DEF NoHeader
    <3>3. inst2_arriving' = Nothing
      <4>1. pct_header_valid_wr = FALSE
        BY <1>8 DEF NoHeader, PipesInv
      <4>. QED  BY <1>1, <1>8, <4>1, NothingInFlight DEF NoHeader
    <3>. QED  BY <1>1, <1>8, <3>1, <3>2, <3>3 DEF NoHeader
  <2>2. CASE infifo_data_valid
    <3>1. sep_wr_cnt' > 0 /\ pct_header_valid_wr' /\ pct_header' = Pct' /\ inst1_arriving'[1]
      BY <1>2, <1>3, <1>5, <1>8, <2>2
    <3>. QED  BY <2>1, <3>1 DEF HeaderInv, Pct
  <2>3. CASE ~infifo_data_valid
    <3>1. sep_wr_cnt' = 0 /\ ~pct_header_valid_wr'
      BY <1>2, <1>8, <2>3
    <3>. QED  BY <2>1, <3>1 DEF HeaderInv, NoHeader
  <2>. QED  BY <2>2, <2>3
<1>9. ASSUME sep_wr_cnt > 0
      PROVE  sep_wr_cnt' > 0 /\ ~pct_header_valid_wr'
  BY <1>0, <1>2, <1>9
<1>10. ASSUME sep_wr_cnt > 0, pct_header_valid_wr, pct_header = Pct, inst1_arriving[1],
              inst2 = <<>>, inst2_arriving = Nothing, ~pct_header_valid, pct_words = ALL_ONES
       PROVE  HeaderInv'
  <2>1. ~hdr_pop
    BY <1>7, <1>10
  <2>2. inst2' = <<Pct'>> /\ ~pct_header_valid' /\ pct_words' = ALL_ONES
    <3>1. inst2' = <<>> \o <<Pct>>
      BY <1>1, <1>10, <2>1
    <3>. QED  BY <1>1, <1>3, <1>10, <2>1, <3>1
  <2>3. /\ inst2_arriving'[1]
        /\ \A k \in Stages : k + 1 \in Stages => ~inst2_arriving'[k + 1]
    <3>1. inst2_arriving' = Shift(Nothing, TRUE)
      BY <1>1, <1>10 DEF PipesInv
    <3>2. \A k \in Stages : ~Nothing[k]
      BY DEF Nothing
    <3>3. /\ Shift(Nothing, TRUE)[1] = TRUE
          /\ \A k \in Stages : k + 1 \in Stages => Shift(Nothing, TRUE)[k + 1] = Nothing[k]
      BY NothingInFlight, ShiftCounts
    <3>. QED  BY <3>1, <3>2, <3>3
  <2>4. inst2_arriving' # Nothing
    BY <1>6, <2>3 DEF Nothing
  <2>5. ASSUME NEW j \in Stages, inst2_arriving'[j]
        PROVE  IF j = SYNC_STAGES THEN Seen' > 0 ELSE inst1_arriving'[j + 1]
    <3>1. j = 1
      <4>1. j # 1 => j - 1 \in Stages /\ j - 1 + 1 = j
        BY <1>6
      <4>. QED  BY <2>3, <2>5, <4>1
    <3>2. CASE SYNC_STAGES = 1
      BY <1>3, <1>10, <3>1, <3>2
    <3>3. CASE SYNC_STAGES # 1
      <4>1. 1 \in Stages /\ 1 + 1 \in Stages
        BY <1>6, <3>3
      <4>. QED  BY <1>5, <1>10, <3>1, <3>3, <4>1
    <3>. QED  BY <3>2, <3>3
  <2>. QED  BY <1>9, <1>10, <2>2, <2>4, <2>5 DEF HeaderInv, Pct
<1>11. ASSUME sep_wr_cnt > 0, inst2 = <<Pct>>, ~pct_header_valid_wr, ~pct_header_valid, pct_words = ALL_ONES,
              inst2_arriving = Nothing => Seen > 0,
              \A j \in Stages : inst2_arriving[j] =>
                 IF j = SYNC_STAGES THEN Seen > 0 ELSE inst1_arriving[j + 1]
       PROVE  HeaderInv'
  <2>0. pct_header_valid_wr = FALSE /\ Len(inst2) = 1
    BY <1>11 DEF PipesInv
  <2>1. /\ inst2_arriving' = Shift(inst2_arriving, FALSE) /\ inst2_arriving' \in Pipes
        /\ ~inst2_arriving'[1]
        /\ \A k \in Stages : k + 1 \in Stages => inst2_arriving'[k + 1] = inst2_arriving[k]
    BY <1>1, <1>4, <2>0, ShiftCounts
  <2>2. InFlight(inst2_arriving) \in Nat /\ (InFlight(inst2_arriving) = 0 <=> inst2_arriving = Nothing)
    BY <1>4, InFlightType, NothingInFlight
  <2>3. hdr_pop <=> inst2_arriving = Nothing
    BY <2>0, <2>2
  <2>4. pct_words' = ALL_ONES
    BY <1>1, <1>11
  <2>5. CASE inst2_arriving = Nothing
    <3>1. Seen' > 0
      BY <1>3, <1>11, <2>5
    <3>2. inst2_arriving' = Nothing
      BY <2>1, <2>5, NothingInFlight
    <3>3. Head(inst2) = Pct /\ Tail(inst2) = <<>>
      BY <1>11
    <3>4. inst2' = <<>> \o <<>> /\ inst2_q' = Pct /\ pct_header_valid'
      BY <1>1, <1>11, <2>3, <2>5, <3>3
    <3>5. inst2' = <<>>
      BY <3>4
    <3>. QED  BY <1>3, <1>9, <1>11, <2>4, <3>1, <3>2, <3>4, <3>5 DEF HeaderInv, Pct
  <2>6. CASE inst2_arriving # Nothing
    <3>1. inst2' = <<Pct>> \o <<>> /\ ~pct_header_valid'
      BY <1>1, <1>11, <2>3, <2>6
    <3>2. inst2' = <<Pct'>>
      BY <1>3, <3>1
    <3>3. inst2_arriving' = Nothing => Seen' > 0
      <4>1. PICK j \in Stages : inst2_arriving[j]
        BY <2>2, <2>6, InFlightType
      <4>2. ASSUME inst2_arriving' = Nothing  PROVE j = SYNC_STAGES
        <5>1. j # SYNC_STAGES => j + 1 \in Stages
          BY <1>6
        <5>2. j + 1 \in Stages => ~inst2_arriving'[j + 1]
          BY <4>2 DEF Nothing
        <5>. QED  BY <2>1, <4>1, <5>1, <5>2
      <4>. QED  BY <1>3, <1>11, <4>1, <4>2
    <3>4. ASSUME NEW j \in Stages, inst2_arriving'[j]
          PROVE  IF j = SYNC_STAGES THEN Seen' > 0 ELSE inst1_arriving'[j + 1]
      <4>1. j # 1
        BY <2>1, <3>4
      <4>2. j - 1 \in Stages /\ j - 1 + 1 = j /\ j - 1 # SYNC_STAGES
        BY <1>6, <4>1
      <4>3. inst2_arriving[j - 1]
        BY <2>1, <3>4, <4>2
      <4>4. inst1_arriving[j]
        <5>1. inst1_arriving[j - 1 + 1]
          BY <1>11, <4>2, <4>3
        <5>. QED  BY <4>2, <5>1
      <4>5. CASE j = SYNC_STAGES
        BY <1>3, <4>4, <4>5
      <4>6. CASE j # SYNC_STAGES
        <5>1. j + 1 \in Stages
          BY <1>6, <4>6
        <5>. QED  BY <1>5, <4>4, <4>6, <5>1
      <4>. QED  BY <4>5, <4>6
    <3>. QED  BY <1>9, <1>11, <2>4, <3>1, <3>2, <3>3, <3>4 DEF HeaderInv, Pct
  <2>. QED  BY <2>5, <2>6
<1>12. ASSUME sep_wr_cnt > 0, inst2 = <<>>, inst2_arriving = Nothing, ~pct_header_valid_wr, Seen > 0,
              \/ pct_header_valid /\ inst2_q = Pct /\ pct_words = ALL_ONES
              \/ ~pct_header_valid /\ pct_words = PctWords(Pct)
       PROVE  HeaderInv'
  <2>1. ~hdr_pop
    BY <1>7, <1>12
  <2>2. inst2' = <<>> \o <<>> /\ ~pct_header_valid'
    BY <1>1, <1>12, <2>1
  <2>3. inst2' = <<>>
    BY <2>2
  <2>4. inst2_arriving' = Nothing
    <3>1. pct_header_valid_wr = FALSE
      BY <1>12 DEF PipesInv
    <3>. QED  BY <1>1, <1>12, <3>1, NothingInFlight
  <2>5. Seen' > 0
    BY <1>3, <1>12
  <2>6. pct_words' = PctWords(Pct')
    BY <1>1, <1>3, <1>12
  <2>. QED  BY <1>9, <1>12, <2>2, <2>3, <2>4, <2>5, <2>6 DEF HeaderInv, Pct
<1>. QED  BY <1>8, <1>10, <1>11, <1>12 DEF Filling, HeaderInv

-----------------------------------------------------------------------------
(* From phase to phase.                                                    *)

LEMMA EmptyNext ==
    ASSUME NEW sample_nr, Clock(sample_nr), HostInv, CutInv, TakeInv, PipesInv, Empty
    PROVE  /\ (Empty' \/ Filling') /\ PipesInv' /\ TakeInv' /\ ~in_pct_rdreq
           /\ ~Offering' /\ ~pct_rdy' /\ inst1_q' = inst1_q /\ offered' = offered
<1>1. /\ Resting /\ inst1 = <<>> /\ NoHeader /\ ~pct_rdy /\ ~infifo_data_valid
      /\ inst1_arriving = Nothing /\ in_pct_reset_n_req /\ offered = Pct.id
  BY DEF Empty
<1>2. Resting' /\ in_pct_reset_n_req' /\ ~in_pct_rdreq
  BY <1>1, RestNext
<1>3. TakeInv'
  BY <1>1, TakeKeeps DEF Resting
<1>4. Seen = 0 /\ ALL_ONES # 0
  BY <1>1, NothingInFlight DEF Seen, ALL_ONES
<1>5. /\ inst1' = <<>> /\ inst2' = <<>> /\ inst1_arriving' = Nothing /\ inst2_arriving' = Nothing
      /\ ~pct_header_valid' /\ pct_words' = ALL_ONES /\ ~pct_rdy'
      /\ inst1_reset_sync' = <<TRUE, inst1_reset_sync[1]>> /\ offered' = offered
  <2>1. CASE inst1_reset_sync[2]
    <3>1. infifo_data_valid = FALSE /\ pct_header_valid_wr = FALSE
      BY <1>1 DEF NoHeader, PipesInv
    <3>2. ~(Len(inst2) > InFlight(inst2_arriving))
      BY <1>1, NothingInFlight DEF NoHeader
    <3>3. /\ inst1' = inst1 \o (IF infifo_data_valid THEN <<infifo_data>> ELSE <<>>)
          /\ inst2' = inst2 \o (IF pct_header_valid_wr THEN <<pct_header>> ELSE <<>>)
          /\ inst1_arriving' = Shift(inst1_arriving, infifo_data_valid)
          /\ inst2_arriving' = Shift(inst2_arriving, pct_header_valid_wr)
          /\ ~pct_header_valid' /\ pct_words' = ALL_ONES
          /\ pct_rdy' <=> Seen = pct_words
          /\ inst1_reset_sync' = <<TRUE, inst1_reset_sync[1]>>
          /\ offered' = IF pct_words # ALL_ONES /\ Seen = pct_words THEN Head(inst1)[1].id ELSE offered
      BY <1>1, <1>2, <1>4, <2>1, <3>2, RunFields
    <3>4. inst1' = <<>> \o <<>> /\ inst2' = <<>> \o <<>>
      BY <1>1, <3>1, <3>3 DEF NoHeader
    <3>5. inst1_arriving' = Nothing /\ inst2_arriving' = Nothing
      BY <1>1, <3>1, <3>3, NothingInFlight DEF NoHeader
    <3>6. inst1' = <<>> /\ inst2' = <<>>
      BY <3>4
    <3>. QED  BY <1>1, <1>4, <3>3, <3>5, <3>6 DEF NoHeader
  <2>2. CASE ~inst1_reset_sync[2]
    BY <1>1, <1>4, <2>2, ClearFields DEF NoHeader
  <2>. QED  BY <2>1, <2>2
<1>6. PipesInv'
  BY <1>5, NothingInFlight, SepFields DEF PipesInv
<1>7. ~pct_header_valid_wr'
  BY <1>1, SepFields
<1>8. NoHeader'
  BY <1>5, <1>7 DEF NoHeader
<1>9. Seen' = 0
  <2>1. Len(inst1') = 0 /\ InFlight(inst1_arriving') = 0
    BY <1>5, NothingInFlight
  <2>. QED  BY <2>1 DEF Seen
<1>10. \/ inst1_reset_sync[1] = TRUE
       \/ inst1_reset_sync[1] = FALSE /\ sep_state = "idle"
  <2>1. \/ inst1_reset_sync = <<TRUE, TRUE>>
        \/ inst1_reset_sync = <<FALSE, FALSE>> /\ sep_state = "idle"
        \/ inst1_reset_sync = <<TRUE, FALSE>>
    BY DEF Empty
  <2>2. <<TRUE, TRUE>>[1] = TRUE /\ <<FALSE, FALSE>>[1] = FALSE /\ <<TRUE, FALSE>>[1] = TRUE
    OBVIOUS
  <2>. QED  BY <2>1, <2>2, Zenon
<1>11. ~Offering'
  BY <1>5 DEF Offering
<1>12. inst1_q' = inst1_q
  <2>1. CASE inst1_reset_sync[2]
    BY <1>1, <1>2, <2>1, RunFields
  <2>2. CASE ~inst1_reset_sync[2]
    BY <2>2, ClearFields
  <2>. QED  BY <2>1, <2>2
<1>13. CASE infifo_rdreq
  <2>1. sep_state = "rd_pct" /\ sep_rd_cnt = 0
    BY <1>13 DEF infifo_rdreq, Empty
  <2>2. sep_wr_cnt = 0
    BY <1>1, <2>1 DEF CutInv
  <2>3. sep_rd_cnt' = 1 /\ sep_wr_cnt' = 0
    <3>1. /\ sep_rd_cnt' = IF infifo_rdreq THEN sep_rd_cnt + 1 ELSE sep_rd_cnt
          /\ sep_wr_cnt' = IF infifo_data_valid THEN sep_wr_cnt + 1 ELSE sep_wr_cnt
      BY <2>1, SepFields
    <3>. QED  BY <1>1, <1>13, <2>1, <2>2, <3>1
  <2>4. sep_state' \in {"rd_pct", "rd_done"}
    BY <2>1, LastWord
  <2>5. infifo[2] = 0 /\ infifo[1] # NoPacket
    BY <1>13, <2>1 DEF HostInv, infifo_rdreq
  <2>6. Pct' = infifo[1] /\ infifo[1].id = Pct.id + 1 /\ Pct.id \in Nat
    BY <1>13, <2>5, HostFields DEF HostInv, Pct
  <2>7. offered' = Pct'.id - 1
    BY <1>1, <1>5, <2>6
  <2>8. OutOfReset'
    <3>1. inst1_reset_sync[1] = TRUE
      BY <2>1, <1>10
    <3>. QED  BY <1>2, <1>5, <3>1 DEF OutOfReset
  <2>9. inst1' = Words(Pct', 0, sep_wr_cnt')
    BY <1>5, <2>3, WordsFromFirst
  <2>10. HeaderInv'
    BY <1>8, <2>3 DEF HeaderInv
  <2>11. Filling'
    BY <1>2, <1>5, <1>9, <2>3, <2>4, <2>7, <2>8, <2>9, <2>10, <1>11 DEF Filling, Pct
  <2>. QED  BY <1>2, <1>3, <1>5, <1>6, <1>11, <1>12, <2>11
<1>14. CASE ~infifo_rdreq
  <2>1. ~infifo_data_valid' /\ Pct' = Pct
    BY <1>14, SepFields, PctStays
  <2>2. sep_state' = "rd_pct" => sep_rd_cnt' = 0
    <3>1. sep_state = "rd_pct" => sep_rd_cnt' = 0
      BY <1>14, SepFields DEF Empty
    <3>2. sep_state = "idle" => sep_rd_cnt' = 0
      BY SepFields
    <3>3. sep_state = "rd_done" => sep_state' # "rd_pct"
      BY SepFields DEF SepIdle, SepRdPct, SepRdDone
    <3>. QED  BY <3>1, <3>2, <3>3 DEF CutInv
  <2>3. \/ inst1_reset_sync' = <<TRUE, TRUE>>
        \/ inst1_reset_sync' = <<TRUE, FALSE>> /\ sep_state' \in {"idle", "rd_pct"}
    <3>1. CASE inst1_reset_sync[1] = TRUE
      BY <1>5, <3>1
    <3>2. CASE inst1_reset_sync[1] # TRUE
      <4>1. inst1_reset_sync[1] = FALSE /\ sep_state = "idle"
        BY <3>2, <1>10
      <4>2. sep_state' \in {"idle", "rd_pct"}
        BY <4>1, SepFields DEF SepIdle, SepRdPct, SepRdDone
      <4>. QED  BY <1>5, <4>1, <4>2
    <3>. QED  BY <3>1, <3>2
  <2>4. Empty'
    BY <1>1, <1>2, <1>5, <1>8, <2>1, <2>2, <2>3 DEF Empty, Pct
  <2>. QED  BY <1>2, <1>3, <1>5, <1>6, <1>11, <1>12, <2>4
<1>. QED  BY <1>13, <1>14

\* Until it is asked for, an offer stays.
LEMMA FillingStays ==
    ASSUME NEW sample_nr, Clock(sample_nr), HostInv, CutInv, TakeInv, PipesInv, Filling, ~in_pct_rdreq
    PROVE  /\ Filling' /\ PipesInv' /\ TakeInv'
           /\ Offering => Offering'
           /\ pct_rdy' <=> Offering
           /\ offered' = IF Offering THEN Pct.id ELSE offered
           /\ Pct' = Pct /\ inst1_q' = inst1_q
<1>1. in_pct_reset_n_req /\ inst1_reset_sync[2] /\ inst1_reset_sync[1]
  BY DEF Filling, OutOfReset
<1>2. /\ Pct' = Pct /\ sep_state' \in {"rd_pct", "rd_done"} /\ sep_rd_cnt' > 0
      /\ sep_wr_cnt' = sep_wr_cnt + (IF infifo_data_valid THEN 1 ELSE 0)
      /\ inst1' = Words(Pct', 0, sep_wr_cnt') /\ PipesInv' /\ Seen' >= 0
      /\ Seen' = Seen + (IF inst1_arriving[SYNC_STAGES] THEN 1 ELSE 0)
  BY WordsArrive
<1>3. HeaderInv'
  BY HeaderFollows
<1>4. /\ PctWords(Pct) \in Nat /\ PctWords(Pct) >= 3 /\ Seen < ALL_ONES /\ Seen \in Nat
      /\ Offering <=> pct_words # ALL_ONES /\ Seen = pct_words
      /\ Offering => inst1_arriving = Nothing /\ pct_words = PctWords(Pct) /\ ~pct_header_valid
                     /\ sep_wr_cnt = PctWords(Pct)
  BY OfferWhole
<1>5. wr_state = "wait_cmpr_pipe" => pipe_cnt # 0
  BY DEF TakeInv
<1>6. TakeInv'
  BY <1>2, <1>4, <1>5, TakeKeeps
<1>7. /\ pct_words' = IF Seen = 0 THEN ALL_ONES
                      ELSE IF pct_header_valid THEN PctWords(inst2_q) ELSE pct_words
      /\ pct_rdy' <=> Seen = pct_words
      /\ inst1_reset_sync' = <<TRUE, inst1_reset_sync[1]>>
      /\ offered' = IF pct_words # ALL_ONES /\ Seen = pct_words THEN Head(inst1)[1].id ELSE offered
      /\ inst1_q' = inst1_q
  BY <1>1, RunFields
<1>8. pct_rdy' <=> Offering
  BY <1>4, <1>7
<1>9. Offering => Head(inst1)[1] = Pct
  <2>1. PctWords(Pct) > 0
    BY <1>4
  <2>2. Offering => inst1 = Words(Pct, 0, PctWords(Pct))
    BY <1>4 DEF Filling
  <2>3. Head(Words(Pct, 0, PctWords(Pct))) = <<Pct, 0>>
    BY <1>4, <2>1, WordsFromFirst
  <2>. QED  BY <2>2, <2>3
<1>10. offered' = IF Offering THEN Pct.id ELSE offered
  BY <1>4, <1>7, <1>9
<1>11. Resting \/ wr_state = "rd_hdr"
  BY <1>5 DEF Filling
<1>12. in_pct_reset_n_req'
  BY <1>11, WrFields DEF Resting
<1>13. OutOfReset'
  <2>1. inst1_reset_sync[1] = TRUE
    BY DEF Filling, OutOfReset
  <2>. QED  BY <1>7, <1>12, <2>1 DEF OutOfReset
<1>14. ASSUME Offering  PROVE Offering'
  <2>1. pct_words' = pct_words
    BY <1>4, <1>7, <1>14
  <2>2. Seen' = Seen
    BY <1>2, <1>4, <1>14, SyncStagesAssumption DEF Nothing, Stages
  <2>3. inst1_rdusedw(in_pct_reset_n_req)' = Seen'
    BY <1>13 DEF inst1_rdusedw, Clearing, OutOfReset, Seen
  <2>. QED  BY <1>4, <1>14, <2>1, <2>2, <2>3 DEF Offering
<1>15. offered = Pct.id \/ offered = Pct.id - 1
  BY DEF Filling
<1>16. ~Offering => offered' = Pct.id - 1
  BY <1>10 DEF Filling
<1>17. Resting' \/ (Offering' /\ offered' = Pct'.id
                    /\ (wr_state' = "rd_hdr" \/ (wr_state' = "wait_cmpr_pipe" /\ pipe_cnt' = 0)))
  <2>1. CASE Resting
    <3>1. Resting' \/ (pct_rdy /\ wr_state' = "rd_hdr")
      BY <2>1, RestNext
    <3>2. pct_rdy => Offering
      BY DEF Filling
    <3>. QED  BY <1>2, <1>10, <1>14, <3>1, <3>2
  <2>2. CASE ~Resting
    <3>1. wr_state = "rd_hdr" /\ Offering
      BY <1>11, <2>2 DEF Filling
    <3>2. wr_state' = "wait_cmpr_pipe" /\ pipe_cnt' = 0
      BY <3>1, WrFields
         DEF WrFsm, WrIdle, WrRdHdr, WrWaitCmprPipe, WrCheckSmplNr, WrClrFifo, WrSwitchNextBuff,
             WrRdPct, WrWaitWrEnd, WrCheckNextBuf, WrSwitchCurrentBuff
    <3>. QED  BY <1>2, <1>10, <1>14, <3>1, <3>2
  <2>. QED  BY <2>1, <2>2
<1>18. pct_rdy' => Offering' /\ offered' = Pct'.id
  BY <1>2, <1>8, <1>10, <1>14
<1>19. offered' = Pct'.id \/ offered' = Pct'.id - 1
  BY <1>2, <1>10, <1>15
<1>20. ~Offering' => offered' = Pct'.id - 1
  BY <1>2, <1>14, <1>16
<1>21. Filling'
  BY <1>2, <1>3, <1>13, <1>17, <1>18, <1>19, <1>20 DEF Filling, Pct
<1>. QED  BY <1>2, <1>6, <1>7, <1>8, <1>10, <1>14, <1>21

\* The first word is asked for: the offer is withdrawn.
LEMMA FillingTaken ==
    ASSUME NEW sample_nr, Clock(sample_nr), HostInv, CutInv, TakeInv, PipesInv, Filling, in_pct_rdreq
    PROVE  /\ Draining' /\ PipesInv' /\ TakeInv' /\ Offering /\ pct_rdy' /\ Pct' = Pct
           /\ inst1_q' = <<Pct, 0>> /\ Taken' = 1 /\ offered' = Pct.id
<1>1. in_pct_reset_n_req /\ inst1_reset_sync[2] /\ inst1_reset_sync[1]
  BY DEF Filling, OutOfReset
<1>2. ~Resting
  BY DEF TakeInv
<1>3. Offering /\ wr_state = "wait_cmpr_pipe" /\ pipe_cnt = 0
  BY <1>2 DEF TakeInv, Filling
<1>4. /\ PctWords(Pct) \in Nat /\ PctWords(Pct) >= 3 /\ pct_words # ALL_ONES /\ Seen = pct_words
      /\ sep_state = "rd_done" /\ ~infifo_data_valid /\ sep_wr_cnt = PctWords(Pct)
      /\ inst1_arriving = Nothing /\ pct_words = PctWords(Pct)
      /\ inst2 = <<>> /\ inst2_arriving = Nothing
      /\ ~pct_header_valid_wr /\ ~pct_header_valid
  BY <1>3, OfferWhole
<1>5. Pct' = Pct
  BY <1>4, PctStays
<1>6. inst1 = Words(Pct, 0, PctWords(Pct)) /\ PctWords(Pct) > 0
  BY <1>4 DEF Filling
<1>7. /\ Head(inst1) = <<Pct, 0>> /\ Tail(inst1) = Words(Pct, 1, PctWords(Pct)) /\ inst1 # <<>>
  <2>1. /\ Head(Words(Pct, 0, PctWords(Pct))) = <<Pct, 0>>
        /\ Tail(Words(Pct, 0, PctWords(Pct))) = Words(Pct, 1, PctWords(Pct))
    BY <1>4, <1>6, WordsFromFirst
  <2>2. Words(Pct, 0, PctWords(Pct)) # <<>>
    <3>1. Len(Words(Pct, 0, PctWords(Pct))) = PctWords(Pct)
      BY <1>4, WordsFromFirst
    <3>. QED  BY <1>6, <3>1
  <2>. QED  BY <1>6, <2>1, <2>2
<1>8. ~(Len(inst2) > InFlight(inst2_arriving)) /\ Seen > 0
  BY <1>4, NothingInFlight
<1>9. infifo_data_valid = FALSE /\ pct_header_valid_wr = FALSE
  BY <1>4 DEF PipesInv
<1>10. /\ inst1_q' = Head(inst1)
       /\ inst1' = Tail(inst1) \o (IF infifo_data_valid THEN <<infifo_data>> ELSE <<>>)
       /\ inst2' = inst2 \o (IF pct_header_valid_wr THEN <<pct_header>> ELSE <<>>)
       /\ inst1_arriving' = Shift(inst1_arriving, infifo_data_valid)
       /\ inst2_arriving' = Shift(inst2_arriving, pct_header_valid_wr)
       /\ ~pct_header_valid' /\ pct_words' = ALL_ONES /\ pct_rdy'
       /\ inst1_reset_sync' = <<TRUE, inst1_reset_sync[1]>>
       /\ offered' = Head(inst1)[1].id
       /\ inst1_wrempty(in_pct_reset_n_req) => inst1 = <<>>
  BY <1>1, <1>4, <1>8, RunFields
<1>11. inst1' = Words(Pct', 1, PctWords(Pct'))
  <2>1. Words(Pct, 1, PctWords(Pct)) \o <<>> = Words(Pct, 1, PctWords(Pct))
    <3>1. 1 \in Nat /\ 1 <= PctWords(Pct)
      BY <1>4
    <3>. QED  BY <1>4, <3>1, WordsSeq
  <2>. QED  BY <1>5, <1>7, <1>9, <1>10, <2>1
<1>12. inst1_arriving' = Nothing /\ inst2_arriving' = Nothing
  BY <1>4, <1>9, <1>10, NothingInFlight
<1>13. inst2' = <<>>
  <2>1. inst2' = <<>> \o <<>>
    BY <1>4, <1>9, <1>10
  <2>. QED  BY <2>1
<1>14. ~pct_header_valid_wr'
  BY <1>4, SepFields
<1>15. NoHeader'
  BY <1>10, <1>12, <1>13, <1>14 DEF NoHeader
<1>16. PipesInv'
  BY <1>12, NothingInFlight, SepFields DEF PipesInv
<1>17. sep_state' = "rd_done" /\ ~infifo_data_valid'
  BY <1>4, <1>7, <1>10, SepFields DEF SepIdle, SepRdPct, SepRdDone, infifo_rdreq
<1>18. /\ wr_state' = "wait_cmpr_pipe"
       /\ pipe_cnt' = 1 /\ ~in_pct_rdreq' /\ wr_rd_cnt' = 1 /\ in_pct_reset_n_req'
  <2>1. wr_state' = "wait_cmpr_pipe"
    BY <1>3, WrFields
       DEF WrFsm, WrIdle, WrRdHdr, WrWaitCmprPipe, WrCheckSmplNr, WrClrFifo, WrSwitchNextBuff,
           WrRdPct, WrWaitWrEnd, WrCheckNextBuf, WrSwitchCurrentBuff
  <2>2. wr_rd_cnt = 1
    BY <1>3 DEF TakeInv
  <2>3. pipe_cnt' = pipe_cnt + 1 /\ ~in_pct_rdreq' /\ wr_rd_cnt' = wr_rd_cnt /\ in_pct_reset_n_req'
    BY <1>3, WrFields
  <2>. QED  BY <1>3, <2>1, <2>2, <2>3
<1>19. TakeInv'
  <2>1. inst1_q'[1] = Pct
    BY <1>7, <1>10
  <2>. QED  BY <1>4, <1>5, <2>1, TakeKeeps
<1>20. OutOfReset'
  <2>1. inst1_reset_sync[1] = TRUE
    BY DEF Filling, OutOfReset
  <2>. QED  BY <1>10, <1>18, <2>1 DEF OutOfReset
<1>21. offered' = Pct'.id /\ offered' = Pct.id
  BY <1>5, <1>7, <1>10
<1>22. Taken' = 1
  BY <1>18 DEF Taken
<1>23. inst1' = Words(Pct', Taken', PctWords(Pct'))
  BY <1>11, <1>22
<1>24. ~Resting'
  BY <1>18 DEF Resting
<1>25. Draining'
  BY <1>12, <1>15, <1>17, <1>18, <1>20, <1>21, <1>23, <1>24 DEF Draining, Pct
<1>. QED  BY <1>3, <1>5, <1>7, <1>10, <1>16, <1>19, <1>21, <1>22, <1>25

\* The packet of a read or a clear is complete, and its words come one by one.
LEMMA DrainingKnown ==
    ASSUME HostInv, CutInv, TakeInv, Draining
    PROVE  /\ HostPacket(Pct) /\ PctWords(Pct) \in Nat /\ PctWords(Pct) >= 3 /\ PctWords(Pct) < ALL_ONES
           /\ Taken \in Nat /\ Taken >= 1 /\ Taken < PctWords(Pct)
           /\ Seen = PctWords(Pct) - Taken /\ inst1 # <<>>
           /\ Head(inst1) = <<Pct, Taken>> /\ Tail(inst1) = Words(Pct, Taken + 1, PctWords(Pct))
           /\ inst1 \o <<>> = inst1
           /\ Tail(inst1) \o <<>> = Tail(inst1)
<1>1. HostPacket(Pct)
  BY DEF Draining, CutInv
<1>2. PctWords(Pct) \in Nat /\ PctWords(Pct) >= 3 /\ PctWords(Pct) < ALL_ONES
  BY <1>1, HostPacketWords
<1>3. wr_rd_cnt \in Nat /\ wr_state \in WrStates /\ pipe_cnt \in Nat
  BY DEF TakeInv
<1>4. \/ wr_rd_cnt = 1 /\ ~in_pct_rdreq
      \/ wr_state = "rd_pct" /\ wr_rd_cnt > 0 /\ wr_rd_cnt < PctWords(Pct) /\ (in_pct_rdreq <=> wr_rd_cnt > 1)
      \/ wr_rd_cnt = PctWords(Pct) /\ in_pct_rdreq
  <2>1. CASE HdrTaken
    BY <2>1 DEF TakeInv
  <2>2. CASE ~HdrTaken
    <3>1. wr_state = "rd_pct" \/ (wr_state = "wait_wr_end" /\ in_pct_rdreq)
          \/ (wr_state = "wait_cmpr_pipe" /\ pipe_cnt = 1)
      BY <1>3, <2>2 DEF Draining, HdrTaken, Resting, WrStates
    <3>. QED  BY <3>1 DEF TakeInv
  <2>. QED  BY <2>1, <2>2
<1>5. Taken = wr_rd_cnt - (IF in_pct_rdreq THEN 1 ELSE 0)
  BY DEF Taken
<1>6. Taken \in Nat /\ Taken >= 1 /\ Taken < PctWords(Pct)
  BY <1>2, <1>3, <1>4, <1>5
<1>7. inst1 = Words(Pct, Taken, PctWords(Pct)) /\ Taken <= PctWords(Pct) /\ Taken # PctWords(Pct)
      /\ inst1_arriving = Nothing
  BY <1>2, <1>6 DEF Draining
<1>8. /\ Len(inst1) = PctWords(Pct) - Taken /\ inst1 # <<>>
      /\ Head(inst1) = <<Pct, Taken>> /\ Tail(inst1) = Words(Pct, Taken + 1, PctWords(Pct))
      /\ inst1 \o <<>> = inst1
  BY <1>2, <1>6, <1>7, WordsSeq
<1>9. Tail(inst1) \o <<>> = Tail(inst1)
  <2>1. Taken + 1 \in Nat /\ Taken + 1 <= PctWords(Pct)
    BY <1>2, <1>6
  <2>. QED  BY <1>2, <1>8, <2>1, WordsSeq
<1>10. Seen = PctWords(Pct) - Taken
  BY <1>2, <1>6, <1>7, <1>8, NothingInFlight DEF Seen
<1>. QED  BY <1>1, <1>2, <1>6, <1>8, <1>9, <1>10

LEMMA DrainingNext ==
    ASSUME NEW sample_nr, Clock(sample_nr), HostInv, CutInv, TakeInv, PipesInv, Draining
    PROVE  /\ PipesInv' /\ TakeInv' /\ Pct' = Pct /\ ~pct_rdy' /\ offered' = Pct.id
           /\ inst1_q' = IF in_pct_rdreq THEN <<Pct, Taken>> ELSE inst1_q
           /\ \/ Draining' /\ Taken' = Taken + (IF in_pct_rdreq THEN 1 ELSE 0)
              \/ Dropping' /\ ~in_pct_rdreq /\ Taken = 1
              \/ Empty' /\ in_pct_rdreq /\ Taken + 1 = PctWords(Pct)
<1>1. in_pct_reset_n_req /\ inst1_reset_sync[2] /\ inst1_reset_sync[1] = TRUE
  BY DEF Draining, OutOfReset
<1>2. /\ PctWords(Pct) \in Nat /\ PctWords(Pct) >= 3 /\ PctWords(Pct) < ALL_ONES
      /\ Taken \in Nat /\ Taken >= 1 /\ Taken < PctWords(Pct)
      /\ Seen = PctWords(Pct) - Taken /\ inst1 # <<>>
      /\ Head(inst1) = <<Pct, Taken>> /\ Tail(inst1) = Words(Pct, Taken + 1, PctWords(Pct))
      /\ inst1 \o <<>> = inst1 /\ Tail(inst1) \o <<>> = Tail(inst1)
  BY DrainingKnown
<1>3. /\ sep_state = "rd_done" /\ ~infifo_data_valid /\ inst1_arriving = Nothing /\ NoHeader
      /\ offered = Pct.id /\ ~Resting /\ wr_state # "rd_hdr"
      /\ ~(wr_state = "wait_cmpr_pipe" /\ pipe_cnt = 0)
      /\ inst1 = Words(Pct, Taken, PctWords(Pct))
  BY DEF Draining
<1>4. Pct' = Pct
  BY <1>3, PctStays
<1>5. infifo_data_valid = FALSE /\ pct_header_valid_wr = FALSE
  BY <1>3 DEF PipesInv, NoHeader
<1>6. ~(Len(inst2) > InFlight(inst2_arriving)) /\ Seen > 0 /\ Seen # ALL_ONES
  <2>1. Seen > 0 /\ Seen # ALL_ONES
    BY <1>2 DEF ALL_ONES
  <2>. QED  BY <1>3, <2>1, NothingInFlight DEF NoHeader
<1>7. /\ inst1_q' = IF in_pct_rdreq THEN Head(inst1) ELSE inst1_q
      /\ inst1' = (IF in_pct_rdreq THEN Tail(inst1) ELSE inst1)
                  \o (IF infifo_data_valid THEN <<infifo_data>> ELSE <<>>)
      /\ inst2' = inst2 \o (IF pct_header_valid_wr THEN <<pct_header>> ELSE <<>>)
      /\ inst1_arriving' = Shift(inst1_arriving, infifo_data_valid)
      /\ inst2_arriving' = Shift(inst2_arriving, pct_header_valid_wr)
      /\ ~pct_header_valid' /\ pct_words' = ALL_ONES /\ ~pct_rdy'
      /\ inst1_reset_sync' = <<TRUE, inst1_reset_sync[1]>>
      /\ offered' = offered
      /\ inst1_wrempty(in_pct_reset_n_req) => inst1 = <<>>
  BY <1>1, <1>3, <1>6, RunFields DEF NoHeader
<1>8. inst1' = IF in_pct_rdreq THEN Tail(inst1) ELSE inst1
  BY <1>2, <1>5, <1>7
<1>9. inst1_arriving' = Nothing /\ inst2_arriving' = Nothing
  BY <1>3, <1>5, <1>7, NothingInFlight DEF NoHeader
<1>10. inst2' = <<>>
  <2>1. inst2' = <<>> \o <<>>
    BY <1>3, <1>5, <1>7 DEF NoHeader
  <2>. QED  BY <2>1
<1>11. ~pct_header_valid_wr'
  BY <1>3, SepFields
<1>12. NoHeader'
  BY <1>7, <1>9, <1>10, <1>11 DEF NoHeader
<1>13. PipesInv'
  BY <1>9, NothingInFlight, SepFields DEF PipesInv
<1>14. sep_state' = "rd_done" /\ ~infifo_data_valid'
  BY <1>2, <1>3, <1>7, SepFields DEF SepIdle, SepRdPct, SepRdDone, infifo_rdreq
<1>15. TakeInv'
  BY <1>2, <1>3, <1>4, TakeKeeps
<1>16. /\ inst1_reset_sync' = <<TRUE, TRUE>>
       /\ in_pct_reset_n_req' <=> wr_state # "clr_fifo"
       /\ offered' = Pct'.id
  BY <1>1, <1>3, <1>4, <1>7, WrFields
<1>17. wr_rd_cnt \in Nat /\ wr_state \in WrStates /\ pipe_cnt \in Nat
  BY DEF TakeInv
<1>18. Taken' = wr_rd_cnt' - (IF in_pct_rdreq' THEN 1 ELSE 0)
       /\ Taken = wr_rd_cnt - (IF in_pct_rdreq THEN 1 ELSE 0)
  BY DEF Taken
<1>19. Taken' = wr_rd_cnt
  <2>1. /\ in_pct_rdreq' <=> wr_state = "rd_pct"
        /\ wr_rd_cnt' = IF wr_state = "rd_pct" THEN wr_rd_cnt + 1 ELSE wr_rd_cnt
    BY <1>3, WrFields DEF Resting
  <2>. QED  BY <1>17, <1>18, <2>1
<1>20. Taken' = Taken + (IF in_pct_rdreq THEN 1 ELSE 0)
  BY <1>17, <1>18, <1>19
<1>21. inst1' = Words(Pct', Taken', PctWords(Pct'))
  <2>1. CASE in_pct_rdreq
    BY <1>2, <1>4, <1>8, <1>20, <2>1
  <2>2. CASE ~in_pct_rdreq
    <3>1. Taken' = Taken
      BY <1>2, <1>20, <2>2
    <3>. QED  BY <1>3, <1>4, <1>8, <2>2, <3>1
  <2>. QED  BY <2>1, <2>2
<1>22. CASE wr_state = "clr_fifo"
  <2>1. ~in_pct_rdreq /\ wr_rd_cnt = 1
    BY <1>22 DEF TakeInv, HdrTaken
  <2>2. wr_state' = "idle"
    BY <1>22, WrFields
       DEF WrFsm, WrIdle, WrRdHdr, WrWaitCmprPipe, WrCheckSmplNr, WrClrFifo, WrSwitchNextBuff,
           WrRdPct, WrWaitWrEnd, WrCheckNextBuf, WrSwitchCurrentBuff
  <2>3. Taken' = 1 /\ Taken = 1
    BY <1>18, <1>19, <2>1
  <2>4. Dropping'
    BY <1>7, <1>12, <1>14, <1>16, <1>21, <1>22, <2>2, <2>3 DEF Dropping, Pct
  <2>. QED  BY <1>2, <1>3, <1>4, <1>7, <1>13, <1>15, <2>1, <2>3, <2>4
<1>23. CASE wr_state = "wait_wr_end"
  <2>1. in_pct_rdreq /\ in_pct_data_valid /\ wr_rd_cnt = PctWords(Pct)
    BY <1>3, <1>23 DEF Resting, TakeInv
  <2>2. wr_state' = "wait_wr_end" /\ ~in_pct_rdreq'
    BY <1>23, <2>1, WrFields
       DEF WrFsm, WrIdle, WrRdHdr, WrWaitCmprPipe, WrCheckSmplNr, WrClrFifo, WrSwitchNextBuff,
           WrRdPct, WrWaitWrEnd, WrCheckNextBuf, WrSwitchCurrentBuff
  <2>3. Resting'
    BY <2>2 DEF Resting
  <2>4. Taken' = PctWords(Pct) /\ Taken + 1 = PctWords(Pct)
    BY <1>17, <1>18, <1>19, <2>1
  <2>5. inst1' = <<>>
    <3>1. Words(Pct, PctWords(Pct), PctWords(Pct)) = <<>>
      <4>1. PctWords(Pct) <= PctWords(Pct)
        BY <1>2
      <4>. QED  BY <1>2, <4>1, WordsSeq
    <3>. QED  BY <1>4, <1>21, <2>4, <3>1
  <2>6. Empty'
    BY <1>7, <1>9, <1>12, <1>14, <1>16, <1>23, <2>3, <2>5 DEF Empty, Pct
  <2>. QED  BY <1>2, <1>3, <1>4, <1>7, <1>13, <1>15, <2>1, <2>4, <2>6
<1>24. CASE wr_state # "clr_fifo" /\ wr_state # "wait_wr_end"
  <2>1. wr_state \in {"wait_cmpr_pipe", "check_smpl_nr", "switch_next_buff", "rd_pct"}
    BY <1>3, <1>17, <1>24 DEF Resting, WrStates
  <2>2. ~Resting' /\ wr_state' # "rd_hdr" /\ ~(wr_state' = "wait_cmpr_pipe" /\ pipe_cnt' = 0)
    <3>1. CASE wr_state = "wait_cmpr_pipe"
      <4>1. wr_state' \in {"wait_cmpr_pipe", "check_smpl_nr"}
        BY <3>1, WrFields
           DEF WrFsm, WrIdle, WrRdHdr, WrWaitCmprPipe, WrCheckSmplNr, WrClrFifo, WrSwitchNextBuff,
               WrRdPct, WrWaitWrEnd, WrCheckNextBuf, WrSwitchCurrentBuff
      <4>2. pipe_cnt' = pipe_cnt + 1
        BY <3>1, WrFields
      <4>. QED  BY <1>17, <4>1, <4>2 DEF Resting
    <3>2. CASE wr_state \in {"check_smpl_nr", "switch_next_buff"}
      BY <3>2, WrFields
         DEF WrFsm, WrIdle, WrRdHdr, WrWaitCmprPipe, WrCheckSmplNr, WrClrFifo, WrSwitchNextBuff,
             WrRdPct, WrWaitWrEnd, WrCheckNextBuf, WrSwitchCurrentBuff, Resting
    <3>3. CASE wr_state = "rd_pct"
      <4>1. wr_state' \in {"rd_pct", "wait_wr_end"} /\ in_pct_rdreq'
        BY <3>3, WrFields
           DEF WrFsm, WrIdle, WrRdHdr, WrWaitCmprPipe, WrCheckSmplNr, WrClrFifo, WrSwitchNextBuff,
               WrRdPct, WrWaitWrEnd, WrCheckNextBuf, WrSwitchCurrentBuff
      <4>. QED  BY <4>1 DEF Resting
    <3>. QED  BY <2>1, <3>1, <3>2, <3>3
  <2>3. OutOfReset'
    BY <1>16, <1>24 DEF OutOfReset
  <2>4. Draining'
    BY <1>7, <1>9, <1>12, <1>14, <1>16, <1>21, <2>2, <2>3 DEF Draining, Pct
  <2>. QED  BY <1>2, <1>3, <1>4, <1>7, <1>13, <1>15, <1>20, <2>4
<1>. QED  BY <1>22, <1>23, <1>24

LEMMA DroppingNext ==
    ASSUME NEW sample_nr, Clock(sample_nr), HostInv, CutInv, TakeInv, PipesInv, Dropping
    PROVE  /\ Empty' /\ PipesInv' /\ TakeInv' /\ ~in_pct_rdreq
           /\ ~pct_rdy' /\ inst1_q' = inst1_q /\ offered' = offered /\ Pct' = Pct
           /\ inst1 # <<>> /\ HostPacket(Pct) /\ Head(inst1) = <<Pct, 1>>
<1>1. /\ ~in_pct_reset_n_req /\ wr_state = "idle" /\ sep_state = "rd_done" /\ ~infifo_data_valid
      /\ NoHeader /\ ~pct_rdy /\ offered = Pct.id /\ pct_words # 0
  BY DEF Dropping, NoHeader, ALL_ONES
<1>2. Resting
  BY <1>1 DEF Resting
<1>3. Resting' /\ in_pct_reset_n_req' /\ ~in_pct_rdreq
  BY <1>1, <1>2, RestNext
<1>4. TakeInv'
  BY <1>1, <1>2, TakeKeeps
<1>5. /\ inst1_q' = inst1_q /\ inst1' = <<>> /\ inst2' = <<>>
      /\ inst1_arriving' = Nothing /\ inst2_arriving' = Nothing
      /\ ~pct_header_valid' /\ pct_words' = ALL_ONES /\ ~pct_rdy'
      /\ inst1_reset_sync' = <<FALSE, FALSE>> /\ offered' = offered
      /\ inst1_wrempty(in_pct_reset_n_req)
  BY <1>1, ClearFields
<1>6. sep_state' = "idle" /\ ~infifo_data_valid' /\ ~pct_header_valid_wr'
  BY <1>1, <1>5, SepFields DEF SepIdle, SepRdPct, SepRdDone, infifo_rdreq
<1>7. Pct' = Pct
  BY <1>1, PctStays
<1>8. NoHeader' /\ PipesInv'
  BY <1>5, <1>6, NothingInFlight, SepFields DEF NoHeader, PipesInv
<1>9. Empty'
  BY <1>1, <1>3, <1>5, <1>6, <1>7, <1>8 DEF Empty, Pct
<1>10. HostPacket(Pct)
  BY <1>1 DEF CutInv
<1>11. inst1 = Words(Pct, 1, PctWords(Pct)) /\ PctWords(Pct) \in Nat /\ 1 < PctWords(Pct)
       /\ 1 # PctWords(Pct) /\ 1 <= PctWords(Pct)
  BY <1>10, HostPacketWords DEF Dropping
<1>12. inst1 # <<>> /\ Head(inst1) = <<Pct, 1>>
  BY <1>11, WordsSeq
<1>. QED  BY <1>3, <1>4, <1>5, <1>7, <1>8, <1>9, <1>10, <1>12

-----------------------------------------------------------------------------
(* The invariant holds.                                                    *)

LEMMA InitFront == Init => FrontInv
<1>. SUFFICES ASSUME Init PROVE FrontInv
  OBVIOUS
<1>1. WrInit /\ OnePctInit /\ infifo \in FirstWords(0 + 1) /\ infifo_rdempty = TRUE
      /\ infifo_data = <<NoPacket, 0>> /\ offered = 0
  BY DEF Init
<1>2. Pct = NoPacket /\ Pct.id = 0
  BY <1>1 DEF Pct, NoPacket
<1>3. /\ infifo = <<infifo[1], infifo[2]>> /\ infifo[2] = 0
      /\ infifo[1] # NoPacket => HostPacket(infifo[1]) /\ infifo[1].id = 0 + 1
  BY <1>1, NextPacket
<1>4. HostInv
  BY <1>1, <1>2, <1>3 DEF HostInv, OnePctInit
<1>5. CutInv
  BY <1>1 DEF CutInv, OnePctInit
<1>6. TakeInv
  BY <1>1 DEF TakeInv, WrInit, WrStates, Resting, HdrTaken
<1>7. PipesInv
  BY <1>1, NothingInFlight DEF PipesInv, OnePctInit
<1>8. Empty
  BY <1>1, <1>2 DEF Empty, Resting, NoHeader, WrInit, OnePctInit
<1>. QED  BY <1>4, <1>5, <1>6, <1>7, <1>8 DEF FrontInv

LEMMA NextKeepsFront == FrontInv /\ [Next]_vars => FrontInv'
<1>. SUFFICES ASSUME FrontInv, [Next]_vars PROVE FrontInv'
  OBVIOUS
<1>0. HostInv /\ CutInv /\ TakeInv /\ PipesInv
  BY DEF FrontInv
<1>1. CASE Next
  <2>1. PICK sample_nr \in SAMPLE_NRS : Clock(sample_nr)
    BY <1>1 DEF Next
  <2>2. HostInv' /\ CutInv'
    BY <1>0, <2>1, HostKeeps, CutKeeps
  <2>3. CASE Empty
    BY <1>0, <2>1, <2>2, <2>3, EmptyNext DEF FrontInv
  <2>4. CASE Filling
    <3>1. CASE in_pct_rdreq
      BY <1>0, <2>1, <2>2, <2>4, <3>1, FillingTaken DEF FrontInv
    <3>2. CASE ~in_pct_rdreq
      BY <1>0, <2>1, <2>2, <2>4, <3>2, FillingStays DEF FrontInv
    <3>. QED  BY <3>1, <3>2
  <2>5. CASE Draining
    BY <1>0, <2>1, <2>2, <2>5, DrainingNext DEF FrontInv
  <2>6. CASE Dropping
    BY <1>0, <2>1, <2>2, <2>6, DroppingNext DEF FrontInv
  <2>. QED  BY <2>3, <2>4, <2>5, <2>6 DEF FrontInv
<1>2. CASE UNCHANGED vars
  <2>1. UNCHANGED <<wrVars, onePctVars, infifo_rdempty, infifo, infifo_data, offered>>
    BY <1>2 DEF vars
  <2>2. UNCHANGED <<Pct, Seen, Taken>>
    BY <2>1 DEF Pct, Seen, Taken, onePctVars, fifoVars, wrVars
  <2>3. UNCHANGED <<Resting, HdrTaken, NoHeader, OutOfReset, Offering>>
    BY <2>1 DEF Resting, HdrTaken, NoHeader, OutOfReset, Offering, inst1_rdusedw, Clearing,
                wrVars, onePctVars, sepVars, fifoVars
  <2>4. HostInv' /\ CutInv' /\ PipesInv'
    BY <1>0, <2>1, <2>2 DEF HostInv, CutInv, PipesInv, HostPacket, onePctVars, sepVars, fifoVars
  <2>5. TakeInv'
    BY <1>0, <2>1, <2>2, <2>3 DEF TakeInv, onePctVars, fifoVars, wrVars
  <2>6. Empty => Empty'
    BY <2>1, <2>2, <2>3 DEF Empty, wrVars, onePctVars, sepVars, fifoVars
  <2>7. HeaderInv => HeaderInv'
    BY <2>1, <2>2, <2>3 DEF HeaderInv, onePctVars, sepVars, fifoVars
  <2>8. Filling => Filling'
    BY <2>1, <2>2, <2>3, <2>7 DEF Filling, wrVars, onePctVars, sepVars, fifoVars
  <2>9. Draining => Draining'
    BY <2>1, <2>2, <2>3 DEF Draining, wrVars, onePctVars, sepVars, fifoVars
  <2>10. Dropping => Dropping'
    BY <2>1, <2>2, <2>3 DEF Dropping, wrVars, onePctVars, sepVars, fifoVars
  <2>. QED  BY <2>4, <2>5, <2>6, <2>8, <2>9, <2>10 DEF FrontInv
<1>. QED  BY <1>1, <1>2

\* One packet at a time: none, being cut out, being taken, or being cleared.
THEOREM FrontPhases == Spec => []FrontInv
BY InitFront, NextKeepsFront, PTL DEF Spec

-----------------------------------------------------------------------------
(* The reset and the header.                                               *)

\* pct_separate_fsm and one_pct_fifo: nothing is written to the FIFOs in their reset,
\* although only the number of clocks the states take keeps the two apart.
THEOREM WritesAreOutsideReset == Spec => []NoWriteWhileClearing
<1>1. FrontInv => NoWriteWhileClearing
  <2>. SUFFICES ASSUME FrontInv, infifo_data_valid \/ pct_header_valid_wr
                PROVE  ~Clearing(in_pct_reset_n_req)
    BY DEF NoWriteWhileClearing
  <2>1. Filling \/ Draining
    BY DEF FrontInv, Empty, Dropping, NoHeader
  <2>2. in_pct_reset_n_req /\ inst1_reset_sync = <<TRUE, TRUE>>
    BY <2>1 DEF Filling, Draining, OutOfReset
  <2>. QED  BY <2>2 DEF Clearing
<1>. QED  BY <1>1, FrontPhases, PTL

\* pct_words_proc of one_pct_fifo: the header of a packet is taken when the packet is
\* in sight and untouched, whatever number of clocks the FIFO pointers take.
THEOREM HeaderAndPacketMeet == Spec => []HeaderMeetsItsPacket
<1>1. FrontInv => HeaderMeetsItsPacket
  <2>. SUFFICES ASSUME FrontInv, pct_header_valid
                PROVE  /\ inst1_rdusedw(in_pct_reset_n_req) > 0 /\ ~in_pct_rdreq
                       /\ Head(inst1) = <<inst2_q, 0>>
    BY DEF HeaderMeetsItsPacket
  <2>0. HostInv /\ CutInv /\ TakeInv /\ PipesInv
    BY DEF FrontInv
  <2>1. Filling
    BY DEF FrontInv, Empty, Dropping, Draining, NoHeader
  <2>2. inst2_q = Pct /\ pct_words = ALL_ONES /\ Seen > 0 /\ sep_wr_cnt > 0
    BY <2>1 DEF Filling, HeaderInv, NoHeader
  <2>3. ~Offering
    BY <2>2 DEF Offering
  <2>4. ~in_pct_rdreq
    BY <2>0, <2>1, <2>3 DEF Filling, TakeInv
  <2>5. inst1_rdusedw(in_pct_reset_n_req) = Seen
    BY <2>1 DEF Filling, OutOfReset, inst1_rdusedw, Clearing, Seen
  <2>6. Head(inst1) = <<Pct, 0>>
    <3>1. inst1 = Words(Pct, 0, sep_wr_cnt) /\ sep_wr_cnt \in Nat
      BY <2>0, <2>1 DEF Filling, CutInv
    <3>. QED  BY <2>2, <3>1, WordsFromFirst
  <2>. QED  BY <2>2, <2>4, <2>5, <2>6
<1>. QED  BY <1>1, FrontPhases, PTL

-----------------------------------------------------------------------------
(* The packet FIFO of Packets2Data.                                        *)

NextId == IF Offering THEN Head(inst1)[1].id + 1 ELSE offered + 1

\* What PctFifo holds, phase by phase.
HeldInv ==
    /\ Empty => Held = <<NoPacket, 0>> /\ NextId = Pct.id + 1
    /\ Filling => /\ Held = IF Offering THEN <<Pct, 0>> ELSE <<NoPacket, 0>>
                  /\ NextId = IF Offering THEN Pct.id + 1 ELSE Pct.id
    /\ Draining => Held = <<Pct, Taken>> /\ Taken < PctWords(Pct) /\ NextId = Pct.id + 1
    /\ Dropping => Held = <<Pct, 1>> /\ NextId = Pct.id + 1

LEMMA HeldPacket == FrontInv => HeldInv
<1>. SUFFICES ASSUME FrontInv PROVE HeldInv
  OBVIOUS
<1>0. HostInv /\ CutInv /\ TakeInv /\ PipesInv /\ Pct.id \in Nat
  BY DEF FrontInv, HostInv
<1>1. NoHeader => ~Offering
  BY DEF NoHeader, Offering
<1>2. ASSUME Empty
      PROVE  Held = <<NoPacket, 0>> /\ NextId = Pct.id + 1
  BY <1>1, <1>2 DEF Empty, Held, HeldWord, NextId
<1>3. ASSUME Filling
      PROVE  /\ Held = IF Offering THEN <<Pct, 0>> ELSE <<NoPacket, 0>>
             /\ NextId = IF Offering THEN Pct.id + 1 ELSE Pct.id
  <2>1. inst1 = Words(Pct, 0, sep_wr_cnt) /\ sep_wr_cnt \in Nat
    BY <1>0, <1>3 DEF Filling, CutInv
  <2>2. HeldWord = IF sep_wr_cnt = 0 THEN <<NoPacket, 0>> ELSE <<Pct, 0>>
    <3>1. inst1 = <<>> <=> sep_wr_cnt = 0
      BY <2>1, WordsFromFirst
    <3>2. CASE sep_wr_cnt = 0
      BY <3>1, <3>2 DEF HeldWord
    <3>3. CASE sep_wr_cnt # 0
      <4>1. sep_wr_cnt > 0
        BY <2>1, <3>3
      <4>2. Head(Words(Pct, 0, sep_wr_cnt)) = <<Pct, 0>>
        BY <2>1, <4>1, WordsFromFirst
      <4>. QED  BY <2>1, <3>1, <3>3, <4>2 DEF HeldWord
    <3>. QED  BY <3>2, <3>3
  <2>3. Offering => sep_wr_cnt > 0
    BY <1>0, <1>3, OfferWhole
  <2>4. HeldWord[2] = 0 /\ (Offering => HeldWord = <<Pct, 0>>)
    BY <2>2, <2>3
  <2>5. Held = IF Offering THEN <<Pct, 0>> ELSE <<NoPacket, 0>>
    BY <2>4 DEF Held
  <2>6. Offering => Head(inst1)[1] = Pct
    <3>1. sep_wr_cnt > 0 => Head(Words(Pct, 0, sep_wr_cnt)) = <<Pct, 0>>
      BY <2>1, WordsFromFirst
    <3>. QED  BY <2>1, <2>3, <3>1
  <2>7. ~Offering => offered = Pct.id - 1
    BY <1>3 DEF Filling
  <2>. QED  BY <1>0, <2>5, <2>6, <2>7 DEF NextId
<1>4. ASSUME Draining
      PROVE  Held = <<Pct, Taken>> /\ Taken < PctWords(Pct) /\ NextId = Pct.id + 1
  <2>1. inst1 # <<>> /\ Head(inst1) = <<Pct, Taken>> /\ Taken \in Nat /\ Taken >= 1 /\ Taken < PctWords(Pct)
    BY <1>0, <1>4, DrainingKnown
  <2>2. ~Offering /\ offered = Pct.id
    BY <1>1, <1>4 DEF Draining
  <2>3. HeldWord = <<Pct, Taken>> /\ HeldWord[2] > 0
    BY <2>1 DEF HeldWord
  <2>. QED  BY <2>1, <2>2, <2>3 DEF Held, NextId
<1>5. ASSUME Dropping
      PROVE  Held = <<Pct, 1>> /\ NextId = Pct.id + 1
  <2>1. HostPacket(Pct)
    BY <1>0, <1>5 DEF Dropping, CutInv
  <2>2. inst1 = Words(Pct, 1, PctWords(Pct)) /\ PctWords(Pct) \in Nat /\ 1 < PctWords(Pct)
        /\ 1 # PctWords(Pct) /\ 1 <= PctWords(Pct)
    BY <1>5, <2>1, HostPacketWords DEF Dropping
  <2>3. inst1 # <<>> /\ Head(inst1) = <<Pct, 1>>
    BY <2>2, WordsSeq
  <2>4. ~Offering /\ offered = Pct.id
    BY <1>1, <1>5 DEF Dropping
  <2>5. HeldWord = <<Pct, 1>> /\ HeldWord[2] > 0
    BY <2>3 DEF HeldWord
  <2>. QED  BY <2>4, <2>5 DEF Held, NextId
<1>. QED  BY <1>2, <1>3, <1>4, <1>5 DEF HeldInv

\* A packet of the host is one that may arrive at PctFifo.
LEMMA PacketArrives ==
    ASSUME NEW p, HostPacket(p)
    PROVE  p.id <= MAX_PKTS /\ p # NoPacket /\ \E q \in PACKETS : p = P!WithId(q, p.id)
<1>1. PICK q \in PACKETS : p = WithId(q, p.id)
  BY DEF HostPacket
<1>2. WithId(q, p.id) = P!WithId(q, p.id)
  BY DEF WithId, P!WithId
<1>. QED  BY <1>1, <1>2, HostPacketWords

\* A clock of the front is a clock of PctFifo.
LEMMA ClockRefines ==
    ASSUME NEW sample_nr, Clock(sample_nr), FrontInv, HeldInv, FrontInv', HeldInv'
    PROVE  P!PctFifoClock(in_pct_rdreq, in_pct_reset_n_req)
<1>0. HostInv /\ CutInv /\ TakeInv /\ PipesInv /\ Pct.id \in Nat
  BY DEF FrontInv, HostInv
<1>1. /\ P!NoPacket = NoPacket /\ P!PctWords(Pct) = PctWords(Pct)
  BY DEF P!NoPacket, NoPacket, P!PctWords, PctWords, P!PayloadWords, PayloadWords
<1>2. pct_rdy' \in BOOLEAN
  BY DEF Clock, OnePctClock, ReadClock
<1>3. CASE Empty
  <2>1. /\ (Empty' \/ Filling') /\ ~Offering'
        /\ ~pct_rdy' /\ inst1_q' = inst1_q /\ offered' = offered /\ in_pct_reset_n_req
    BY <1>0, <1>3, EmptyNext DEF Empty
  <2>2. Held = <<NoPacket, 0>> /\ Held' = <<NoPacket, 0>>
    BY <1>3, <2>1 DEF HeldInv
  <2>3. ~Offering /\ ~Offering'
    BY <1>0, <1>3, EmptyNext DEF Empty, NoHeader, Offering
  <2>. QED  BY <1>1, <1>2, <2>1, <2>2, <2>3 DEF P!PctFifoClock, P!PctFifoArrival
<1>4. CASE Filling /\ ~in_pct_rdreq
  <2>1. /\ Filling' /\ Pct' = Pct /\ inst1_q' = inst1_q
        /\ Offering => Offering'
        /\ pct_rdy' <=> Offering
        /\ in_pct_reset_n_req
    BY <1>0, <1>4, FillingStays DEF Filling, OutOfReset
  <2>2. /\ Held = IF Offering THEN <<Pct, 0>> ELSE <<NoPacket, 0>>
        /\ Held' = IF Offering' THEN <<Pct, 0>> ELSE <<NoPacket, 0>>
        /\ NextId = IF Offering THEN Pct.id + 1 ELSE Pct.id
        /\ NextId' = IF Offering' THEN Pct.id + 1 ELSE Pct.id
    BY <1>4, <2>1 DEF HeldInv, Pct
  <2>3. HostPacket(Pct)
    BY <1>0, <1>4, OfferWhole
  <2>4. Pct.id <= MAX_PKTS /\ Pct # NoPacket /\ \E q \in PACKETS : Pct = P!WithId(q, Pct.id)
    BY <2>3, PacketArrives
  <2>5. CASE Offering
    <3>1. Held = <<Pct, 0>> /\ Held' = <<Pct, 0>> /\ NextId' = NextId /\ pct_rdy'
      BY <2>1, <2>2, <2>5
    <3>. QED  BY <1>1, <1>2, <1>4, <2>1, <2>4, <3>1 DEF P!PctFifoClock, NextId
  <2>6. CASE ~Offering
    <3>1. Held = <<NoPacket, 0>> /\ ~pct_rdy' /\ NextId = Pct.id
      BY <2>1, <2>2, <2>6
    <3>2. P!PctFifoArrival /\ Held'[2] = Held[2]
      <4>1. CASE Offering'
        <5>1. Held' = <<Pct, 0>> /\ NextId' = NextId + 1
          BY <2>2, <3>1, <4>1
        <5>. QED  BY <2>4, <3>1, <5>1 DEF P!PctFifoArrival, NextId
      <4>2. CASE ~Offering'
        <5>1. Held' = Held /\ NextId' = NextId
          BY <2>2, <3>1, <4>2
        <5>. QED  BY <5>1 DEF P!PctFifoArrival, NextId
      <4>. QED  BY <4>1, <4>2
    <3>. QED  BY <1>1, <1>2, <2>1, <3>1, <3>2 DEF P!PctFifoClock
  <2>. QED  BY <2>5, <2>6
<1>5. CASE Filling /\ in_pct_rdreq
  <2>1. /\ Draining' /\ Offering /\ pct_rdy' /\ Pct' = Pct /\ inst1_q' = <<Pct, 0>> /\ Taken' = 1
        /\ in_pct_reset_n_req
    BY <1>0, <1>5, FillingTaken DEF Filling, OutOfReset
  <2>2. /\ Held = <<Pct, 0>> /\ Held' = <<Pct, 1>>
        /\ NextId = Pct.id + 1 /\ NextId' = Pct.id + 1
    BY <1>5, <2>1 DEF HeldInv, Pct
  <2>3. HostPacket(Pct) /\ PctWords(Pct) >= 3 /\ PctWords(Pct) \in Nat
    BY <1>0, <1>5, OfferWhole
  <2>4. Pct # NoPacket /\ 0 + 1 # PctWords(Pct) /\ 0 + 1 = 1
    BY <2>3, PacketArrives
  <2>. QED  BY <1>1, <1>2, <1>5, <2>1, <2>2, <2>4 DEF P!PctFifoClock, NextId
<1>6. CASE Draining
  <2>1. /\ Pct' = Pct /\ ~pct_rdy' /\ in_pct_reset_n_req
        /\ inst1_q' = IF in_pct_rdreq THEN <<Pct, Taken>> ELSE inst1_q
        /\ \/ Draining' /\ Taken' = Taken + (IF in_pct_rdreq THEN 1 ELSE 0)
           \/ Dropping' /\ ~in_pct_rdreq /\ Taken = 1
           \/ Empty' /\ in_pct_rdreq /\ Taken + 1 = PctWords(Pct)
    BY <1>0, <1>6, DrainingNext DEF Draining, OutOfReset
  <2>2. HostPacket(Pct) /\ Taken \in Nat /\ Taken >= 1 /\ PctWords(Pct) \in Nat
    BY <1>0, <1>6, DrainingKnown
  <2>3. Pct # NoPacket
    BY <2>2, PacketArrives
  <2>4. Held = <<Pct, Taken>> /\ NextId = Pct.id + 1
    BY <1>6 DEF HeldInv
  <2>5. NextId' = NextId
    BY <2>1, <2>4 DEF HeldInv, Pct
  <2>6. CASE in_pct_rdreq
    <3>1. Held' = IF Taken + 1 = PctWords(Pct) THEN <<NoPacket, 0>> ELSE <<Pct, Taken + 1>>
      <4>1. CASE Draining'
        <5>1. Held' = <<Pct', Taken'>> /\ Taken' < PctWords(Pct')
          BY <4>1 DEF HeldInv, Pct
        <5>2. ~Dropping' /\ ~Empty'
          BY <4>1 DEF Draining, Dropping, Empty, OutOfReset
        <5>3. Taken' = Taken + 1
          BY <2>1, <2>6, <5>2
        <5>. QED  BY <2>1, <2>2, <5>1, <5>3
      <4>2. CASE Empty'
        <5>1. ~Draining' /\ ~Dropping'
          BY <4>2 DEF Draining, Dropping, Empty, OutOfReset
        <5>2. Held' = <<NoPacket, 0>>
          BY <4>2 DEF HeldInv
        <5>. QED  BY <2>1, <5>1, <5>2
      <4>. QED  BY <2>1, <2>6, <4>1, <4>2
    <3>. QED  BY <1>1, <1>2, <2>1, <2>2, <2>3, <2>4, <2>5, <2>6, <3>1 DEF P!PctFifoClock, NextId
  <2>7. CASE ~in_pct_rdreq
    <3>1. Held' = Held
      <4>1. CASE Draining'
        <5>1. Held' = <<Pct', Taken'>>
          BY <4>1 DEF HeldInv, Pct
        <5>2. Taken' = Taken
          <6>1. ~Dropping' /\ ~Empty'
            BY <4>1 DEF Draining, Dropping, Empty, OutOfReset
          <6>. QED  BY <2>1, <2>2, <2>7, <6>1
        <5>. QED  BY <2>1, <2>4, <5>1, <5>2
      <4>2. CASE Dropping'
        <5>1. Held' = <<Pct', 1>> /\ Taken = 1
          <6>1. ~Draining'
            BY <4>2 DEF Draining, Dropping, OutOfReset
          <6>. QED  BY <2>1, <2>7, <4>2, <6>1 DEF HeldInv, Pct
        <5>. QED  BY <2>1, <2>4, <5>1
      <4>. QED  BY <2>1, <2>7, <4>1, <4>2
    <3>. QED  BY <1>1, <1>2, <2>1, <2>2, <2>3, <2>4, <2>5, <2>7, <3>1 DEF P!PctFifoClock, NextId
  <2>. QED  BY <2>6, <2>7
<1>7. CASE Dropping
  <2>1. /\ Empty' /\ ~pct_rdy' /\ inst1_q' = inst1_q /\ Pct' = Pct /\ ~in_pct_reset_n_req
    BY <1>0, <1>7, DroppingNext DEF Dropping
  <2>2. Held' = <<NoPacket, 0>> /\ NextId' = NextId
    BY <1>7, <2>1 DEF HeldInv, Pct
  <2>. QED  BY <1>1, <1>2, <2>1, <2>2 DEF P!PctFifoClock, NextId
<1>. QED  BY <1>3, <1>4, <1>5, <1>6, <1>7 DEF FrontInv

\* one_pct_fifo and pct_separate_fsm, with p2d_wr_fsm behind them, are the packet FIFO
\* that the packet buffers are shown to work with: each packet of the host is offered
\* once, whole and in order, given out word by word, and lost only when cleared.
THEOREM FrontIsPctFifo == Spec => RefinesPctFifo
<1>1. Init => P!PctFifoInit
  <2>. SUFFICES ASSUME Init PROVE P!PctFifoInit
    OBVIOUS
  <2>1. inst1 = <<>> /\ pct_words = ALL_ONES /\ pct_rdy = FALSE /\ inst1_q = <<NoPacket, 0>> /\ offered = 0
    BY DEF Init, OnePctInit
  <2>2. ~Offering
    BY <2>1 DEF Offering
  <2>3. Held = <<NoPacket, 0>>
    BY <2>1, <2>2 DEF Held, HeldWord
  <2>. QED  BY <2>1, <2>2, <2>3 DEF P!PctFifoInit, P!NoPacket, NoPacket
<1>2. FrontInv /\ FrontInv' /\ HeldInv /\ HeldInv' /\ [Next]_vars
         => [P!PctFifoClock(in_pct_rdreq, in_pct_reset_n_req)]_vars
  BY ClockRefines DEF Next
<1>. QED  BY <1>1, <1>2, HeldPacket, FrontPhases, PTL DEF Spec, RefinesPctFifo
=============================================================================
