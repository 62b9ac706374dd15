------------------------ MODULE Packets2Data_proofs ------------------------
(***************************************************************************)
(* Proofs about Packets2Data, for every ring size, packet size, set of     *)
(* packets and bound.                                                      *)
(***************************************************************************)
EXTENDS Packets2Data, TLAPS

\* The ring counters stay inside the ring.
LEMMA NextBufferType == \A i \in Buffers : NextBuffer(i) \in Buffers
  BY BuffCountAssumption DEF NextBuffer, Buffers

\* A buffer exists: the registers after reset point at it.
LEMMA ZeroIsBuffer == 0 \in Buffers
  BY BuffCountAssumption DEF Buffers

\* Words and sizes of packets.
LEMMA PayloadWordsType ==
    \A s \in 0 .. MAX_PAYLOAD : PayloadWords(s) \in 0 .. MAX_PAYLOAD
  BY MaxPayloadAssumption DEF PayloadWords

LEMMA PctWordsType == \A p \in PctType : PctWords(p) \in Nat
  BY PayloadWordsType, MaxPayloadAssumption DEF PctWords, PctType

\* A pipeline of the comparators stays three stages of Booleans.
LEMMA PipeInType == \A p \in Pipe, a \in BOOLEAN : PipeIn(p, a) \in Pipe
  BY DEF PipeIn, Pipe

\* What leaves the pipeline is an answer.
LEMMA PipeOutType == \A p \in Pipe : PipeOut(p) \in BOOLEAN
  BY DEF PipeOut, Pipe

LEMMA NoPacketType == NoPacket \in PctType
  BY MaxPayloadAssumption DEF NoPacket, PctType

-----------------------------------------------------------------------------

LEMMA TypeInit == Init => TypeOK
<1> SUFFICES ASSUME Init PROVE TypeOK
  OBVIOUS
<1>1. WrTypeOK
  <2>1. pct_data \in PctType \X Nat
    BY NoPacketType DEF Init, WrInit
  <2> QED
    BY <2>1, ZeroIsBuffer, NoPacketType
    DEF Init, WrInit, WrTypeOK, WrStates, EmptyPipe, Pipe
<1>2. RdTypeOK
  BY ZeroIsBuffer, NoPacketType, MaxPayloadAssumption
  DEF Init, RdInit, RdTypeOK, RdStates, EmptyPipe, Pipe
<1>3. EnvTypeOK
  <2>1. in_pct_data \in PctType \X Nat
    BY NoPacketType DEF Init, PctFifoInit
  <2> QED
    BY <2>1, NoPacketType DEF Init, PctFifoInit, EnvTypeOK
<1>4. RegTypeOK
  BY DEF Init, RegTypeOK
<1> QED
  BY <1>1, <1>2, <1>3, <1>4 DEF TypeOK

LEMMA TypeNext == TypeOK /\ [Next]_vars => TypeOK'
<1> SUFFICES ASSUME TypeOK, [Next]_vars PROVE TypeOK'
  OBVIOUS
<1>1. CASE UNCHANGED vars
  BY <1>1 DEF TypeOK, WrTypeOK, RdTypeOK, EnvTypeOK, RegTypeOK, vars, wrVars,
              rdVars, pctVars, buffVars, regVars, portVars, histVars
<1>2. CASE Next
  <2> PICK synced \in Crossings : Clock(synced)
    BY <1>2 DEF Next
  <2>1. WrTypeOK'
    <3>1. wr_state' \in WrStates
      BY DEF Clock, WrClock, WrFsm, WrIdle, WrRdHdr, WrWaitCmprPipe, WrCheckSmplNr,
             WrClrFifo, WrSwitchNextBuff, WrRdPct, WrWaitWrEnd, WrCheckNextBuf,
             WrSwitchCurrentBuff, WrStates
    <3>2. /\ current_buff_cnt' \in Buffers /\ next_buff_cnt' \in Buffers
          /\ current_buff_rdy' \in BOOLEAN /\ next_buff_rdy' \in BOOLEAN
      BY NextBufferType
      DEF Clock, WrClock, WrBuffSel, TypeOK, WrTypeOK, RegTypeOK
    <3>3. /\ wr_rd_cnt' \in Nat /\ pipe_cnt' \in Nat
          /\ pct_data_wrreq_cnt' \in Nat
          /\ in_pct_rdreq' \in BOOLEAN /\ in_pct_data_valid' \in BOOLEAN
          /\ in_pct_reset_n_req' \in BOOLEAN
      BY DEF Clock, WrClock, WrCounters, WrRequests, TypeOK, WrTypeOK
    <3>4. /\ pct_hdr' \in PctType /\ wr_rd_cnt_max' \in Nat
          /\ pct_hdr_valid' \in SUBSET Buffers
      BY PctWordsType
      DEF Clock, WrClock, WrOutReg, TypeOK, WrTypeOK, EnvTypeOK
    <3>5. pct_data' \in PctType \X Nat /\ pct_data_wrreq' \in SUBSET Buffers
      BY DEF Clock, WrClock, WrOutReg, TypeOK, WrTypeOK, EnvTypeOK
    <3>6. wr_smpl_nr_less' \in Pipe
      <4>1. (pct_hdr.nr < sample_nr) \in BOOLEAN
        OBVIOUS
      <4> QED
        BY <4>1, PipeInType DEF Clock, WrClock, WrCompare, TypeOK, WrTypeOK
    <3> QED
      BY <3>1, <3>2, <3>3, <3>4, <3>5, <3>6 DEF WrTypeOK
  <2>2. RdTypeOK'
    <3>1. rd_state' \in RdStates
      BY DEF Clock, RdClock, RdFsm, RdIdle, RdClrBuff, RdBuff, RdHold,
             RdSwitchNextBuff, RdCheckNextBuf, RdStates
    <3>2. pct_hdr_array' \in [Buffers -> PctType]
      BY DEF Clock, RdClock, RdHeaderCapture, TypeOK, WrTypeOK, RdTypeOK
    <3>3. /\ rd_smpl_nr_equal' \in [Buffers -> Pipe]
          /\ rd_smpl_nr_less' \in [Buffers -> Pipe]
      <4>1. \A i \in Buffers : /\ (pct_hdr_array[i].nr = sample_nr) \in BOOLEAN
                               /\ (pct_hdr_array[i].nr < sample_nr) \in BOOLEAN
        OBVIOUS
      <4>2. \A i \in Buffers :
               /\ PipeIn(rd_smpl_nr_equal[i], pct_hdr_array[i].nr = sample_nr) \in Pipe
               /\ PipeIn(rd_smpl_nr_less[i], pct_hdr_array[i].nr < sample_nr) \in Pipe
        BY <4>1, PipeInType DEF TypeOK, RdTypeOK
      <4> QED
        BY <4>2, Zenon DEF Clock, RdClock, RdCompare
    <3>4. /\ crnt_buff_cnt' \in Buffers /\ crnt_buff_rdy' \in BOOLEAN
          /\ crnt_buff_pct_synch_dis' \in BOOLEAN
          /\ crnt_buff_pct_smpl_nr_equal' \in BOOLEAN
          /\ crnt_buff_pct_smpl_nr_less' \in BOOLEAN
          /\ crnt_buff_payload_size' \in 0 .. MAX_PAYLOAD
      BY NextBufferType, PipeOutType
      DEF Clock, RdClock, RdBuffSel, TypeOK, RdTypeOK, RegTypeOK, PctType
    <3>5. rd_cnt' \in Nat /\ rd_cnt_max' \in 0 .. MAX_PAYLOAD
      BY PayloadWordsType DEF Clock, RdClock, RdCounters, TypeOK, RdTypeOK
    <3> QED
      BY <3>1, <3>2, <3>3, <3>4, <3>5 DEF RdTypeOK
  <2>3. EnvTypeOK'
    <3>1. pct' \in PctType /\ pct_used' \in Nat /\ next_id' \in Nat
      <4>1. \A p \in PACKETS, n \in Nat : WithId(p, n) \in PctType
        BY PacketsAssumption DEF WithId, PctType
      <4> QED
        BY <4>1, NoPacketType
        DEF Clock, PctFifoClock, PctFifoArrival, TypeOK, EnvTypeOK
    <3>2. in_pct_rdy' \in BOOLEAN /\ in_pct_data' \in PctType \X Nat
      BY DEF Clock, PctFifoClock, TypeOK, EnvTypeOK
    <3>3. sample_nr' \in Nat /\ almost_full' \in BOOLEAN /\ landing' \in BOOLEAN
      <4>1. sample_nr' \in Nat
        BY DEF Clock, PortClock, TypeOK, EnvTypeOK
      <4>2. almost_full' \in BOOLEAN
        BY Zenon DEF Clock, PortClock
      <4>3. landing' \in BOOLEAN
        BY Zenon DEF Clock, PortClock
      <4> QED
        BY <4>1, <4>2, <4>3
    <3> QED
      BY <3>1, <3>2, <3>3 DEF EnvTypeOK
  <2>4. RegTypeOK'
    <3>1. pct_buff_size' \in [Buffers -> {-1} \cup 0 .. MAX_PAYLOAD]
      <4>1. BuffSize \in 0 .. MAX_PAYLOAD
        BY MaxPayloadAssumption DEF BuffSize, TypeOK, EnvTypeOK, PctType
      <4> QED
        BY <4>1 DEF Clock, RegClock, TypeOK, RegTypeOK
    <3>2. /\ pct_buff_rdy' \in [Buffers -> BOOLEAN]
          /\ smpl_buff_valid_int' \in BOOLEAN /\ smpl_buff_valid' \in BOOLEAN
          /\ in_pct_clr_flag' \in BOOLEAN
      BY DEF Clock, RegClock, TypeOK, RegTypeOK
    <3>3. wrempty' \in [Buffers -> BOOLEAN]
      BY DEF Clock, BuffClock, TypeOK, RegTypeOK
    <3>4. pct_data_clr' \in SUBSET Buffers
      BY DEF Clock, RegClock, RdClearing, TypeOK, RdTypeOK
    <3> QED
      BY <3>1, <3>2, <3>3, <3>4 DEF RegTypeOK
  <2> QED
    BY <2>1, <2>2, <2>3, <2>4 DEF TypeOK
<1> QED
  BY <1>1, <1>2

\* The registers and the environment stay within their types: in particular the
\* ring counters never point outside the ring.
THEOREM TypeCorrect == Spec => []TypeOK
  BY TypeInit, TypeNext, PTL DEF Spec

-----------------------------------------------------------------------------
(* The decision of the write FSM.                                          *)

\* A packet of whole 128-bit words has at least one payload word.
LEMMA AtLeastTwoWords ==
    ASSUME NEW p \in PctType, p.size % 2 = 0
    PROVE  PctWords(p) >= 2
<1>1. PayloadWords(p.size) \in Nat /\ PayloadWords(p.size) % 2 = 0
  BY MaxPayloadAssumption DEF PayloadWords, PctType
<1>2. PayloadWords(p.size) >= 1
  BY MaxPayloadAssumption DEF PayloadWords, PctType
<1> QED
  BY <1>1, <1>2 DEF PctWords

LEMMA WrHeaderInit == Init => WrHeaderInv
  BY DEF Init, WrInit, PctFifoInit, WrHeaderInv, WrQuiet, NoPacket

\* The packet FIFO loses or changes its packet only when it is asked to.
LEMMA PctFifoStep ==
    ASSUME TypeOK, WrHeaderInv, NEW synced, Clock(synced)
    PROVE  /\ pct'.size % 2 = 0
           /\ ~in_pct_rdreq /\ in_pct_reset_n_req /\ pct # NoPacket =>
                  pct' = pct /\ pct_used' = pct_used
           /\ ~in_pct_rdreq /\ in_pct_rdy' => pct' # NoPacket /\ pct_used' = 0
           /\ in_pct_rdreq /\ Offered =>
                  pct' = pct /\ pct_used' = 1 /\ in_pct_data' = <<pct, 0>>
<1>1. pct'.size % 2 = 0
  <2>1. NoPacket.size % 2 = 0
    BY DEF NoPacket
  <2> QED
    BY <2>1, PacketsAssumption
    DEF Clock, PctFifoClock, PctFifoArrival, WithId, WrHeaderInv
<1>2. ~in_pct_rdreq /\ in_pct_reset_n_req /\ pct # NoPacket =>
          pct' = pct /\ pct_used' = pct_used
  BY DEF Clock, PctFifoClock
<1>3. ~in_pct_rdreq /\ in_pct_rdy' => pct' # NoPacket /\ pct_used' = 0
  BY DEF Clock, PctFifoClock
<1>4. in_pct_rdreq /\ Offered =>
          pct' = pct /\ pct_used' = 1 /\ in_pct_data' = <<pct, 0>>
  <2>1. PctWords(pct) >= 2 /\ PctWords(pct) \in Nat
    BY AtLeastTwoWords, PctWordsType DEF TypeOK, EnvTypeOK, WrHeaderInv
  <2> QED
    BY <2>1 DEF Clock, PctFifoClock, Offered
<1> QED
  BY <1>1, <1>2, <1>3, <1>4

\* The comparator pipeline: an answer that was valid stays valid, since the
\* sample counter never counts down, and a new one is added at the front.
LEMMA CompareStep ==
    ASSUME TypeOK, NEW synced, Clock(synced), NEW n \in 0 .. 2, LateFrom(n),
           pct_hdr' = pct_hdr
    PROVE  LateFrom(n + 1)'
<1>1. sample_nr \in Nat /\ sample_nr' \in Nat /\ sample_nr' >= sample_nr
  BY DEF Clock, PortClock, TypeOK, EnvTypeOK
<1>2. pct_hdr.nr \in Nat
  BY DEF TypeOK, WrTypeOK, PctType
<1>3. wr_smpl_nr_less' =
          <<pct_hdr.nr < sample_nr, wr_smpl_nr_less[1], wr_smpl_nr_less[2]>>
  BY DEF Clock, WrClock, WrCompare, PipeIn
<1> SUFFICES ASSUME NEW k \in 1 .. n + 1, wr_smpl_nr_less'[k]
             PROVE  pct_hdr'.nr < sample_nr'
  BY DEF LateFrom
<1>4. CASE k = 1
  <2>1. wr_smpl_nr_less'[1] = (pct_hdr.nr < sample_nr)
    BY <1>3
  <2>2. wr_smpl_nr_less'[1]
    BY <1>4
  <2>3. pct_hdr.nr < sample_nr
    BY <2>1, <2>2, Zenon
  <2> QED
    BY <1>1, <1>2, <2>3
<1>5. CASE k = 2
  BY <1>1, <1>2, <1>3, <1>5 DEF LateFrom
<1>6. CASE k = 3
  BY <1>1, <1>2, <1>3, <1>6 DEF LateFrom
<1> QED
  BY <1>4, <1>5, <1>6

LEMMA WrHeaderNext == TypeOK /\ WrHeaderInv /\ [Next]_vars => WrHeaderInv'
<1> SUFFICES ASSUME TypeOK, WrHeaderInv, [Next]_vars PROVE WrHeaderInv'
  OBVIOUS
<1>1. CASE UNCHANGED vars
  BY <1>1 DEF WrHeaderInv, WrQuiet, Offered, HeaderRead, LateFrom, vars, wrVars,
              pctVars, portVars
<1>2. CASE Next
  <2> PICK synced \in Crossings : Clock(synced)
    BY <1>2 DEF Next
  <2>0. /\ in_pct_rdreq \in BOOLEAN /\ in_pct_data_valid \in BOOLEAN
        /\ in_pct_reset_n_req \in BOOLEAN /\ pct_data_wrreq_cnt \in Nat
    BY DEF TypeOK, WrTypeOK
  <2>1. WrFsm(in_pct_rdy, SYNC_DIS)
    BY DEF Clock, WrClock
  <2>2. /\ in_pct_rdreq' = (wr_state \in {"rd_pct", "rd_hdr"})
        /\ in_pct_reset_n_req' = (wr_state # "clr_fifo")
        /\ in_pct_data_valid' = in_pct_rdreq
        /\ pct_data_wrreq_cnt' = IF in_pct_data_valid THEN pct_data_wrreq_cnt + 1
                                 ELSE IF wr_state = "idle" THEN 0
                                 ELSE pct_data_wrreq_cnt
        /\ pipe_cnt' = IF wr_state = "wait_cmpr_pipe" THEN pipe_cnt + 1 ELSE 0
    BY DEF Clock, WrClock, WrRequests, WrCounters
  <2>3. ~HeaderArrives => pct_hdr' = pct_hdr
    BY DEF Clock, WrClock, WrOutReg
  <2>4. /\ pct'.size % 2 = 0
        /\ ~in_pct_rdreq /\ in_pct_reset_n_req /\ pct # NoPacket =>
               pct' = pct /\ pct_used' = pct_used
        /\ ~in_pct_rdreq /\ in_pct_rdy' => pct' # NoPacket /\ pct_used' = 0
        /\ in_pct_rdreq /\ Offered =>
               pct' = pct /\ pct_used' = 1 /\ in_pct_data' = <<pct, 0>>
    BY PctFifoStep
  <2>5. CASE WrIdle(in_pct_rdy)
    BY <2>2, <2>4, <2>5
    DEF WrIdle, WrHeaderInv, WrQuiet, Offered
  <2>6. CASE WrRdHdr
    BY <2>2, <2>4, <2>6
    DEF WrRdHdr, WrHeaderInv, WrQuiet, Offered
  <2>7. CASE WrWaitCmprPipe
    <3>1. CASE pipe_cnt = 0
      <4>1. pct_data_wrreq_cnt = 0 /\ Offered /\ in_pct_rdreq /\ ~in_pct_data_valid
        BY <2>7, <3>1 DEF WrWaitCmprPipe, WrHeaderInv
      <4>2. /\ wr_state' = "wait_cmpr_pipe" /\ pipe_cnt' = 1
            /\ ~in_pct_rdreq' /\ in_pct_data_valid' /\ pct_data_wrreq_cnt' = 0
        BY <2>0, <2>2, <2>7, <3>1, <4>1 DEF WrWaitCmprPipe
      <4>3. HeaderRead' /\ in_pct_data' = <<pct', 0>>
        BY <2>2, <2>4, <2>7, <4>1 DEF WrWaitCmprPipe, Offered, HeaderRead
      <4> QED
        BY <2>4, <4>2, <4>3 DEF WrHeaderInv
    <3>2. CASE pipe_cnt = 1
      <4>1. /\ pct_data_wrreq_cnt = 0 /\ HeaderRead
            /\ ~in_pct_rdreq /\ in_pct_data_valid /\ in_pct_data = <<pct, 0>>
        BY <2>7, <3>2 DEF WrWaitCmprPipe, WrHeaderInv
      <4>2. pct_hdr' = pct
        BY <4>1 DEF Clock, WrClock, WrOutReg, HeaderArrives
      <4>3. LateFrom(0)'
        BY DEF LateFrom
      <4>4. wr_state' = "wait_cmpr_pipe" /\ pipe_cnt' = 2
        BY <2>2, <2>7, <3>2 DEF WrWaitCmprPipe
      <4>5. WrQuiet' /\ HeaderRead' /\ pct' = pct
        BY <2>2, <2>4, <2>7, <4>1 DEF WrWaitCmprPipe, WrQuiet, HeaderRead
      <4> QED
        BY <2>4, <4>2, <4>3, <4>4, <4>5 DEF WrHeaderInv
    <3>3. CASE pipe_cnt \in 2 .. 4
      <4> PICK n \in 0 .. 2 : pipe_cnt = n + 2
        BY <3>3
      <4>1. WrQuiet /\ HeaderRead /\ pct_hdr = pct /\ LateFrom(n)
        BY <2>7, <3>3 DEF WrWaitCmprPipe, WrHeaderInv
      <4>2. pct_hdr' = pct_hdr
        BY <2>3, <4>1 DEF HeaderArrives, WrQuiet
      <4>3. LateFrom(n + 1)'
        BY <4>1, <4>2, CompareStep
      <4>4. WrQuiet' /\ HeaderRead' /\ pct' = pct /\ pct_hdr' = pct'
        BY <2>2, <2>4, <2>7, <4>1, <4>2 DEF WrWaitCmprPipe, WrQuiet, HeaderRead
      <4>5. CASE n = 2
        <5>1. LateFrom(3)'
          BY <4>3, <4>5
        <5>2. wr_state' = "check_smpl_nr"
          BY <2>7, <4>5 DEF WrWaitCmprPipe
        <5> QED
          BY <2>4, <4>4, <5>1, <5>2 DEF WrHeaderInv
      <4>6. CASE n \in 0 .. 1
        <5>1. wr_state' = "wait_cmpr_pipe" /\ pipe_cnt' = n + 3
          BY <2>2, <2>7, <4>6 DEF WrWaitCmprPipe
        <5>2. LateFrom(pipe_cnt - 2)'
          <6>1. pipe_cnt' - 2 = n + 1
            BY <5>1
          <6> QED
            BY <4>3, <6>1 DEF LateFrom
        <5> QED
          BY <2>4, <4>4, <4>6, <5>1, <5>2 DEF WrHeaderInv
      <4> QED
        BY <4>5, <4>6
    <3> QED
      BY <2>7, <3>1, <3>2, <3>3 DEF WrWaitCmprPipe, WrHeaderInv
  <2>8. CASE WrCheckSmplNr(SYNC_DIS)
    <3>1. wr_state = "check_smpl_nr" /\ WrQuiet /\ HeaderRead /\ pct_hdr = pct
          /\ LateFrom(3)
      BY <2>8 DEF WrCheckSmplNr, WrHeaderInv
    <3>2. pct_hdr' = pct_hdr
      BY <2>3, <3>1 DEF HeaderArrives, WrQuiet
    <3>3. LateFrom(3)'
      <4>1. LateFrom(2)
        BY <3>1 DEF LateFrom
      <4>2. LateFrom(2 + 1)'
        BY <3>2, <4>1, CompareStep
      <4> QED
        BY <4>2 DEF LateFrom
    <3>4. WrQuiet' /\ HeaderRead' /\ pct' = pct /\ pct_hdr' = pct'
      BY <2>0, <2>2, <2>4, <3>1, <3>2 DEF WrQuiet, HeaderRead
    <3>5. wr_state' \in {"clr_fifo", "switch_next_buff", "check_smpl_nr"}
      BY <2>8 DEF WrCheckSmplNr
    <3> QED
      BY <2>4, <3>3, <3>4, <3>5 DEF WrHeaderInv
  <2>9. CASE WrClrFifo
    <3>1. pct_used = 1
      BY <2>9 DEF WrClrFifo, WrHeaderInv, HeaderRead
    <3>2. ~in_pct_rdy'
      <4>1. pct_used # 0
        BY <3>1
      <4>2. in_pct_rdy' = (pct # NoPacket /\ pct_used = 0 /\ in_pct_reset_n_req)
        BY Zenon DEF Clock, PctFifoClock
      <4> QED
        BY <4>1, <4>2, Zenon
    <3> QED
      BY <2>2, <2>4, <2>9, <3>2 DEF WrClrFifo, WrHeaderInv, WrQuiet
  <2>10. CASE WrSwitchNextBuff
    BY <2>4, <2>10 DEF WrSwitchNextBuff, WrHeaderInv
  <2>11. CASE WrRdPct
    BY <2>4, <2>11 DEF WrRdPct, WrHeaderInv
  <2>12. CASE WrWaitWrEnd
    BY <2>2, <2>4, <2>12 DEF WrWaitWrEnd, WrHeaderInv
  <2>13. CASE WrCheckNextBuf
    BY <2>2, <2>4, <2>13 DEF WrCheckNextBuf, WrHeaderInv, WrQuiet
  <2>14. CASE WrSwitchCurrentBuff
    BY <2>2, <2>4, <2>14
    DEF WrSwitchCurrentBuff, WrHeaderInv, WrQuiet, Offered
  <2> QED
    BY <2>1, <2>5, <2>6, <2>7, <2>8, <2>9, <2>10, <2>11, <2>12, <2>13, <2>14
    DEF WrFsm
<1> QED
  BY <1>1, <1>2

\* The header word and the comparator keep step with the write FSM.
THEOREM HeaderInStep == Spec => []WrHeaderInv
<1>1. Init => TypeOK /\ WrHeaderInv
  BY TypeInit, WrHeaderInit
<1>2. (TypeOK /\ WrHeaderInv) /\ [Next]_vars => (TypeOK /\ WrHeaderInv)'
  BY TypeNext, WrHeaderNext
<1> QED
  BY <1>1, <1>2, PTL DEF Spec

\* The write FSM has the packet FIFO cleared only on account of the packet in
\* it, which is synchronised and late.
THEOREM DropsOnlyLate == Spec => WrDropsOnlyLate
<1>1. TypeOK /\ WrHeaderInv /\ [Next]_vars =>
          [wr_state' = "clr_fifo" /\ wr_state # "clr_fifo" =>
               /\ pct = pct_hdr /\ pct_used = 1
               /\ ~SYNC_DIS /\ ~pct.dis /\ pct.nr < sample_nr]_vars
  <2> SUFFICES ASSUME WrHeaderInv, Next,
                      wr_state' = "clr_fifo", wr_state # "clr_fifo"
               PROVE  /\ pct = pct_hdr /\ pct_used = 1
                      /\ ~SYNC_DIS /\ ~pct.dis /\ pct.nr < sample_nr
    OBVIOUS
  <2>1. WrFsm(in_pct_rdy, SYNC_DIS)
    BY DEF Next, Clock, WrClock
  <2>2. wr_state = "check_smpl_nr" /\ WrLate(SYNC_DIS)
    BY <2>1 DEF WrFsm, WrIdle, WrRdHdr, WrWaitCmprPipe, WrCheckSmplNr, WrClrFifo,
                WrSwitchNextBuff, WrRdPct, WrWaitWrEnd, WrCheckNextBuf,
                WrSwitchCurrentBuff
  <2>3. HeaderRead /\ pct_hdr = pct /\ LateFrom(3)
    BY <2>2 DEF WrHeaderInv
  <2> QED
    BY <2>2, <2>3 DEF HeaderRead, LateFrom, WrLate, PipeOut
<1> QED
  BY <1>1, TypeCorrect, HeaderInStep, PTL DEF Spec, WrDropsOnlyLate

-----------------------------------------------------------------------------
(* The ring.  The buffers of the packets in the queue follow each other    *)
(* from Oldest to the one before next_buff_cnt.  The last of them may be   *)
(* the one that is filled, the first the one that is read.                 *)

\* Whole 128-bit words, and at least two of them.
Whole(p) == PayloadWords(p.size) % 2 = 0 /\ PayloadWords(p.size) >= 4

\* p2d_rd has begun with the packet in crnt_buff_cnt, and the last word of it is
\* not on the output port.
Sending ==
    \/ rd_state \in {"rd_buff", "rd_hold"}
    \/ rd_state = "switch_next_buff" /\ smpl_buff_valid_int

\* The oldest packet leaves the queue, and the write FSM adds one to it.
Leaves ==
    \/ rd_state = "clr_buff"
    \/ rd_state = "switch_next_buff" /\ smpl_buff_valid_int
Commits == wr_state = "switch_next_buff"
Copying == wr_state \in {"rd_pct", "wait_wr_end"}

\* The buffer of Head(queue): a buffer that was cleared is left a clock later.
Oldest ==
    IF rd_state = "switch_next_buff" /\ ~smpl_buff_valid_int
    THEN NextBuffer(crnt_buff_cnt) ELSE crnt_buff_cnt

\* Steps round the ring from buffer a to buffer i.
Dist(a, i) == IF i >= a THEN i - a ELSE i - a + BUFF_COUNT

\* n is the buffer behind l buffers from a on.
Behind(a, l, n) == n = a + l \/ n = a + l - BUFF_COUNT

InQueue(i) == Dist(Oldest, i) < Len(queue)
IsRead(i) == Sending /\ i = crnt_buff_cnt
IsFilled(i) == Copying /\ i = current_buff_cnt

QueueType ==
    /\ queue \in Seq(PctType) /\ emitted \in Nat
    /\ buff \in [Buffers -> Seq(Nat \X Int)]
    /\ rdusedw \in [Buffers -> Nat]

\* The write FSM stores a header only where no packet of the queue is: the check of
\* next_buff_rdy saw a buffer that the read side had finished with.
RingInv ==
    /\ Len(queue) <= BUFF_COUNT
    /\ Behind(Oldest, Len(queue), next_buff_cnt)
    /\ wr_state \notin {"rd_pct", "wait_wr_end", "check_next_buf"} =>
           current_buff_cnt = next_buff_cnt /\ Len(queue) < BUFF_COUNT
    /\ Copying => next_buff_cnt = NextBuffer(current_buff_cnt) /\ Len(queue) > 0
    /\ wr_state = "check_next_buf" /\ next_buff_rdy => Len(queue) < BUFF_COUNT

\* Clock u of the copying: words u and u - 1 of the packet are requested and on the
\* output of the packet FIFO, word u - 3 is written to the buffer.
CopyAt(u) ==
    /\ in_pct_rdreq <=> u \in 2 .. wr_rd_cnt_max
    /\ in_pct_data_valid <=> u \in 3 .. wr_rd_cnt_max + 1
    /\ pct_data_wrreq_cnt = IF u >= 3 THEN u - 2 ELSE 1
    /\ u \in 3 .. wr_rd_cnt_max + 1 => in_pct_data = <<pct_hdr, u - 2>>
    /\ pct_data_wrreq = IF u >= 4 THEN {current_buff_cnt} ELSE {}
    /\ u >= 4 => pct_data = <<pct_hdr, u - 3>>
    /\ u <= wr_rd_cnt_max =>
           /\ pct = pct_hdr /\ in_pct_reset_n_req
           /\ pct_used = IF u >= 3 THEN u - 1 ELSE 1
    /\ wr_state = "rd_pct" => u = wr_rd_cnt /\ u < wr_rd_cnt_max
    /\ wr_state = "wait_wr_end" => u >= wr_rd_cnt_max

\* The header of the packet in the packet FIFO is in the registers.
HeaderHeld ==
    \/ wr_state = "wait_cmpr_pipe" /\ pipe_cnt >= 2
    \/ wr_state \in {"check_smpl_nr", "switch_next_buff"}

\* From the header to the last word, p2d_wr_fsm and the packet FIFO agree on the
\* word that is under way.
CopyInv ==
    /\ Whole(pct)
    /\ pct_hdr_valid = IF wr_state = "wait_cmpr_pipe" /\ pipe_cnt = 2
                       THEN {current_buff_cnt} ELSE {}
    /\ wr_state = "wait_cmpr_pipe" /\ pipe_cnt = 2 => in_pct_data = <<pct, 0>>
    /\ wr_state = "rd_hdr" => wr_rd_cnt = 0
    /\ wr_state \in {"wait_cmpr_pipe", "check_smpl_nr", "switch_next_buff"} =>
           wr_rd_cnt = 1
    /\ HeaderHeld => pct_data_wrreq_cnt = 1 /\ wr_rd_cnt_max = PctWords(pct_hdr)
    /\ wr_state = "switch_next_buff" => WrQuiet /\ HeaderRead /\ pct_hdr = pct
    /\ wr_state = "check_next_buf" => ~in_pct_data_valid
    /\ ~Copying => pct_data_wrreq = {}
    /\ Copying => /\ pct_hdr # NoPacket /\ Whole(pct_hdr)
                  /\ wr_rd_cnt_max = PctWords(pct_hdr)
                  /\ \E u \in 1 .. wr_rd_cnt_max + 2 : CopyAt(u)

\* Words of the packet that are in the buffer that is filled.
Written == IF pct_data_wrreq = {} THEN 0 ELSE 2 * (pct_data_wrreq_cnt - 2)

\* A sequence of the words of a packet from lo up to, but not including, hi.
Holds(s, id, lo, hi) ==
    /\ Len(s) = hi - lo
    /\ \A j \in 1 .. hi - lo : s[j] = <<id, lo + j - 1>>

\* The first n stages of the comparators of buffer i are about the header in its
\* slot: the answer in stage k is k clocks old.
AnswersAt(i, n) ==
    \A k \in 1 .. n :
        /\ rd_smpl_nr_equal[i][k] =>
               sample_nr \in pct_hdr_array[i].nr .. pct_hdr_array[i].nr + k
        /\ rd_smpl_nr_less[i][k] => pct_hdr_array[i].nr < sample_nr

Size(i) == PayloadWords(pct_hdr_array[i].size)

\* The header slot, the size register and the comparators of a buffer in the queue
\* are about its packet; for the buffer that is next they are before the commit.
HeaderAt(i) ==
    /\ InQueue(i) =>
           /\ pct_hdr_array[i] = queue[Dist(Oldest, i) + 1]
           /\ pct_buff_size[i] = Size(i) /\ Whole(pct_hdr_array[i])
           /\ AnswersAt(i, 3)
    /\ IsFilled(i) => pct_hdr_array[i] = pct_hdr
    /\ i = current_buff_cnt =>
           /\ HeaderHeld /\ ~(wr_state = "wait_cmpr_pipe" /\ pipe_cnt = 2) =>
                  pct_hdr_array[i] = pct_hdr /\ pct_buff_size[i] = Size(i)
           /\ wr_state = "wait_cmpr_pipe" /\ pipe_cnt >= 4 => AnswersAt(i, 1)
           /\ wr_state = "check_smpl_nr" => AnswersAt(i, 2)
           /\ wr_state = "switch_next_buff" => AnswersAt(i, 3)

WordsAt(i) ==
    /\ ~InQueue(i) => buff[i] = <<>>
    /\ InQueue(i) /\ IsFilled(i) => Holds(buff[i], pct_hdr_array[i].id, 0, Written)
    /\ InQueue(i) /\ IsRead(i) => Holds(buff[i], pct_hdr_array[i].id, rd_cnt, Size(i))
    /\ InQueue(i) /\ ~IsFilled(i) /\ ~IsRead(i) =>
           Holds(buff[i], pct_hdr_array[i].id, 0, Size(i))

\* What the sides of a buffer know of each other.  The count of the read side is too
\* small at most, so that a buffer which is ready holds its packet; a buffer with
\* a packet does not look empty to the write side once the packet is complete.
CountsAt(i) ==
    /\ rdusedw[i] <= Len(buff[i])
    /\ IsRead(i) => rdusedw[i] = Len(buff[i])
    /\ InQueue(i) /\ ~IsFilled(i) => ~wrempty[i]
    /\ pct_buff_size[i] # 0
    /\ pct_buff_rdy[i] /\ ~IsRead(i) => rdusedw[i] = pct_buff_size[i]

BuffersInv == \A i \in Buffers : HeaderAt(i) /\ WordsAt(i) /\ CountsAt(i)

Due(p) == SYNC_DIS \/ p.dis \/ p.nr <= sample_nr

\* From the multiplexers to the output port, p2d_rd is about the oldest packet.
ReadInv ==
    /\ smpl_buff_valid_int => rd_state \in {"rd_buff", "switch_next_buff"}
    /\ Sending \/ rd_state = "clr_buff" =>
           InQueue(crnt_buff_cnt) /\ ~IsFilled(crnt_buff_cnt)
    /\ Sending =>
           /\ crnt_buff_payload_size = Head(queue).size
           /\ rd_cnt_max = PayloadWords(Head(queue).size)
           /\ smpl_buff_valid_int => /\ rd_cnt = emitted + 1
                                     /\ buff_q[crnt_buff_cnt] = <<Head(queue).id, emitted>>
           /\ ~smpl_buff_valid_int => rd_cnt = emitted
           /\ rd_state = "switch_next_buff" => rd_cnt = rd_cnt_max
           /\ rd_state # "switch_next_buff" => rd_cnt < rd_cnt_max
           /\ Due(Head(queue))
    /\ ~Sending => emitted = 0
    /\ rd_state = "clr_buff" => ~SYNC_DIS /\ ~Head(queue).dis /\ Head(queue).nr < sample_nr
    /\ rd_state = "idle" /\ crnt_buff_rdy =>
           /\ InQueue(crnt_buff_cnt) /\ ~IsFilled(crnt_buff_cnt)
           /\ rdusedw[crnt_buff_cnt] = pct_buff_size[crnt_buff_cnt]
           /\ crnt_buff_payload_size = Head(queue).size
           /\ crnt_buff_pct_synch_dis = Head(queue).dis
           /\ crnt_buff_pct_smpl_nr_equal =>
                  sample_nr \in Head(queue).nr .. Head(queue).nr + 4
           /\ crnt_buff_pct_smpl_nr_less => Head(queue).nr < sample_nr

-----------------------------------------------------------------------------
(* Steps round the ring.                                                   *)

LEMMA DistType ==
    ASSUME NEW a \in Buffers, NEW i \in Buffers
    PROVE  Dist(a, i) \in Buffers /\ (Dist(a, i) = 0 <=> i = a)
  BY BuffCountAssumption DEF Dist, Buffers

\* One buffer on, every buffer is one step nearer, but for the one that was left.
LEMMA DistNext ==
    ASSUME NEW a \in Buffers, NEW i \in Buffers
    PROVE  Dist(NextBuffer(a), i) = IF i = a THEN BUFF_COUNT - 1 ELSE Dist(a, i) - 1
  BY BuffCountAssumption DEF Dist, Buffers, NextBuffer

\* The buffer behind l others is l steps away.
LEMMA BehindDist ==
    ASSUME NEW a \in Buffers, NEW n \in Buffers, NEW l \in Nat, l < BUFF_COUNT,
           Behind(a, l, n), NEW i \in Buffers
    PROVE  Dist(a, i) = l <=> i = n
  BY BuffCountAssumption DEF Dist, Buffers, Behind

LEMMA BehindNext ==
    ASSUME NEW a \in Buffers, NEW n \in Buffers, NEW l \in Nat, Behind(a, l, n)
    PROVE  /\ l < BUFF_COUNT => Behind(a, l + 1, NextBuffer(n))
           /\ l > 0 => Behind(NextBuffer(a), l - 1, n)
           /\ l > 0 /\ l <= BUFF_COUNT =>
                 \A i \in Buffers : NextBuffer(i) = n => Dist(a, i) = l - 1
  BY BuffCountAssumption DEF Buffers, Behind, NextBuffer, Dist

\* A packet leaves the queue.
LEMMA QueueTail ==
    ASSUME NEW q \in Seq(PctType), q # <<>>
    PROVE  /\ Tail(q) \in Seq(PctType) /\ Len(Tail(q)) = Len(q) - 1 /\ Len(q) > 0
           /\ \A d \in 1 .. Len(q) - 1 : Tail(q)[d] = q[d + 1]
  OBVIOUS

\* A packet joins it.
LEMMA QueueAppend ==
    ASSUME NEW q \in Seq(PctType), NEW p \in PctType
    PROVE  /\ q \o <<p>> \in Seq(PctType) /\ Len(q \o <<p>>) = Len(q) + 1
           /\ \A d \in 1 .. Len(q) : (q \o <<p>>)[d] = q[d]
           /\ (q \o <<p>>)[Len(q) + 1] = p
  OBVIOUS

LEMMA QueueSame ==
    ASSUME NEW q \in Seq(PctType)
    PROVE  q \o <<>> = q
  OBVIOUS

\* A packet of whole words: its words of 128 bits and of 64.
LEMMA WholeWords ==
    ASSUME NEW p \in PctType, Whole(p)
    PROVE  /\ PctWords(p) \in Nat /\ PctWords(p) >= 3
           /\ 2 * (PctWords(p) - 1) = PayloadWords(p.size)
           /\ PayloadWords(p.size) \in 4 .. MAX_PAYLOAD
<1>1. PayloadWords(p.size) \in 0 .. MAX_PAYLOAD
  BY PayloadWordsType DEF PctType
<1>. QED
  BY <1>1, MaxPayloadAssumption DEF Whole, PctWords

LEMMA WholePackets ==
    /\ Whole(NoPacket)
    /\ \A p \in PACKETS, n \in Nat : Whole(WithId(p, n))
  BY PacketsAssumption, MaxPayloadAssumption DEF Whole, NoPacket, PayloadWords, WithId

-----------------------------------------------------------------------------
(* A clock, seen from the queue.                                           *)

\* Oldest is a buffer.
LEMMA OldestType == TypeOK => Oldest \in Buffers
  BY NextBufferType DEF TypeOK, RdTypeOK, Oldest

\* The packet that is sent or cleared is the oldest.
LEMMA CrntIsHead ==
    ASSUME TypeOK, QueueType, InQueue(crnt_buff_cnt), Oldest = crnt_buff_cnt
    PROVE  /\ queue # <<>> /\ Len(queue) \in Nat /\ Len(queue) > 0
           /\ Head(queue) = queue[1] /\ Head(queue) \in PctType
           /\ Dist(Oldest, crnt_buff_cnt) = 0
  BY DistType DEF TypeOK, RdTypeOK, QueueType, InQueue

\* The read FSM.
LEMMA RdStep ==
    ASSUME TypeOK, ReadInv, NEW synced, Clock(synced)
    PROVE  /\ Sending \/ rd_state = "clr_buff" => Oldest = crnt_buff_cnt
           /\ Leaves => Oldest = crnt_buff_cnt /\ InQueue(crnt_buff_cnt)
                        /\ Oldest' = NextBuffer(Oldest) /\ ~Sending'
           /\ ~Leaves => Oldest' = Oldest
           /\ Sending' <=> (rd_state = "idle" /\ rd_state' = "rd_buff")
                           \/ (Sending /\ ~Leaves)
           /\ Sending' => crnt_buff_cnt' = crnt_buff_cnt /\ Oldest = crnt_buff_cnt
<1>1. /\ crnt_buff_cnt' = IF rd_state = "switch_next_buff"
                          THEN NextBuffer(crnt_buff_cnt) ELSE crnt_buff_cnt
      /\ smpl_buff_valid_int' <=> rd_state = "rd_buff" /\ ~almost_full
      /\ RdFsm(SYNC_DIS, almost_full)
  BY DEF Clock, RdClock, RdBuffSel, RegClock, Reading, RdReq
<1>2. smpl_buff_valid_int => rd_state \in {"rd_buff", "switch_next_buff"}
  BY DEF ReadInv
<1>3. Sending \/ rd_state = "clr_buff" => InQueue(crnt_buff_cnt)
  BY DEF ReadInv
<1>4. Sending \/ rd_state = "clr_buff" => Oldest = crnt_buff_cnt
  BY DEF Sending, Oldest
<1>5. Leaves => Oldest = crnt_buff_cnt /\ InQueue(crnt_buff_cnt)
  BY <1>3, <1>4 DEF Leaves, Sending
<1>6. CASE RdIdle(SYNC_DIS)
  BY <1>1, <1>2, <1>4, <1>5, <1>6 DEF RdIdle, Leaves, Oldest, Sending
<1>7. CASE RdClrBuff
  BY <1>1, <1>2, <1>4, <1>5, <1>7 DEF RdClrBuff, Leaves, Oldest, Sending
<1>8. CASE RdBuff(almost_full)
  BY <1>1, <1>2, <1>4, <1>5, <1>8 DEF RdBuff, Leaves, Oldest, Sending
<1>9. CASE RdHold(almost_full)
  BY <1>1, <1>2, <1>4, <1>5, <1>9 DEF RdHold, Leaves, Oldest, Sending
<1>10. CASE RdSwitchNextBuff
  BY <1>1, <1>2, <1>4, <1>5, <1>10 DEF RdSwitchNextBuff, Leaves, Oldest, Sending
<1>11. CASE RdCheckNextBuf
  BY <1>1, <1>2, <1>4, <1>5, <1>11 DEF RdCheckNextBuf, Leaves, Oldest, Sending
<1>. QED
  BY <1>1, <1>6, <1>7, <1>8, <1>9, <1>10, <1>11 DEF RdFsm

\* A packet leaves the history when the read FSM is done with it.
LEMMA FinishesLeaves ==
    ASSUME TypeOK, QueueType, ReadInv, NEW synced, Clock(synced)
    PROVE  /\ Finishes <=> Leaves
           /\ smpl_buff_valid' <=> smpl_buff_valid_int
<1>1. smpl_buff_valid' <=> smpl_buff_valid_int
  BY DEF Clock, RegClock
<1>2. Leaves => queue # <<>>
  BY RdStep, CrntIsHead
<1>3. CASE Sending
  <2>1. /\ rd_cnt_max = PayloadWords(Head(queue).size)
        /\ smpl_buff_valid_int => rd_cnt = emitted + 1
        /\ rd_state = "switch_next_buff" => rd_cnt = rd_cnt_max
        /\ rd_state # "switch_next_buff" => rd_cnt < rd_cnt_max
    BY <1>3 DEF ReadInv
  <2>2. rd_cnt \in Nat /\ rd_cnt_max \in Nat /\ emitted \in Nat
    BY DEF TypeOK, RdTypeOK, QueueType
  <2>3. PICK w : w = PayloadWords(Head(queue).size)
    OBVIOUS
  <2>4. rd_state # "clr_buff"
    BY <1>3 DEF Sending
  <2>5. smpl_buff_valid_int /\ emitted + 1 >= w <=> smpl_buff_valid_int /\ rd_cnt >= rd_cnt_max
    BY <2>1, <2>2, <2>3
  <2>6. rd_cnt >= rd_cnt_max <=> rd_state = "switch_next_buff"
    BY <2>1, <2>2
  <2>7. Leaves <=> smpl_buff_valid_int /\ rd_cnt >= rd_cnt_max
    BY <2>4, <2>6 DEF Leaves
  <2>8. Finishes <=> queue # <<>> /\ smpl_buff_valid_int /\ emitted + 1 >= w
    BY <1>1, <2>3, <2>4, Zenon DEF Finishes
  <2>. QED
    BY <1>1, <1>2, <2>5, <2>7, <2>8, Zenon
<1>4. CASE ~Sending
  <2>1. ~smpl_buff_valid_int
    BY <1>4 DEF ReadInv, Sending
  <2>2. ~smpl_buff_valid'
    BY <1>1, <2>1
  <2>3. Finishes <=> queue # <<>> /\ rd_state = "clr_buff"
    BY <2>2, Zenon DEF Finishes
  <2>4. Leaves <=> rd_state = "clr_buff"
    BY <2>1 DEF Leaves
  <2>. QED
    BY <1>1, <1>2, <2>3, <2>4, Zenon
<1>. QED
  BY <1>3, <1>4, Zenon

\* The queue after the clock, without the packet that joins it.
Rest == IF Leaves THEN Tail(queue) ELSE queue

\* The packets that stay are in the buffers they were in.
LEMMA RestStep ==
    ASSUME TypeOK, QueueType, ReadInv, RingInv, NEW synced, Clock(synced)
    PROVE  /\ Rest \in Seq(PctType) /\ Len(Rest) \in Nat /\ Len(Rest) <= Len(queue)
           /\ Leaves => Len(Rest) = Len(queue) - 1
           /\ Behind(Oldest', Len(Rest), next_buff_cnt)
           /\ \A i \in Buffers :
                 /\ Dist(Oldest', i) < Len(Rest)
                        <=> InQueue(i) /\ ~(Leaves /\ i = crnt_buff_cnt)
                 /\ Dist(Oldest', i) < Len(Rest) =>
                        Rest[Dist(Oldest', i) + 1] = queue[Dist(Oldest, i) + 1]
<1>1. Oldest \in Buffers /\ next_buff_cnt \in Buffers /\ Len(queue) \in Nat
  BY OldestType DEF TypeOK, WrTypeOK, QueueType
<1>2. Len(queue) <= BUFF_COUNT /\ Behind(Oldest, Len(queue), next_buff_cnt)
  BY DEF RingInv
<1>3. CASE ~Leaves
  BY <1>1, <1>2, <1>3, RdStep DEF Rest, InQueue, QueueType
<1>4. CASE Leaves
  <2>1. /\ Oldest = crnt_buff_cnt /\ Oldest' = NextBuffer(Oldest) /\ queue # <<>>
    BY <1>4, RdStep, CrntIsHead
  <2>2. PICK a, b, q, r, l : /\ a = Oldest /\ b = Oldest' /\ q = queue /\ r = Tail(queue)
                             /\ l = Len(queue)
    OBVIOUS
  <2>3. /\ r \in Seq(PctType) /\ Len(r) = l - 1 /\ l > 0
        /\ \A d \in 1 .. l - 1 : r[d] = q[d + 1]
    BY <2>1, <2>2, QueueTail DEF QueueType
  <2>4. Behind(b, l - 1, next_buff_cnt)
    BY <1>1, <1>2, <2>1, <2>2, <2>3, BehindNext
  <2>5. ASSUME NEW i \in Buffers
        PROVE  /\ Dist(b, i) < l - 1 <=> Dist(a, i) < l /\ i # a
               /\ Dist(b, i) < l - 1 => r[Dist(b, i) + 1] = q[Dist(a, i) + 1]
    <3>1. PICK d, e : d = Dist(a, i) /\ e = Dist(b, i)
      OBVIOUS
    <3>2. d \in Buffers /\ (d = 0 <=> i = a) /\ e = IF i = a THEN BUFF_COUNT - 1 ELSE d - 1
      BY <1>1, <2>1, <2>2, <3>1, DistType, DistNext
    <3>3. BUFF_COUNT \in Nat /\ l \in Nat /\ l <= BUFF_COUNT
      BY <1>1, <1>2, <2>2, BuffCountAssumption
    <3>4. e < l - 1 <=> d < l /\ i # a
      BY <3>2, <3>3 DEF Buffers
    <3>5. e < l - 1 => d \in 1 .. l - 1 /\ e + 1 = d
      BY <3>2, <3>3, <3>4 DEF Buffers
    <3>. QED
      BY <2>3, <3>1, <3>4, <3>5
  <2>6. Rest = r /\ Len(Rest) = l - 1
    BY <1>4, <2>2, <2>3 DEF Rest
  <2>7. /\ Rest \in Seq(PctType) /\ Len(Rest) \in Nat /\ Len(Rest) <= Len(queue)
        /\ Leaves => Len(Rest) = Len(queue) - 1
        /\ Behind(Oldest', Len(Rest), next_buff_cnt)
    BY <1>1, <2>2, <2>3, <2>4, <2>6
  <2>8. ASSUME NEW i \in Buffers
        PROVE  /\ Dist(Oldest', i) < Len(Rest)
                      <=> InQueue(i) /\ ~(Leaves /\ i = crnt_buff_cnt)
               /\ Dist(Oldest', i) < Len(Rest) =>
                      Rest[Dist(Oldest', i) + 1] = queue[Dist(Oldest, i) + 1]
    <3>1. Len(Rest) = l - 1 /\ Rest = r /\ b = Oldest' /\ a = Oldest /\ q = queue
      BY <2>2, <2>6
    <3>2. InQueue(i) <=> Dist(a, i) < l
      BY <2>2 DEF InQueue
    <3>3. ~(Leaves /\ i = crnt_buff_cnt) <=> i # a
      BY <1>4, <2>1, <2>2
    <3>. QED
      BY <2>5, <3>1, <3>2, <3>3
  <2>. QED
    BY <2>7, <2>8
<1>. QED
  BY <1>3, <1>4

\* So are they when a packet joins, which is in the buffer that is next.
LEMMA QueueStep ==
    ASSUME TypeOK, QueueType, ReadInv, RingInv, NEW synced, Clock(synced)
    PROVE  /\ queue' \in Seq(PctType) /\ Len(queue') <= BUFF_COUNT
           /\ queue' = Rest \o IF Commits THEN <<pct_hdr>> ELSE <<>>
           /\ Len(queue') = IF Commits THEN Len(Rest) + 1 ELSE Len(Rest)
           /\ Behind(Oldest', Len(queue'), next_buff_cnt')
           /\ \A i \in Buffers :
                 /\ InQueue(i)' <=> \/ InQueue(i) /\ ~(Leaves /\ i = crnt_buff_cnt)
                                    \/ Commits /\ i = current_buff_cnt
                 /\ InQueue(i) /\ ~(Leaves /\ i = crnt_buff_cnt) =>
                        queue'[Dist(Oldest', i) + 1] = queue[Dist(Oldest, i) + 1]
                 /\ Commits /\ i = current_buff_cnt =>
                        ~InQueue(i) /\ queue'[Dist(Oldest', i) + 1] = pct_hdr
<1>1. /\ Rest \in Seq(PctType) /\ Len(Rest) \in Nat /\ Len(Rest) <= Len(queue)
      /\ Behind(Oldest', Len(Rest), next_buff_cnt)
      /\ \A i \in Buffers :
            /\ Dist(Oldest', i) < Len(Rest) <=> InQueue(i) /\ ~(Leaves /\ i = crnt_buff_cnt)
            /\ Dist(Oldest', i) < Len(Rest) =>
                   Rest[Dist(Oldest', i) + 1] = queue[Dist(Oldest, i) + 1]
  BY RestStep
<1>2. queue' = Rest \o IF Commits THEN <<pct_hdr>> ELSE <<>>
  <2>1. queue' = (IF Finishes THEN Tail(queue) ELSE queue)
                 \o (IF wr_state = "switch_next_buff" THEN <<pct_hdr>> ELSE <<>>)
    BY Zenon DEF Clock, HistClock
  <2>. QED
    BY <2>1, FinishesLeaves, Zenon DEF Rest, Commits
<1>3. next_buff_cnt' = IF Commits THEN NextBuffer(next_buff_cnt) ELSE next_buff_cnt
  BY DEF Clock, WrClock, WrBuffSel, Commits
<1>4. Oldest' \in Buffers /\ Oldest \in Buffers /\ next_buff_cnt \in Buffers
  BY RdStep, OldestType, NextBufferType DEF TypeOK, WrTypeOK
<1>5. PICK b, r, l : b = Oldest' /\ r = Rest /\ l = Len(Rest)
  OBVIOUS
<1>6. Len(queue) \in Nat /\ BUFF_COUNT \in Nat /\ Len(queue) <= BUFF_COUNT
  BY BuffCountAssumption DEF QueueType, RingInv
<1>7. CASE ~Commits
  <2>1. queue' = r
    BY <1>1, <1>2, <1>5, <1>7, QueueSame
  <2>2. /\ queue' = Rest \o IF Commits THEN <<pct_hdr>> ELSE <<>>
        /\ Len(queue') = IF Commits THEN Len(Rest) + 1 ELSE Len(Rest)
        /\ queue' \in Seq(PctType) /\ Len(queue') <= BUFF_COUNT
        /\ Behind(Oldest', Len(queue'), next_buff_cnt')
    BY <1>1, <1>2, <1>3, <1>5, <1>6, <1>7, <2>1
  <2>3. ASSUME NEW i \in Buffers
        PROVE  InQueue(i)' <=> Dist(Oldest', i) < Len(Rest)
    BY <1>5, <2>1 DEF InQueue
  <2>4. ASSUME NEW i \in Buffers
        PROVE  InQueue(i) /\ ~(Leaves /\ i = crnt_buff_cnt) =>
                   queue'[Dist(Oldest', i) + 1] = queue[Dist(Oldest, i) + 1]
    BY <1>1, <1>5, <2>1
  <2>. QED
    BY <1>1, <1>7, <2>2, <2>3, <2>4
<1>8. CASE Commits
  <2>1. current_buff_cnt = next_buff_cnt /\ Len(queue) < BUFF_COUNT
    BY <1>8 DEF RingInv, Commits
  <2>2. queue' = r \o <<pct_hdr>> /\ pct_hdr \in PctType
    BY <1>2, <1>5, <1>8 DEF TypeOK, WrTypeOK
  <2>3. PICK p : p = pct_hdr
    OBVIOUS
  <2>4. /\ queue' \in Seq(PctType) /\ Len(queue') = l + 1
        /\ \A d \in 1 .. l : queue'[d] = r[d]
        /\ queue'[l + 1] = p
    BY <1>1, <1>5, <2>2, <2>3, QueueAppend
  <2>5. l \in Nat /\ l < BUFF_COUNT
    BY <1>1, <1>5, <1>6, <2>1
  <2>6. Behind(b, l + 1, next_buff_cnt')
    BY <1>1, <1>3, <1>4, <1>5, <1>8, <2>5, BehindNext
  <2>7. ASSUME NEW i \in Buffers
        PROVE  /\ InQueue(i)' <=> \/ InQueue(i) /\ ~(Leaves /\ i = crnt_buff_cnt)
                                  \/ Commits /\ i = current_buff_cnt
               /\ InQueue(i) /\ ~(Leaves /\ i = crnt_buff_cnt) =>
                      queue'[Dist(Oldest', i) + 1] = queue[Dist(Oldest, i) + 1]
               /\ Commits /\ i = current_buff_cnt =>
                      ~InQueue(i) /\ queue'[Dist(Oldest', i) + 1] = pct_hdr
    <3>1. PICK e, d : e = Dist(b, i) /\ d = Dist(Oldest, i)
      OBVIOUS
    <3>2. e \in Nat /\ (e = l <=> i = current_buff_cnt)
      <4>1. b \in Buffers /\ next_buff_cnt \in Buffers /\ Behind(b, l, next_buff_cnt)
        BY <1>1, <1>4, <1>5
      <4>2. Dist(b, i) = l <=> i = next_buff_cnt
        BY <2>5, <4>1, BehindDist
      <4>3. Dist(b, i) \in Nat
        BY <4>1, DistType DEF Buffers
      <4>. QED
        BY <2>1, <3>1, <4>2, <4>3
    <3>3. InQueue(i)' <=> e < l + 1
      BY <1>5, <2>4, <3>1 DEF InQueue
    <3>4. e < l + 1 <=> e < l \/ i = current_buff_cnt
      BY <2>5, <3>2
    <3>5. /\ e < l <=> InQueue(i) /\ ~(Leaves /\ i = crnt_buff_cnt)
          /\ e < l => r[e + 1] = queue[d + 1]
      BY <1>1, <1>5, <3>1
    <3>6. e < l => queue'[e + 1] = queue[d + 1]
      BY <2>4, <2>5, <3>2, <3>5
    <3>7. i = current_buff_cnt => ~InQueue(i) /\ queue'[e + 1] = pct_hdr
      <4>1. SUFFICES ASSUME i = current_buff_cnt PROVE ~InQueue(i) /\ queue'[e + 1] = pct_hdr
        OBVIOUS
      <4>2. d = Len(queue)
        BY <1>4, <1>6, <2>1, <3>1, <4>1, BehindDist DEF RingInv
      <4>. QED
        BY <1>6, <2>3, <2>4, <3>1, <3>2, <4>1, <4>2 DEF InQueue
    <3>. QED
      BY <1>5, <1>8, <3>1, <3>3, <3>4, <3>5, <3>6, <3>7
  <2>8. /\ queue' = Rest \o IF Commits THEN <<pct_hdr>> ELSE <<>>
        /\ Len(queue') = IF Commits THEN Len(Rest) + 1 ELSE Len(Rest)
        /\ queue' \in Seq(PctType) /\ Len(queue') <= BUFF_COUNT
        /\ Behind(Oldest', Len(queue'), next_buff_cnt')
    BY <1>2, <1>5, <1>6, <1>8, <2>4, <2>5, <2>6
  <2>. QED
    BY <2>7, <2>8
<1>. QED
  BY <1>7, <1>8

-----------------------------------------------------------------------------
(* The write FSM copies a packet.                                          *)

\* What a clock does to the registers of p2d_wr_fsm.
LEMMA WrRegs ==
    ASSUME NEW synced, Clock(synced)
    PROVE  /\ WrFsm(in_pct_rdy, SYNC_DIS)
           /\ in_pct_rdreq' <=> wr_state \in {"rd_pct", "rd_hdr"}
           /\ in_pct_reset_n_req' <=> wr_state # "clr_fifo"
           /\ in_pct_data_valid' <=> in_pct_rdreq
           /\ pct_data_wrreq_cnt' = IF in_pct_data_valid THEN pct_data_wrreq_cnt + 1
                                    ELSE IF wr_state = "idle" THEN 0
                                    ELSE pct_data_wrreq_cnt
           /\ pipe_cnt' = IF wr_state = "wait_cmpr_pipe" THEN pipe_cnt + 1 ELSE 0
           /\ wr_rd_cnt' = CASE wr_state \in {"rd_pct", "rd_hdr"} -> wr_rd_cnt + 1
                             [] wr_state = "idle" -> 0
                             [] OTHER -> wr_rd_cnt
           /\ current_buff_cnt' = IF wr_state = "check_next_buf"
                                  THEN next_buff_cnt ELSE current_buff_cnt
           /\ next_buff_cnt' = IF wr_state = "switch_next_buff"
                               THEN NextBuffer(next_buff_cnt) ELSE next_buff_cnt
           /\ next_buff_rdy' = wrempty[next_buff_cnt]
  BY DEF Clock, WrClock, WrRequests, WrCounters, WrBuffSel

\* What it does to the output registers, for a header and for a word behind it.
LEMMA WrOut ==
    ASSUME NEW synced, Clock(synced)
    PROVE  /\ ~HeaderArrives => /\ pct_hdr' = pct_hdr /\ wr_rd_cnt_max' = wr_rd_cnt_max
                                /\ pct_hdr_valid' = {}
           /\ HeaderArrives => /\ pct_hdr' = in_pct_data[1]
                               /\ wr_rd_cnt_max' = PctWords(in_pct_data[1])
                               /\ pct_hdr_valid' = {current_buff_cnt}
           /\ ~PayloadArrives => pct_data' = pct_data /\ pct_data_wrreq' = {}
           /\ PayloadArrives => /\ pct_data' = in_pct_data
                                /\ pct_data_wrreq' = {current_buff_cnt}
  BY DEF Clock, WrClock, WrOutReg

\* The packet FIFO gives out one word for each request.
LEMMA PctRead ==
    ASSUME NEW synced, Clock(synced), in_pct_reset_n_req, pct # NoPacket
    PROVE  /\ in_pct_rdreq =>
                  /\ in_pct_data' = <<pct, pct_used>>
                  /\ pct_used + 1 # PctWords(pct) => pct' = pct /\ pct_used' = pct_used + 1
           /\ ~in_pct_rdreq =>
                  pct' = pct /\ pct_used' = pct_used /\ in_pct_data' = in_pct_data
  BY DEF Clock, PctFifoClock

\* The next packet in the packet FIFO is of whole words too.
LEMMA PctWhole ==
    ASSUME NEW synced, Clock(synced), TypeOK, Whole(pct)
    PROVE  Whole(pct')
  BY WholePackets DEF TypeOK, EnvTypeOK, Clock, PctFifoClock, PctFifoArrival

\* From one clock of the copying to the next.
LEMMA CopyStep ==
    ASSUME TypeOK, NEW synced, Clock(synced), Copying,
           pct_hdr # NoPacket, Whole(pct_hdr),
           NEW m, m = wr_rd_cnt_max, m = PctWords(pct_hdr),
           NEW u \in 1 .. m + 2, CopyAt(u), NEW v, v = u + 1
    PROVE  /\ pct_hdr' = pct_hdr /\ wr_rd_cnt_max' = wr_rd_cnt_max /\ pct_hdr_valid' = {}
           /\ current_buff_cnt' = current_buff_cnt
           /\ u <= m + 1 => Copying' /\ CopyAt(v)'
           /\ u = m + 2 => /\ wr_state = "wait_wr_end" /\ wr_state' = "check_next_buf"
                           /\ ~in_pct_data_valid' /\ ~in_pct_rdreq' /\ pct_data_wrreq' = {}
<1>1. m \in Nat /\ m >= 3 /\ u \in Nat /\ u >= 1 /\ u <= m + 2
  BY WholeWords DEF TypeOK, WrTypeOK
<1>2. /\ in_pct_rdreq <=> u >= 2 /\ u <= m
      /\ in_pct_data_valid <=> u >= 3 /\ u <= m + 1
      /\ pct_data_wrreq_cnt = IF u >= 3 THEN u - 2 ELSE 1
      /\ u >= 3 /\ u <= m + 1 => in_pct_data = <<pct_hdr, u - 2>>
      /\ u <= m => /\ pct = pct_hdr /\ in_pct_reset_n_req
                   /\ pct_used = IF u >= 3 THEN u - 1 ELSE 1
  BY <1>1 DEF CopyAt
<1>3. wr_state = "rd_pct" \/ wr_state = "wait_wr_end"
  BY DEF Copying
<1>4. ~HeaderArrives /\ (PayloadArrives <=> u >= 3 /\ u <= m + 1)
  BY <1>1, <1>2 DEF HeaderArrives, PayloadArrives
<1>5. /\ pct_hdr' = pct_hdr /\ wr_rd_cnt_max' = wr_rd_cnt_max /\ pct_hdr_valid' = {}
      /\ current_buff_cnt' = current_buff_cnt
  BY <1>3, <1>4, WrRegs, WrOut
<1>6. /\ in_pct_rdreq' <=> wr_state = "rd_pct"
      /\ in_pct_reset_n_req'
      /\ in_pct_data_valid' <=> u >= 2 /\ u <= m
      /\ pct_data_wrreq_cnt' = IF u >= 2 THEN IF u <= m + 1 THEN u - 1 ELSE u - 2 ELSE 1
  BY <1>1, <1>2, <1>3, WrRegs
<1>7. /\ pct_data_wrreq' = IF u >= 3 /\ u <= m + 1 THEN {current_buff_cnt} ELSE {}
      /\ u >= 3 /\ u <= m + 1 => pct_data' = <<pct_hdr, u - 2>>
  BY <1>2, <1>4, WrOut
<1>8. wr_state = "rd_pct" => u = wr_rd_cnt /\ u < m
  BY DEF CopyAt
<1>9. wr_state = "wait_wr_end" => u >= m
  BY DEF CopyAt
<1>10. ASSUME u <= m + 1
       PROVE  /\ in_pct_data_valid' <=> v \in 3 .. m + 1
              /\ pct_data_wrreq_cnt' = IF v >= 3 THEN v - 2 ELSE 1
              /\ pct_data_wrreq' = IF v >= 4 THEN {current_buff_cnt'} ELSE {}
              /\ v >= 4 => pct_data' = <<pct_hdr', v - 3>>
  <2>1. u >= 2 /\ u <= m <=> v \in 3 .. m + 1
    BY <1>1
  <2>2. (u >= 3 /\ u <= m + 1 <=> v >= 4) /\ u - 2 = v - 3
    BY <1>1, <1>10
  <2>3. pct_data_wrreq_cnt' = IF v >= 3 THEN v - 2 ELSE 1
    BY <1>1, <1>6, <1>10
  <2>. QED
    BY <1>5, <1>6, <1>7, <2>1, <2>2, <2>3, Zenon
<1>11. ASSUME u <= m + 1, Copying',
              in_pct_rdreq' <=> v \in 2 .. m,
              v \in 3 .. m + 1 => in_pct_data' = <<pct_hdr', v - 2>>,
              v <= m => /\ pct' = pct_hdr' /\ in_pct_reset_n_req'
                        /\ pct_used' = IF v >= 3 THEN v - 1 ELSE 1,
              wr_state' = "rd_pct" => v = wr_rd_cnt' /\ v < m,
              wr_state' = "wait_wr_end" => v >= m
       PROVE  CopyAt(v)'
  BY <1>5, <1>10, <1>11, Zenon DEF CopyAt
<1>12. CASE wr_state = "rd_pct"
  <2>1. u < m
    BY <1>8, <1>12
  <2>2. wr_state' = (IF u < m - 1 THEN "rd_pct" ELSE "wait_wr_end") /\ wr_rd_cnt' = u + 1
    BY <1>8, <1>12, WrRegs
    DEF WrFsm, WrIdle, WrRdHdr, WrWaitCmprPipe, WrCheckSmplNr, WrClrFifo, WrSwitchNextBuff,
        WrRdPct, WrWaitWrEnd, WrCheckNextBuf, WrSwitchCurrentBuff
  <2>3. pct = pct_hdr /\ in_pct_reset_n_req /\ pct # NoPacket /\ m = PctWords(pct)
    BY <1>1, <1>2, <2>1
  <2>4. /\ pct' = pct /\ pct_used' = IF u >= 2 THEN u ELSE 1
        /\ u >= 2 => in_pct_data' = <<pct_hdr, u - 1>>
    <3>1. CASE u = 1
      <4>1. ~in_pct_rdreq /\ pct_used = 1
        BY <1>1, <1>2, <2>1, <3>1
      <4>. QED
        BY <2>3, <3>1, <4>1, PctRead
    <3>2. CASE u >= 2
      <4>1. in_pct_rdreq
        BY <1>1, <1>2, <2>1, <3>2
      <4>2. pct_used = u - 1
        BY <1>1, <1>2, <2>1, <3>2
      <4>3. pct_used + 1 = u /\ pct_used + 1 # m
        BY <1>1, <2>1, <4>2
      <4>4. /\ in_pct_data' = <<pct, pct_used>>
            /\ pct' = pct /\ pct_used' = pct_used + 1
        BY <2>3, <4>1, <4>3, PctRead
      <4>. QED
        BY <2>3, <3>2, <4>2, <4>3, <4>4
    <3>. QED
      BY <1>1, <3>1, <3>2
  <2>5. Copying' /\ (wr_state' = "rd_pct" => v = wr_rd_cnt' /\ v < m)
        /\ (wr_state' = "wait_wr_end" => v >= m)
    BY <1>1, <2>1, <2>2 DEF Copying
  <2>6. in_pct_rdreq' <=> v \in 2 .. m
    <3>1. v \in 2 .. m
      BY <1>1, <2>1
    <3>. QED
      BY <1>6, <1>12, <3>1
  <2>7. v \in 3 .. m + 1 => in_pct_data' = <<pct_hdr', v - 2>>
    <3>1. v \in 3 .. m + 1 => u >= 2 /\ u - 1 = v - 2
      BY <1>1
    <3>. QED
      BY <1>5, <2>4, <3>1
  <2>8. /\ pct' = pct_hdr' /\ in_pct_reset_n_req'
        /\ pct_used' = IF v >= 3 THEN v - 1 ELSE 1
    BY <1>1, <1>5, <1>6, <2>3, <2>4
  <2>9. u <= m + 1 /\ u # m + 2
    BY <1>1, <2>1
  <2>10. CopyAt(v)'
    BY <1>11, <2>5, <2>6, <2>7, <2>8, <2>9
  <2>. QED
    BY <1>5, <2>5, <2>9, <2>10
<1>13. CASE wr_state = "wait_wr_end"
  <2>1. u >= m
    BY <1>9, <1>13
  <2>2. wr_state' = IF in_pct_data_valid THEN "wait_wr_end" ELSE "check_next_buf"
    BY <1>13, WrRegs
    DEF WrFsm, WrIdle, WrRdHdr, WrWaitCmprPipe, WrCheckSmplNr, WrClrFifo, WrSwitchNextBuff,
        WrRdPct, WrWaitWrEnd, WrCheckNextBuf, WrSwitchCurrentBuff
  <2>3. CASE u = m + 2
    <3>1. ~in_pct_data_valid /\ ~(u >= 3 /\ u <= m + 1) /\ ~(u >= 2 /\ u <= m) /\ ~(u <= m + 1)
      BY <1>1, <1>2, <2>3
    <3>. QED
      BY <1>5, <1>6, <1>7, <1>13, <2>2, <3>1
  <2>4. CASE u <= m + 1
    <3>1. wr_state' = "wait_wr_end" /\ Copying'
      <4>1. u >= 3 /\ u <= m + 1
        BY <1>1, <2>1, <2>4
      <4>. QED
        BY <1>2, <2>2, <4>1 DEF Copying
    <3>2. v \in 3 .. m + 1 => in_pct_data' = <<pct_hdr', v - 2>>
      <4>1. SUFFICES ASSUME u = m PROVE in_pct_data' = <<pct_hdr', v - 2>>
        BY <1>1, <2>1
      <4>2. pct = pct_hdr /\ in_pct_reset_n_req /\ in_pct_rdreq
        BY <1>1, <1>2, <4>1
      <4>3. pct_used = v - 2
        BY <1>1, <1>2, <4>1
      <4>. QED
        BY <1>5, <4>2, <4>3, PctRead
    <3>3. v > m /\ ~(v \in 2 .. m) /\ ~(v <= m) /\ v >= m
      BY <1>1, <2>1
    <3>4. ~in_pct_rdreq'
      BY <1>6, <1>13
    <3>5. CopyAt(v)'
      BY <1>11, <2>4, <3>1, <3>2, <3>3, <3>4
    <3>6. u # m + 2
      BY <1>1, <2>4
    <3>. QED
      BY <1>5, <2>4, <3>1, <3>5, <3>6
  <2>. QED
    BY <1>1, <2>3, <2>4
<1>. QED
  BY <1>3, <1>12, <1>13

\* The copying starts with the commit.
LEMMA CopyBegins ==
    ASSUME TypeOK, CopyInv, NEW synced, Clock(synced), wr_state = "switch_next_buff"
    PROVE  /\ wr_state' = "rd_pct" /\ pct_hdr_valid' = {}
           /\ pct_hdr' = pct_hdr /\ pct_hdr' # NoPacket /\ Whole(pct_hdr')
           /\ wr_rd_cnt_max' = PctWords(pct_hdr') /\ wr_rd_cnt_max' \in Nat
           /\ CopyAt(1)' /\ pct_data_wrreq' = {}
           /\ current_buff_cnt' = current_buff_cnt
<1>1. /\ ~in_pct_rdreq /\ ~in_pct_data_valid
      /\ pct # NoPacket /\ pct_used = 1 /\ in_pct_reset_n_req /\ pct_hdr = pct
      /\ wr_rd_cnt = 1 /\ pct_data_wrreq_cnt = 1 /\ wr_rd_cnt_max = PctWords(pct_hdr)
      /\ Whole(pct_hdr)
  BY DEF CopyInv, WrQuiet, HeaderRead, HeaderHeld
<1>2. ~HeaderArrives /\ ~PayloadArrives
  BY <1>1 DEF HeaderArrives, PayloadArrives
<1>3. /\ pct_hdr' = pct_hdr /\ wr_rd_cnt_max' = wr_rd_cnt_max /\ pct_hdr_valid' = {}
      /\ pct_data_wrreq' = {}
  BY <1>2, WrOut
<1>4. /\ wr_state' = "rd_pct" /\ current_buff_cnt' = current_buff_cnt
      /\ ~in_pct_rdreq' /\ ~in_pct_data_valid' /\ in_pct_reset_n_req'
      /\ pct_data_wrreq_cnt' = 1 /\ wr_rd_cnt' = 1
  BY <1>1, WrRegs
  DEF WrFsm, WrIdle, WrRdHdr, WrWaitCmprPipe, WrCheckSmplNr, WrClrFifo, WrSwitchNextBuff,
      WrRdPct, WrWaitWrEnd, WrCheckNextBuf, WrSwitchCurrentBuff
<1>5. pct' = pct /\ pct_used' = 1
  BY <1>1, PctRead
<1>6. wr_rd_cnt_max' \in Nat /\ wr_rd_cnt_max' >= 3
  BY <1>1, <1>3, WholeWords DEF TypeOK, WrTypeOK
<1>7. CopyAt(1)'
  <2>1. /\ 1 \notin 2 .. wr_rd_cnt_max' /\ 1 \notin 3 .. wr_rd_cnt_max' + 1
        /\ ~(1 >= 3) /\ ~(1 >= 4) /\ 1 < wr_rd_cnt_max'
    BY <1>6
  <2>. QED
    BY <1>1, <1>3, <1>4, <1>5, <2>1 DEF CopyAt
<1>. QED
  BY <1>1, <1>3, <1>4, <1>6, <1>7

\* The write FSM and the packet FIFO stay in step.
LEMMA CopyNext ==
    ASSUME TypeOK, WrHeaderInv, CopyInv, NEW synced, Clock(synced)
    PROVE  CopyInv'
<1>1. Whole(pct')
  BY PctWhole DEF CopyInv
<1>2. WrFsm(in_pct_rdy, SYNC_DIS)
  BY WrRegs
<1>3. CASE Copying
  <2>1. /\ pct_hdr # NoPacket /\ Whole(pct_hdr) /\ wr_rd_cnt_max = PctWords(pct_hdr)
        /\ \E u \in 1 .. wr_rd_cnt_max + 2 : CopyAt(u)
    BY <1>3 DEF CopyInv
  <2>2. PICK m : m = wr_rd_cnt_max
    OBVIOUS
  <2>3. PICK u \in 1 .. m + 2 : CopyAt(u)
    BY <2>1, <2>2
  <2>4. PICK v : v = u + 1
    OBVIOUS
  <2>5. /\ pct_hdr' = pct_hdr /\ wr_rd_cnt_max' = wr_rd_cnt_max /\ pct_hdr_valid' = {}
        /\ u <= m + 1 => Copying' /\ CopyAt(v)'
        /\ u = m + 2 => /\ wr_state' = "check_next_buf"
                        /\ ~in_pct_data_valid' /\ pct_data_wrreq' = {}
    BY <1>3, <2>1, <2>2, <2>3, <2>4, CopyStep
  <2>6. m \in Nat
    BY <2>2 DEF TypeOK, WrTypeOK
  <2>7. CASE u <= m + 1
    <3>1. v \in 1 .. m + 2
      BY <2>4, <2>6, <2>7
    <3>2. \E w \in 1 .. wr_rd_cnt_max' + 2 : CopyAt(w)'
      BY <2>2, <2>5, <2>7, <3>1
    <3>3. Copying'
      BY <2>5, <2>7
    <3>. QED
      BY <1>1, <2>1, <2>5, <3>2, <3>3 DEF CopyInv, Copying, HeaderHeld
  <2>8. CASE u = m + 2
    BY <1>1, <2>5, <2>8 DEF CopyInv, Copying, HeaderHeld
  <2>. QED
    BY <2>6, <2>7, <2>8
<1>4. CASE WrIdle(in_pct_rdy)
  <2>1. wr_state = "idle" /\ ~in_pct_rdreq /\ ~in_pct_data_valid
    BY <1>4 DEF WrIdle, WrHeaderInv, WrQuiet
  <2>2. wr_state' \in {"idle", "rd_hdr"}
    BY <1>4 DEF WrIdle
  <2>3. pct_hdr_valid' = {} /\ pct_data_wrreq' = {} /\ wr_rd_cnt' = 0
    BY <2>1, WrOut, WrRegs DEF HeaderArrives, PayloadArrives
  <2>. QED
    BY <1>1, <2>2, <2>3 DEF CopyInv, Copying, HeaderHeld
<1>5. CASE WrRdHdr
  <2>1. wr_state = "rd_hdr" /\ ~in_pct_rdreq /\ ~in_pct_data_valid /\ wr_rd_cnt = 0
    BY <1>5 DEF WrRdHdr, WrHeaderInv, WrQuiet, CopyInv
  <2>2. wr_state' = "wait_cmpr_pipe"
    BY <1>5 DEF WrRdHdr
  <2>3. pct_hdr_valid' = {} /\ pct_data_wrreq' = {} /\ wr_rd_cnt' = 1 /\ pipe_cnt' = 0
    BY <2>1, WrOut, WrRegs DEF HeaderArrives, PayloadArrives
  <2>. QED
    BY <1>1, <2>2, <2>3 DEF CopyInv, Copying, HeaderHeld
<1>6. CASE WrWaitCmprPipe
  <2>1. /\ wr_state = "wait_cmpr_pipe" /\ wr_rd_cnt = 1
        /\ wr_state' = IF pipe_cnt > 3 THEN "check_smpl_nr" ELSE "wait_cmpr_pipe"
    BY <1>6 DEF WrWaitCmprPipe, CopyInv
  <2>2. wr_rd_cnt' = 1 /\ pipe_cnt' = pipe_cnt + 1 /\ current_buff_cnt' = current_buff_cnt
    BY <2>1, WrRegs
  <2>3. CASE pipe_cnt = 0
    <3>1. ~in_pct_data_valid
      BY <2>1, <2>3 DEF WrHeaderInv
    <3>2. pct_hdr_valid' = {} /\ pct_data_wrreq' = {}
      BY <3>1, WrOut DEF HeaderArrives, PayloadArrives
    <3>3. wr_state' = "wait_cmpr_pipe" /\ pipe_cnt' = 1
      BY <2>1, <2>2, <2>3
    <3>. QED
      BY <1>1, <2>2, <3>2, <3>3 DEF CopyInv, Copying, HeaderHeld
  <2>4. CASE pipe_cnt = 1
    <3>1. /\ pct_data_wrreq_cnt = 0 /\ pct # NoPacket /\ in_pct_reset_n_req
          /\ ~in_pct_rdreq /\ in_pct_data_valid /\ in_pct_data = <<pct, 0>>
      BY <2>1, <2>4 DEF WrHeaderInv, HeaderRead
    <3>2. HeaderArrives /\ ~PayloadArrives
      BY <3>1 DEF HeaderArrives, PayloadArrives
    <3>3. /\ pct_hdr_valid' = {current_buff_cnt} /\ pct_data_wrreq' = {}
          /\ pct_hdr' = pct /\ wr_rd_cnt_max' = PctWords(pct)
      BY <3>1, <3>2, WrOut
    <3>4. pct' = pct /\ in_pct_data' = <<pct, 0>>
      BY <3>1, PctRead
    <3>5. wr_state' = "wait_cmpr_pipe" /\ pipe_cnt' = 2 /\ pct_data_wrreq_cnt' = 1
      BY <2>1, <2>2, <2>4, <3>1, WrRegs
    <3>. QED
      BY <1>1, <2>2, <3>3, <3>4, <3>5 DEF CopyInv, Copying, HeaderHeld
  <2>5. CASE pipe_cnt \in 2 .. 4
    <3>1. ~in_pct_data_valid
      BY <2>1, <2>5 DEF WrHeaderInv, WrQuiet
    <3>2. /\ pct_hdr_valid' = {} /\ pct_data_wrreq' = {}
          /\ pct_hdr' = pct_hdr /\ wr_rd_cnt_max' = wr_rd_cnt_max
      BY <3>1, WrOut DEF HeaderArrives, PayloadArrives
    <3>3. pct_data_wrreq_cnt = 1 /\ wr_rd_cnt_max = PctWords(pct_hdr)
      BY <2>1, <2>5 DEF CopyInv, HeaderHeld
    <3>4. pct_data_wrreq_cnt' = 1
      BY <2>1, <3>1, <3>3, WrRegs
    <3>5. wr_state' \in {"wait_cmpr_pipe", "check_smpl_nr"} /\ pipe_cnt' # 2
      BY <2>1, <2>2, <2>5
    <3>. QED
      BY <1>1, <2>2, <3>2, <3>3, <3>4, <3>5 DEF CopyInv, Copying, HeaderHeld
  <2>. QED
    BY <2>1, <2>3, <2>4, <2>5 DEF WrHeaderInv
<1>7. CASE WrCheckSmplNr(SYNC_DIS)
  <2>1. /\ wr_state = "check_smpl_nr" /\ wr_rd_cnt = 1 /\ ~in_pct_rdreq /\ ~in_pct_data_valid
        /\ pct # NoPacket /\ pct_used = 1 /\ in_pct_reset_n_req /\ pct_hdr = pct
        /\ pct_data_wrreq_cnt = 1 /\ wr_rd_cnt_max = PctWords(pct_hdr)
    BY <1>7 DEF WrCheckSmplNr, WrHeaderInv, WrQuiet, HeaderRead, CopyInv, HeaderHeld
  <2>2. wr_state' \in {"clr_fifo", "switch_next_buff", "check_smpl_nr"}
    BY <1>7 DEF WrCheckSmplNr
  <2>3. /\ pct_hdr_valid' = {} /\ pct_data_wrreq' = {}
        /\ pct_hdr' = pct_hdr /\ wr_rd_cnt_max' = wr_rd_cnt_max
    BY <2>1, WrOut DEF HeaderArrives, PayloadArrives
  <2>4. /\ wr_rd_cnt' = 1 /\ pct_data_wrreq_cnt' = 1
        /\ ~in_pct_rdreq' /\ ~in_pct_data_valid' /\ in_pct_reset_n_req'
    BY <2>1, WrRegs
  <2>5. pct' = pct /\ pct_used' = 1
    BY <2>1, PctRead
  <2>. QED
    BY <1>1, <2>1, <2>2, <2>3, <2>4, <2>5
    DEF CopyInv, Copying, HeaderHeld, WrQuiet, HeaderRead
<1>8. CASE WrClrFifo
  <2>1. wr_state' = "idle" /\ ~in_pct_data_valid
    BY <1>8 DEF WrClrFifo, WrHeaderInv, WrQuiet
  <2>2. pct_hdr_valid' = {} /\ pct_data_wrreq' = {}
    BY <2>1, WrOut DEF HeaderArrives, PayloadArrives
  <2>. QED
    BY <1>1, <2>1, <2>2 DEF CopyInv, Copying, HeaderHeld
<1>9. CASE WrSwitchNextBuff
  <2>1. /\ wr_state' = "rd_pct" /\ pct_hdr_valid' = {}
        /\ pct_hdr' # NoPacket /\ Whole(pct_hdr')
        /\ wr_rd_cnt_max' = PctWords(pct_hdr') /\ CopyAt(1)'
        /\ wr_rd_cnt_max' \in Nat
    BY <1>9, CopyBegins DEF WrSwitchNextBuff
  <2>2. \E u \in 1 .. wr_rd_cnt_max' + 2 : CopyAt(u)'
    BY <2>1
  <2>. QED
    BY <1>1, <2>1, <2>2 DEF CopyInv, Copying, HeaderHeld
<1>10. CASE WrCheckNextBuf
  <2>1. /\ wr_state = "check_next_buf" /\ ~in_pct_rdreq /\ ~in_pct_data_valid
        /\ wr_state' \in {"switch_current_buff", "check_next_buf"}
    BY <1>10 DEF WrCheckNextBuf, WrHeaderInv, CopyInv
  <2>2. pct_hdr_valid' = {} /\ pct_data_wrreq' = {} /\ ~in_pct_data_valid'
    BY <2>1, WrOut, WrRegs DEF HeaderArrives, PayloadArrives
  <2>. QED
    BY <1>1, <2>1, <2>2 DEF CopyInv, Copying, HeaderHeld
<1>11. CASE WrSwitchCurrentBuff
  <2>1. wr_state' = "idle" /\ ~in_pct_data_valid
    BY <1>11 DEF WrSwitchCurrentBuff, WrHeaderInv, WrQuiet
  <2>2. pct_hdr_valid' = {} /\ pct_data_wrreq' = {}
    BY <2>1, WrOut DEF HeaderArrives, PayloadArrives
  <2>. QED
    BY <1>1, <2>1, <2>2 DEF CopyInv, Copying, HeaderHeld
<1>. QED
  BY <1>2, <1>3, <1>4, <1>5, <1>6, <1>7, <1>8, <1>9, <1>10, <1>11
  DEF WrFsm, WrRdPct, WrWaitWrEnd, Copying

-----------------------------------------------------------------------------
(* The ring.                                                               *)

\* The buffer that is filled is that of the youngest packet.
LEMMA FilledInQueue ==
    ASSUME TypeOK, QueueType, RingInv, Copying
    PROVE  InQueue(current_buff_cnt)
<1>1. /\ Oldest \in Buffers /\ next_buff_cnt \in Buffers /\ current_buff_cnt \in Buffers
      /\ Len(queue) \in Nat
  BY OldestType DEF TypeOK, WrTypeOK, QueueType
<1>2. /\ Len(queue) <= BUFF_COUNT /\ Len(queue) > 0
      /\ Behind(Oldest, Len(queue), next_buff_cnt)
      /\ next_buff_cnt = NextBuffer(current_buff_cnt)
  BY DEF RingInv
<1>3. Dist(Oldest, current_buff_cnt) = Len(queue) - 1
  BY <1>1, <1>2, BehindNext
<1>. QED
  BY <1>1, <1>2, <1>3 DEF InQueue

LEMMA NextIsOther == \A i \in Buffers : NextBuffer(i) # i
  BY BuffCountAssumption DEF NextBuffer, Buffers

\* A full ring: the buffer that is next is that of the oldest packet.
LEMMA FullRing ==
    ASSUME TypeOK, QueueType, RingInv, Len(queue) = BUFF_COUNT
    PROVE  InQueue(next_buff_cnt)
<1>1. Oldest \in Buffers /\ next_buff_cnt \in Buffers
  BY OldestType DEF TypeOK, WrTypeOK
<1>2. next_buff_cnt = Oldest
  BY <1>1, BuffCountAssumption DEF RingInv, Behind, Buffers
<1>. QED
  BY <1>1, <1>2, DistType, BuffCountAssumption DEF InQueue

LEMMA WrStep ==
    ASSUME WrFsm(in_pct_rdy, SYNC_DIS)
    PROVE  /\ wr_state = "switch_next_buff" => wr_state' = "rd_pct"
           /\ Copying' <=> \/ Commits
                           \/ Copying /\ wr_state' # "check_next_buf"
           /\ Copying /\ ~Copying' => wr_state = "wait_wr_end" /\ wr_state' = "check_next_buf"
           /\ wr_state' = "check_next_buf" => wr_state \in {"wait_wr_end", "check_next_buf"}
           /\ wr_state' \notin {"rd_pct", "wait_wr_end", "check_next_buf"} =>
                 \/ wr_state = "check_next_buf" /\ next_buff_rdy
                 \/ wr_state \notin {"rd_pct", "wait_wr_end", "check_next_buf",
                                     "switch_next_buff"}
  BY DEF WrFsm, WrIdle, WrRdHdr, WrWaitCmprPipe, WrCheckSmplNr, WrClrFifo,
         WrSwitchNextBuff, WrRdPct, WrWaitWrEnd, WrCheckNextBuf, WrSwitchCurrentBuff,
         Copying, Commits

\* The write FSM stays in front of the read FSM.
LEMMA RingNext ==
    ASSUME TypeOK, QueueType, RingInv, BuffersInv, ReadInv, NEW synced, Clock(synced)
    PROVE  RingInv'
<1>1. WrFsm(in_pct_rdy, SYNC_DIS)
  BY WrRegs
<1>2. /\ Len(queue') <= BUFF_COUNT /\ Behind(Oldest', Len(queue'), next_buff_cnt')
      /\ Len(queue') = IF Commits THEN Len(Rest) + 1 ELSE Len(Rest)
      /\ Len(Rest) \in Nat /\ Len(Rest) <= Len(queue) /\ Len(queue) \in Nat
  BY QueueStep, RestStep DEF QueueType
<1>3. /\ current_buff_cnt' = IF wr_state = "check_next_buf"
                             THEN next_buff_cnt ELSE current_buff_cnt
      /\ next_buff_cnt' = IF wr_state = "switch_next_buff"
                          THEN NextBuffer(next_buff_cnt) ELSE next_buff_cnt
      /\ next_buff_rdy' = wrempty[next_buff_cnt]
  BY WrRegs
<1>4. BUFF_COUNT \in Nat
  BY BuffCountAssumption
<1>5. ASSUME wr_state' \notin {"rd_pct", "wait_wr_end", "check_next_buf"}
      PROVE  current_buff_cnt' = next_buff_cnt' /\ Len(queue') < BUFF_COUNT
  <2>1. CASE wr_state = "check_next_buf" /\ next_buff_rdy
    BY <1>2, <1>3, <1>4, <2>1 DEF RingInv, Commits
  <2>2. CASE wr_state \notin {"rd_pct", "wait_wr_end", "check_next_buf", "switch_next_buff"}
    BY <1>2, <1>3, <1>4, <2>2 DEF RingInv, Commits
  <2>. QED
    BY <1>1, <1>5, <2>1, <2>2, WrStep
<1>6. ASSUME Copying'
      PROVE  next_buff_cnt' = NextBuffer(current_buff_cnt') /\ Len(queue') > 0
  <2>1. CASE Commits
    BY <1>2, <1>3, <2>1 DEF RingInv, Commits
  <2>2. CASE Copying
    <3>1. InQueue(current_buff_cnt) /\ current_buff_cnt \in Buffers
      BY <2>2, FilledInQueue DEF TypeOK, WrTypeOK
    <3>2. ~(Leaves /\ current_buff_cnt = crnt_buff_cnt)
      BY <2>2 DEF ReadInv, Leaves, Sending, IsFilled
    <3>3. Dist(Oldest', current_buff_cnt) < Len(Rest)
      BY <3>1, <3>2, RestStep
    <3>4. Oldest' \in Buffers
      BY RdStep, OldestType, NextBufferType
    <3>5. Dist(Oldest', current_buff_cnt) \in Nat
      BY <3>1, <3>4, DistType DEF Buffers
    <3>6. wr_state # "switch_next_buff" /\ wr_state # "check_next_buf"
      BY <2>2 DEF Copying
    <3>. QED
      BY <1>2, <1>3, <2>2, <3>3, <3>5, <3>6 DEF RingInv, Commits
  <2>. QED
    BY <1>1, <1>6, <2>1, <2>2, WrStep
<1>7. ASSUME wr_state' = "check_next_buf", next_buff_rdy'
      PROVE  Len(queue') < BUFF_COUNT
  <2>1. wr_state \in {"wait_wr_end", "check_next_buf"}
    BY <1>1, <1>7, WrStep
  <2>2. Len(queue') <= Len(queue)
    BY <1>2, <2>1 DEF Commits
  <2>3. SUFFICES ASSUME Len(queue) = BUFF_COUNT PROVE FALSE
    BY <1>2, <1>4, <2>2 DEF RingInv
  <2>4. InQueue(next_buff_cnt) /\ next_buff_cnt \in Buffers
    BY <2>3, FullRing DEF TypeOK, WrTypeOK
  <2>5. ~IsFilled(next_buff_cnt)
    BY NextIsOther DEF IsFilled, RingInv, TypeOK, WrTypeOK
  <2>6. wrempty[next_buff_cnt]
    BY <1>3, <1>7
  <2>. QED
    BY <2>4, <2>5, <2>6 DEF BuffersInv, CountsAt
<1>. QED
  BY <1>2, <1>5, <1>6, <1>7 DEF RingInv

-----------------------------------------------------------------------------
(* The header slots.                                                       *)

\* The comparators of a buffer, as CompareStep for the one of p2d_wr_fsm.
LEMMA AnswersNext ==
    ASSUME TypeOK, NEW synced, Clock(synced), NEW i \in Buffers,
           pct_hdr_array'[i] = pct_hdr_array[i],
           NEW n \in 0 .. 2, AnswersAt(i, n), NEW m \in 1 .. 3, m <= n + 1
    PROVE  AnswersAt(i, m)'
<1>1. PICK h, s, t : h = pct_hdr_array[i].nr /\ s = sample_nr /\ t = sample_nr'
  OBVIOUS
<1>2. h \in Nat /\ s \in Nat /\ (t = s \/ t = s + 1)
  BY <1>1 DEF Clock, PortClock, TypeOK, EnvTypeOK, RdTypeOK, PctType
<1>3. /\ rd_smpl_nr_equal'[i] = PipeIn(rd_smpl_nr_equal[i], h = s)
      /\ rd_smpl_nr_less'[i] = PipeIn(rd_smpl_nr_less[i], h < s)
  BY <1>1 DEF Clock, RdClock, RdCompare
<1>4. /\ rd_smpl_nr_equal'[i][1] <=> h = s
      /\ rd_smpl_nr_less'[i][1] <=> h < s
  <2>1. rd_smpl_nr_equal'[i][1] = (h = s) /\ rd_smpl_nr_less'[i][1] = (h < s)
    BY <1>3 DEF PipeIn
  <2>. QED
    BY <2>1, Zenon
<1>5. ASSUME NEW k \in 1 .. 2
      PROVE  /\ rd_smpl_nr_equal'[i][k + 1] = rd_smpl_nr_equal[i][k]
             /\ rd_smpl_nr_less'[i][k + 1] = rd_smpl_nr_less[i][k]
  BY <1>3 DEF PipeIn
<1>6. ASSUME NEW k \in 1 .. n
      PROVE  /\ rd_smpl_nr_equal[i][k] => s \in h .. h + k
             /\ rd_smpl_nr_less[i][k] => h < s
  BY <1>1 DEF AnswersAt
<1>7. ASSUME NEW k \in 1 .. m
      PROVE  /\ rd_smpl_nr_equal'[i][k] => t \in h .. h + k
             /\ rd_smpl_nr_less'[i][k] => h < t
  <2>1. CASE k = 1
    <3>1. (h = s => t \in h .. h + 1) /\ (h < s => h < t)
      BY <1>2
    <3>. QED
      BY <1>4, <2>1, <3>1
  <2>2. CASE k # 1
    <3>1. PICK j \in 1 .. n : k = j + 1 /\ j \in 1 .. 2
      <4>1. k - 1 \in 1 .. n /\ k - 1 \in 1 .. 2 /\ k = k - 1 + 1
        BY <2>2
      <4>. QED
        BY <4>1
    <3>2. (s \in h .. h + j => t \in h .. h + k) /\ (h < s => h < t)
      BY <1>2, <3>1
    <3>. QED
      BY <1>5, <1>6, <3>1, <3>2
  <2>. QED
    BY <2>1, <2>2
<1>. QED
  BY <1>1, <1>7 DEF AnswersAt

\* From a header in the registers to the next clock.
LEMMA HeldStep ==
    ASSUME WrHeaderInv, TypeOK, NEW synced, Clock(synced), HeaderHeld',
           ~(wr_state' = "wait_cmpr_pipe" /\ pipe_cnt' = 2)
    PROVE  /\ HeaderHeld /\ ~Commits /\ pct_hdr' = pct_hdr
           /\ current_buff_cnt' = current_buff_cnt
           /\ wr_state' = "wait_cmpr_pipe" =>
                 pipe_cnt' = pipe_cnt + 1 /\ wr_state = "wait_cmpr_pipe"
           /\ wr_state' = "check_smpl_nr" =>
                 wr_state = "check_smpl_nr" \/ (wr_state = "wait_cmpr_pipe" /\ pipe_cnt >= 4)
           /\ wr_state' = "switch_next_buff" => wr_state = "check_smpl_nr"
<1>1. /\ WrFsm(in_pct_rdy, SYNC_DIS)
      /\ pipe_cnt' = IF wr_state = "wait_cmpr_pipe" THEN pipe_cnt + 1 ELSE 0
      /\ wr_state # "check_next_buf" => current_buff_cnt' = current_buff_cnt
      /\ pipe_cnt \in Nat
  BY WrRegs DEF TypeOK, WrTypeOK
<1>2. /\ wr_state \in {"wait_cmpr_pipe", "check_smpl_nr"}
      /\ wr_state = "wait_cmpr_pipe" => pipe_cnt >= 2
      /\ wr_state' = "wait_cmpr_pipe" => wr_state = "wait_cmpr_pipe"
      /\ wr_state' = "check_smpl_nr" =>
                 wr_state = "check_smpl_nr" \/ (wr_state = "wait_cmpr_pipe" /\ pipe_cnt >= 4)
      /\ wr_state' = "switch_next_buff" => wr_state = "check_smpl_nr"
  BY <1>1 DEF WrFsm, WrIdle, WrRdHdr, WrWaitCmprPipe, WrCheckSmplNr, WrClrFifo,
         WrSwitchNextBuff, WrRdPct, WrWaitWrEnd, WrCheckNextBuf, WrSwitchCurrentBuff,
         HeaderHeld
<1>3. ~in_pct_data_valid
  BY <1>1, <1>2 DEF WrHeaderInv, WrQuiet
<1>4. pct_hdr' = pct_hdr
  BY <1>3, WrOut DEF HeaderArrives
<1>. QED
  BY <1>1, <1>2, <1>4 DEF HeaderHeld, Commits

\* Before the commit the buffer that is next holds no packet.
LEMMA NextIsFree ==
    ASSUME TypeOK, QueueType, RingInv,
           wr_state \notin {"rd_pct", "wait_wr_end", "check_next_buf"}
    PROVE  ~InQueue(current_buff_cnt)
<1>1. /\ Oldest \in Buffers /\ next_buff_cnt \in Buffers
      /\ Len(queue) \in Nat /\ Len(queue) < BUFF_COUNT
      /\ Behind(Oldest, Len(queue), next_buff_cnt) /\ current_buff_cnt = next_buff_cnt
  BY OldestType DEF TypeOK, WrTypeOK, QueueType, RingInv
<1>2. Dist(Oldest, current_buff_cnt) = Len(queue)
  BY <1>1, BehindDist
<1>. QED
  BY <1>1, <1>2 DEF InQueue

\* A header is stored where no packet of the queue is.
LEMMA HeaderStored ==
    ASSUME TypeOK, WrHeaderInv, QueueType, RingInv, CopyInv, NEW synced, Clock(synced),
           NEW i \in Buffers
    PROVE  /\ i \in pct_hdr_valid =>
                 /\ i = current_buff_cnt /\ ~InQueue(i) /\ ~Commits /\ ~Copying'
                 /\ wr_state' = "wait_cmpr_pipe" /\ pipe_cnt' = 3 /\ pct_hdr' = pct_hdr
                 /\ pct_hdr_array'[i] = pct_hdr
                 /\ pct_buff_size'[i] = PayloadWords(pct_hdr.size)
           /\ i \notin pct_hdr_valid => /\ pct_hdr_array'[i] = pct_hdr_array[i]
                                        /\ pct_buff_size'[i] = pct_buff_size[i]
<1>1. /\ pct_hdr_array'[i] = IF i \in pct_hdr_valid THEN pct_hdr ELSE pct_hdr_array[i]
      /\ pct_buff_size'[i] = IF i \in pct_hdr_valid THEN BuffSize ELSE pct_buff_size[i]
  BY DEF Clock, RdClock, RdHeaderCapture, RegClock
<1>2. ASSUME i \in pct_hdr_valid
      PROVE  /\ i = current_buff_cnt /\ ~InQueue(i) /\ ~Commits /\ ~Copying'
             /\ wr_state' = "wait_cmpr_pipe" /\ pipe_cnt' = 3 /\ pct_hdr' = pct_hdr
             /\ BuffSize = PayloadWords(pct_hdr.size)
  <2>1. /\ wr_state = "wait_cmpr_pipe" /\ pipe_cnt = 2 /\ i = current_buff_cnt
        /\ in_pct_data = <<pct, 0>>
    BY <1>2 DEF CopyInv
  <2>2. pct_hdr = pct /\ ~in_pct_data_valid
    BY <2>1 DEF WrHeaderInv, WrQuiet
  <2>3. ~InQueue(i)
    BY <2>1, NextIsFree
  <2>4. wr_state' = "wait_cmpr_pipe" /\ pipe_cnt' = 3
    BY <2>1, WrRegs
    DEF WrFsm, WrIdle, WrRdHdr, WrWaitCmprPipe, WrCheckSmplNr, WrClrFifo,
        WrSwitchNextBuff, WrRdPct, WrWaitWrEnd, WrCheckNextBuf, WrSwitchCurrentBuff
  <2>5. pct_hdr' = pct_hdr
    BY <2>2, WrOut DEF HeaderArrives
  <2>6. BuffSize = PayloadWords(pct_hdr.size)
    <3>1. in_pct_data[1] = pct_hdr
      BY <2>1, <2>2
    <3>. QED
      BY <3>1, Zenon DEF BuffSize, PayloadWords
  <2>. QED
    BY <2>1, <2>2, <2>3, <2>4, <2>5, <2>6 DEF Commits, Copying
<1>. QED
  BY <1>1, <1>2

\* The header slot, the size register and the comparators follow the packet.
LEMMA HeaderNext ==
    ASSUME TypeOK, WrHeaderInv, QueueType, RingInv, CopyInv, ReadInv,
           NEW synced, Clock(synced), NEW i \in Buffers, HeaderAt(i)
    PROVE  HeaderAt(i)'
<1>1. /\ InQueue(i)' <=> \/ InQueue(i) /\ ~(Leaves /\ i = crnt_buff_cnt)
                         \/ Commits /\ i = current_buff_cnt
      /\ InQueue(i) /\ ~(Leaves /\ i = crnt_buff_cnt) =>
             queue'[Dist(Oldest', i) + 1] = queue[Dist(Oldest, i) + 1]
      /\ Commits /\ i = current_buff_cnt => queue'[Dist(Oldest', i) + 1] = pct_hdr
  BY QueueStep
<1>2. CASE i \in pct_hdr_valid
  <2>1. /\ i = current_buff_cnt /\ ~InQueue(i) /\ ~Commits /\ ~Copying'
        /\ wr_state' = "wait_cmpr_pipe" /\ pipe_cnt' = 3 /\ pct_hdr' = pct_hdr
        /\ pct_hdr_array'[i] = pct_hdr
        /\ pct_buff_size'[i] = PayloadWords(pct_hdr.size)
    BY <1>2, HeaderStored
  <2>. QED
    BY <1>1, <2>1 DEF HeaderAt, IsFilled, Size
<1>3. CASE i \notin pct_hdr_valid
  <2>1. pct_hdr_array'[i] = pct_hdr_array[i] /\ pct_buff_size'[i] = pct_buff_size[i]
    BY <1>3, HeaderStored
  <2>2. Size(i)' = Size(i)
    BY <2>1 DEF Size
  <2>3. AnswersAt(i, 0)
    BY DEF AnswersAt
  <2>4. AnswersAt(i, 3) => AnswersAt(i, 2)
    BY DEF AnswersAt
  <2>5. ASSUME InQueue(i)'
        PROVE  /\ pct_hdr_array'[i] = queue'[Dist(Oldest', i) + 1]
               /\ pct_buff_size'[i] = Size(i)' /\ Whole(pct_hdr_array'[i])
               /\ AnswersAt(i, 3)'
    <3>1. CASE InQueue(i) /\ ~(Leaves /\ i = crnt_buff_cnt)
      <4>1. AnswersAt(i, 3)'
        BY <2>1, <2>4, <3>1, AnswersNext DEF HeaderAt
      <4>. QED
        BY <1>1, <2>1, <2>2, <3>1, <4>1 DEF HeaderAt
    <3>2. CASE Commits /\ i = current_buff_cnt
      <4>1. AnswersAt(i, 3) /\ pct_hdr_array[i] = pct_hdr /\ pct_buff_size[i] = Size(i)
        BY <3>2 DEF HeaderAt, HeaderHeld, Commits
      <4>2. AnswersAt(i, 3)'
        BY <2>1, <2>4, <4>1, AnswersNext
      <4>3. Whole(pct_hdr)
        BY <3>2, CopyBegins DEF Commits
      <4>. QED
        BY <1>1, <2>1, <2>2, <3>2, <4>1, <4>2, <4>3
    <3>. QED
      BY <1>1, <2>5, <3>1, <3>2
  <2>6. ASSUME IsFilled(i)'
        PROVE  pct_hdr_array'[i] = pct_hdr'
    <3>1. Commits \/ Copying
      BY <2>6, WrStep, WrRegs DEF IsFilled
    <3>2. current_buff_cnt' = current_buff_cnt
      BY <3>1, WrRegs DEF Commits, Copying
    <3>3. i = current_buff_cnt
      BY <2>6, <3>2 DEF IsFilled
    <3>4. CASE Commits
      BY <2>1, <3>3, <3>4, CopyBegins DEF Commits, HeaderAt, HeaderHeld
    <3>5. CASE Copying
      <4>1. /\ pct_hdr # NoPacket /\ Whole(pct_hdr) /\ wr_rd_cnt_max = PctWords(pct_hdr)
            /\ \E u \in 1 .. wr_rd_cnt_max + 2 : CopyAt(u)
        BY <3>5 DEF CopyInv
      <4>2. pct_hdr' = pct_hdr
        BY <3>5, <4>1, CopyStep
      <4>. QED
        BY <2>1, <3>3, <3>5, <4>2 DEF HeaderAt, IsFilled
    <3>. QED
      BY <3>1, <3>4, <3>5
  <2>7. ASSUME i = current_buff_cnt', HeaderHeld',
               ~(wr_state' = "wait_cmpr_pipe" /\ pipe_cnt' = 2)
        PROVE  /\ pct_hdr_array'[i] = pct_hdr' /\ pct_buff_size'[i] = Size(i)'
               /\ wr_state' = "wait_cmpr_pipe" /\ pipe_cnt' >= 4 => AnswersAt(i, 1)'
               /\ wr_state' = "check_smpl_nr" => AnswersAt(i, 2)'
               /\ wr_state' = "switch_next_buff" => AnswersAt(i, 3)'
    <3>1. /\ HeaderHeld /\ pct_hdr' = pct_hdr /\ i = current_buff_cnt
          /\ wr_state' = "wait_cmpr_pipe" => pipe_cnt' = pipe_cnt + 1
          /\ wr_state' = "check_smpl_nr" =>
                wr_state = "check_smpl_nr" \/ (wr_state = "wait_cmpr_pipe" /\ pipe_cnt >= 4)
          /\ wr_state' = "switch_next_buff" => wr_state = "check_smpl_nr"
      BY <2>7, HeldStep
    <3>2. ~(wr_state = "wait_cmpr_pipe" /\ pipe_cnt = 2)
      BY <1>3, <3>1 DEF CopyInv
    <3>3. pct_hdr_array[i] = pct_hdr /\ pct_buff_size[i] = Size(i)
      BY <3>1, <3>2 DEF HeaderAt
    <3>4. AnswersAt(i, 1)'
      BY <2>1, <2>3, AnswersNext
    <3>5. wr_state' = "check_smpl_nr" => AnswersAt(i, 2)'
      <4>1. wr_state' = "check_smpl_nr" => AnswersAt(i, 2) \/ AnswersAt(i, 1)
        BY <3>1 DEF HeaderAt
      <4>2. AnswersAt(i, 2) => AnswersAt(i, 1)
        BY DEF AnswersAt
      <4>. QED
        BY <2>1, <4>1, <4>2, AnswersNext
    <3>6. wr_state' = "switch_next_buff" => AnswersAt(i, 3)'
      BY <2>1, <3>1, AnswersNext DEF HeaderAt
    <3>. QED
      BY <2>1, <2>2, <3>1, <3>3, <3>4, <3>5, <3>6
  <2>8. wr_state' = "check_smpl_nr" \/ wr_state' = "switch_next_buff" => HeaderHeld'
    BY DEF HeaderHeld
  <2>9. wr_state' = "wait_cmpr_pipe" /\ pipe_cnt' >= 4 => HeaderHeld' /\ pipe_cnt' # 2
    <3>1. pipe_cnt' >= 4 => pipe_cnt' >= 2 /\ pipe_cnt' # 2
      BY WrRegs DEF TypeOK, WrTypeOK
    <3>. QED
      BY <3>1 DEF HeaderHeld
  <2>. QED
    BY <2>5, <2>6, <2>7, <2>8, <2>9, Zenon DEF HeaderAt
<1>. QED
  BY <1>2, <1>3

-----------------------------------------------------------------------------
(* Sequences of the words of a packet.                                     *)

LEMMA HoldsNone ==
    ASSUME NEW s \in Seq(Nat \X Int), NEW id, NEW lo \in Int
    PROVE  /\ Holds(s, id, lo, lo) <=> s = <<>>
           /\ Holds(<<>>, id, lo, lo)
  BY DEF Holds

\* A word is read.
LEMMA HoldsTail ==
    ASSUME NEW s \in Seq(Nat \X Int), NEW id, NEW lo \in Nat, NEW hi \in Nat, lo < hi,
           Holds(s, id, lo, hi)
    PROVE  /\ Tail(s) \in Seq(Nat \X Int) /\ Len(Tail(s)) = Len(s) - 1
           /\ Holds(Tail(s), id, lo + 1, hi)
           /\ Head(s) = <<id, lo>>
<1>1. Len(s) = hi - lo /\ \A j \in 1 .. hi - lo : s[j] = <<id, lo + j - 1>>
  BY DEF Holds
<1>2. s # <<>> /\ Tail(s) \in Seq(Nat \X Int) /\ Len(Tail(s)) = Len(s) - 1 /\ Head(s) = s[1]
  BY <1>1
<1>3. \A j \in 1 .. Len(s) - 1 : Tail(s)[j] = s[j + 1]
  BY <1>2
<1>4. ASSUME NEW j \in 1 .. hi - (lo + 1)
      PROVE  Tail(s)[j] = <<id, (lo + 1) + j - 1>>
  <2>1. Tail(s)[j] = s[j + 1] /\ j + 1 \in 1 .. hi - lo
    <3>1. j \in 1 .. Len(s) - 1 /\ j + 1 \in 1 .. hi - lo
      BY <1>1
    <3>. QED
      BY <1>3, <3>1
  <2>2. s[j + 1] = <<id, lo + (j + 1) - 1>>
    BY <1>1, <2>1
  <2>3. lo + (j + 1) - 1 = (lo + 1) + j - 1
    OBVIOUS
  <2>. QED
    BY <2>1, <2>2, <2>3
<1>5. Len(Tail(s)) = hi - (lo + 1)
  BY <1>1, <1>2
<1>6. Head(s) = <<id, lo>>
  BY <1>1, <1>2
<1>. QED
  BY <1>2, <1>4, <1>5, <1>6 DEF Holds

\* A word of 128 bits is written.
LEMMA HoldsMore ==
    ASSUME NEW s \in Seq(Nat \X Int), NEW id \in Nat, NEW lo \in Nat,
           Holds(s, id, 0, lo), NEW h, h = << <<id, lo>>, <<id, lo + 1>> >>
    PROVE  /\ s \o h \in Seq(Nat \X Int) /\ Len(s \o h) = Len(s) + 2
           /\ Holds(s \o h, id, 0, lo + 2)
<1>1. Len(s) = lo /\ \A j \in 1 .. lo : s[j] = <<id, 0 + j - 1>>
  <2>1. Len(s) = lo - 0 /\ \A j \in 1 .. lo - 0 : s[j] = <<id, 0 + j - 1>>
    BY DEF Holds
  <2>2. lo - 0 = lo
    OBVIOUS
  <2>. QED
    BY <2>1, <2>2
<1>2. h \in Seq(Nat \X Int) /\ Len(h) = 2 /\ h[1] = <<id, lo>> /\ h[2] = <<id, lo + 1>>
  OBVIOUS
<1>3. /\ s \o h \in Seq(Nat \X Int) /\ Len(s \o h) = lo + 2
      /\ \A j \in 1 .. lo : (s \o h)[j] = s[j]
      /\ (s \o h)[lo + 1] = h[1] /\ (s \o h)[lo + 2] = h[2]
  BY <1>1, <1>2
<1>4. \A j \in 1 .. lo + 2 - 0 : (s \o h)[j] = <<id, 0 + j - 1>>
  <2>. TAKE j \in 1 .. lo + 2 - 0
  <2>1. CASE j \in 1 .. lo
    BY <1>1, <1>3, <2>1
  <2>2. CASE j = lo + 1
    <3>1. 0 + j - 1 = lo
      BY <2>2
    <3>. QED
      BY <1>2, <1>3, <2>2, <3>1
  <2>3. CASE j = lo + 2
    <3>1. 0 + j - 1 = lo + 1
      BY <2>3
    <3>. QED
      BY <1>2, <1>3, <2>3, <3>1
  <2>4. j \in 1 .. lo \/ j = lo + 1 \/ j = lo + 2
    OBVIOUS
  <2>. QED
    BY <2>1, <2>2, <2>3, <2>4
<1>5. Len(s \o h) = lo + 2 - 0 /\ Len(s \o h) = Len(s) + 2
  BY <1>1, <1>3
<1>6. Holds(s \o h, id, 0, lo + 2)
  BY <1>4, <1>5, SMTT(30) DEF Holds
<1>. QED
  BY <1>3, <1>5, <1>6

-----------------------------------------------------------------------------
(* The buffers.  A buffer is free, filled, full or read.                   *)

\* Words and counts of a buffer.
LEMMA WordsType ==
    ASSUME QueueType, NEW i \in Buffers
    PROVE  buff[i] \in Seq(Nat \X Int) /\ Len(buff[i]) \in Nat /\ rdusedw[i] \in Nat
  BY DEF QueueType

\* The role of a buffer after the clock.
LEMMA RoleStep ==
    ASSUME TypeOK, QueueType, RingInv, ReadInv, NEW synced, Clock(synced),
           NEW i \in Buffers
    PROVE  /\ IsRead(i) \/ IsFilled(i) => InQueue(i)
           /\ ~(IsRead(i) /\ IsFilled(i))
           /\ InQueue(i) => /\ InQueue(i)' <=> ~(Leaves /\ i = crnt_buff_cnt)
                            /\ IsFilled(i)' => IsFilled(i)
           /\ IsFilled(i) => InQueue(i)' /\ ~IsRead(i)'
           /\ IsRead(i)' => InQueue(i)
           /\ IsRead(i)' <=> \/ IsRead(i) /\ ~Leaves
                             \/ i = crnt_buff_cnt /\ rd_state = "idle" /\ rd_state' = "rd_buff"
           /\ ~InQueue(i) /\ InQueue(i)' => Commits /\ i = current_buff_cnt /\ IsFilled(i)'
<1>1. /\ IsRead(i) => InQueue(i) /\ ~IsFilled(i)
      /\ IsFilled(i) => InQueue(i)
  BY FilledInQueue DEF ReadInv, IsRead, IsFilled
<1>2. rd_state = "idle" /\ rd_state' = "rd_buff" =>
          crnt_buff_rdy /\ InQueue(crnt_buff_cnt) /\ ~IsFilled(crnt_buff_cnt)
  BY DEF ReadInv, Clock, RdClock, RdFsm, RdIdle, RdClrBuff, RdBuff, RdHold,
         RdSwitchNextBuff, RdCheckNextBuf
<1>3. IsRead(i)' <=> \/ IsRead(i) /\ ~Leaves
                     \/ i = crnt_buff_cnt /\ rd_state = "idle" /\ rd_state' = "rd_buff"
  <2>1. Sending' => crnt_buff_cnt' = crnt_buff_cnt
    BY RdStep
  <2>2. Sending' <=> \/ rd_state = "idle" /\ rd_state' = "rd_buff"
                     \/ Sending /\ ~Leaves
    BY RdStep
  <2>3. rd_state = "idle" => ~Sending
    BY DEF Sending
  <2>. QED
    BY <2>1, <2>2, <2>3 DEF IsRead
<1>4. /\ InQueue(i)' <=> \/ InQueue(i) /\ ~(Leaves /\ i = crnt_buff_cnt)
                         \/ Commits /\ i = current_buff_cnt
      /\ Commits /\ i = current_buff_cnt => ~InQueue(i)
  BY QueueStep
<1>5. Leaves => ~IsFilled(crnt_buff_cnt)
  BY DEF ReadInv, Leaves, Sending
<1>6. IsFilled(i)' <=> \/ Commits /\ i = current_buff_cnt
                       \/ IsFilled(i) /\ wr_state' # "check_next_buf"
  <2>1. Commits \/ Copying => current_buff_cnt' = current_buff_cnt
    BY WrRegs DEF Commits, Copying
  <2>. QED
    BY <2>1, WrStep, WrRegs DEF IsFilled, Commits, Copying
<1>. QED
  BY <1>1, <1>2, <1>3, <1>4, <1>5, <1>6

\* What is done with a buffer.
LEMMA UseStep ==
    ASSUME TypeOK, QueueType, RingInv, CopyInv, ReadInv, NEW i \in Buffers
    PROVE  /\ Pops(i) => IsRead(i) /\ rd_state = "rd_buff" /\ ~almost_full
           /\ Pops(i) <=> /\ i = crnt_buff_cnt /\ rd_state = "rd_buff"
                          /\ ~almost_full /\ rdusedw[i] > 0
           /\ i \in pct_data_wrreq => IsFilled(i)
           /\ IsFilled(i) => (i \in pct_data_wrreq <=> pct_data_wrreq # {})
           /\ i \in RdClearing => /\ i = crnt_buff_cnt /\ Leaves /\ InQueue(i)
                                  /\ ~IsFilled(i) /\ ~IsRead(i)
           /\ i = crnt_buff_cnt /\ Leaves /\ ~IsRead(i) => i \in RdClearing
<1>1. /\ Pops(i) => IsRead(i) /\ rd_state = "rd_buff" /\ ~almost_full
      /\ Pops(i) <=> /\ i = crnt_buff_cnt /\ rd_state = "rd_buff"
                     /\ ~almost_full /\ rdusedw[i] > 0
  BY DEF Pops, Reading, RdReq, IsRead, Sending
<1>2. /\ i \in pct_data_wrreq => IsFilled(i)
      /\ IsFilled(i) => (i \in pct_data_wrreq <=> pct_data_wrreq # {})
  <2>1. pct_data_wrreq # {} => Copying /\ pct_data_wrreq = {current_buff_cnt}
    <3>1. SUFFICES ASSUME pct_data_wrreq # {}
                   PROVE  Copying /\ pct_data_wrreq = {current_buff_cnt}
      OBVIOUS
    <3>2. Copying
      BY <3>1 DEF CopyInv
    <3>3. PICK u \in 1 .. wr_rd_cnt_max + 2 : CopyAt(u)
      BY <3>2 DEF CopyInv
    <3>4. pct_data_wrreq = IF u >= 4 THEN {current_buff_cnt} ELSE {}
      BY <3>3 DEF CopyAt
    <3>. QED
      BY <3>1, <3>2, <3>4
  <2>. QED
    BY <2>1 DEF IsFilled
<1>3. i \in RdClearing => /\ i = crnt_buff_cnt /\ Leaves /\ InQueue(i)
                          /\ ~IsFilled(i) /\ ~IsRead(i)
  BY DEF RdClearing, Leaves, ReadInv, IsRead, Sending
<1>4. i = crnt_buff_cnt /\ Leaves /\ ~IsRead(i) => i \in RdClearing
  BY DEF RdClearing, Leaves, IsRead, Sending
<1>. QED
  BY <1>1, <1>2, <1>3, <1>4

\* What a clock does to the FIFO of a buffer, by what is done with it.
LEMMA BuffStep ==
    ASSUME NEW synced, Clock(synced), NEW i \in Buffers, QueueType
    PROVE  /\ i \in RdClearing => buff'[i] = <<>> /\ rdusedw'[i] = 0
           /\ i \notin RdClearing /\ Pops(i) /\ i \notin pct_data_wrreq =>
                  /\ buff'[i] = Tail(buff[i]) \o <<>>
                  /\ rdusedw'[i] \in {Len(buff[i]) - 1, rdusedw[i] - 1}
           /\ i \notin RdClearing /\ ~Pops(i) =>
                  rdusedw'[i] \in {Len(buff[i]), rdusedw[i]}
           /\ i \notin RdClearing /\ ~Pops(i) /\ i \notin pct_data_wrreq => buff'[i] = buff[i]
           /\ i \notin RdClearing /\ ~Pops(i) /\ i \in pct_data_wrreq =>
                  buff'[i] = buff[i] \o Halves(pct_data)
           /\ Pops(i) => buff_q'[i] = Head(buff[i])
           /\ ~Pops(i) => buff_q'[i] = buff_q[i]
<1>1. buff'[i] = IF i \in RdClearing THEN <<>>
                 ELSE (IF Pops(i) THEN Tail(buff[i]) ELSE buff[i])
                      \o (IF i \in pct_data_wrreq THEN Halves(pct_data) ELSE <<>>)
  BY Zenon DEF Clock, BuffClock
<1>2. rdusedw'[i] = IF i \in RdClearing THEN 0
                    ELSE IF i \in synced.rd THEN Len(buff[i]) - (IF Pops(i) THEN 1 ELSE 0)
                    ELSE rdusedw[i] - (IF Pops(i) THEN 1 ELSE 0)
  BY Zenon DEF Clock, BuffClock
<1>3. rdusedw'[i] \in IF i \in RdClearing THEN {0}
                      ELSE IF Pops(i) THEN {Len(buff[i]) - 1, rdusedw[i] - 1}
                      ELSE {Len(buff[i]) - 0, rdusedw[i] - 0}
  BY <1>2, Zenon
<1>4. Len(buff[i]) - 0 = Len(buff[i]) /\ rdusedw[i] - 0 = rdusedw[i]
  BY WordsType
<1>5. buff_q'[i] = IF Pops(i) THEN Head(buff[i]) ELSE buff_q[i]
  BY Zenon DEF Clock, BuffClock
<1>6. buff[i] \o <<>> = buff[i] /\ Len(buff[i]) \in Nat /\ rdusedw[i] \in Nat
  BY WordsType
<1>. QED
  BY <1>1, <1>3, <1>4, <1>5, <1>6, Zenon

\* How much of the packet that is filled is in the buffer, in clock u.
LEMMA WrittenAt ==
    ASSUME TypeOK, NEW u, NEW m, m = wr_rd_cnt_max, u \in 1 .. m + 2
    PROVE  /\ CopyAt(u) => Written = IF u >= 4 THEN 2 * (u - 4) ELSE 0
           /\ wr_rd_cnt_max' = m /\ CopyAt(u)' => Written' = IF u >= 4 THEN 2 * (u - 4) ELSE 0
<1>1. u \in Int /\ m \in Nat
  BY DEF TypeOK, WrTypeOK
<1>2. u >= 4 => u >= 3 /\ u - 2 - 2 = u - 4
  BY <1>1
<1>3. CopyAt(u) => Written = IF u >= 4 THEN 2 * (u - 4) ELSE 0
  BY <1>1, <1>2 DEF CopyAt, Written
<1>4. CopyAt(u)' => Written' = IF u >= 4 THEN 2 * (u - 4) ELSE 0
  BY <1>1, <1>2 DEF CopyAt, Written
<1>. QED
  BY <1>3, <1>4

\* A buffer that is filled.
LEMMA FilledNext ==
    ASSUME TypeOK, QueueType, RingInv, CopyInv, ReadInv,
           NEW synced, Clock(synced), NEW i \in Buffers, IsFilled(i),
           HeaderAt(i), WordsAt(i)
    PROVE  /\ Written \in Nat /\ Written < Size(i) /\ Len(buff[i]) = Written
           /\ Written = 0 \/ buff[i] # <<>>
           /\ buff'[i] \in Seq(Nat \X Int)
           /\ Len(buff'[i]) >= Len(buff[i])
           /\ IsFilled(i)' => Holds(buff'[i], pct_hdr_array[i].id, 0, Written')
           /\ ~IsFilled(i)' => /\ Holds(buff'[i], pct_hdr_array[i].id, 0, Size(i))
                               /\ i \in pct_data_wrreq
<1>1. InQueue(i) /\ ~IsRead(i) /\ i \notin RdClearing /\ ~Pops(i)
  BY RoleStep, UseStep
<1>2. /\ Copying /\ i = current_buff_cnt
      /\ pct_hdr # NoPacket /\ Whole(pct_hdr) /\ wr_rd_cnt_max = PctWords(pct_hdr)
      /\ \E u \in 1 .. wr_rd_cnt_max + 2 : CopyAt(u)
  BY DEF IsFilled, CopyInv
<1>3. PICK m, p : m = wr_rd_cnt_max /\ p = pct_hdr
  OBVIOUS
<1>4. PICK u \in 1 .. m + 2 : CopyAt(u)
  BY <1>2, <1>3
<1>5. PICK v : v = u + 1
  OBVIOUS
<1>6. p \in PctType /\ p.id \in Nat /\ Whole(p) /\ m = PctWords(p)
  BY <1>2, <1>3 DEF TypeOK, WrTypeOK, PctType
<1>7. m \in Nat /\ m >= 3 /\ 2 * (m - 1) = PayloadWords(p.size) /\ u \in Nat /\ u >= 1
  BY <1>6, WholeWords
<1>8. pct_hdr_array[i] = p /\ Size(i) = 2 * (m - 1)
  BY <1>3, <1>7 DEF HeaderAt, Size
<1>9. /\ pct_hdr' = pct_hdr /\ wr_rd_cnt_max' = m /\ current_buff_cnt' = current_buff_cnt
      /\ u <= m + 1 => Copying' /\ CopyAt(v)'
      /\ u = m + 2 => ~Copying'
  BY <1>2, <1>3, <1>4, <1>5, CopyStep DEF Copying
<1>10. PICK w : w = IF u >= 4 THEN 2 * (u - 4) ELSE 0
  OBVIOUS
<1>11. Written = w
  BY <1>3, <1>4, <1>10, WrittenAt
<1>12. w \in Nat /\ w < 2 * (m - 1)
  BY <1>7, <1>10
<1>13. Holds(buff[i], p.id, 0, w) /\ buff[i] \in Seq(Nat \X Int)
  BY <1>1, <1>8, <1>11, WordsType DEF WordsAt
<1>14. Len(buff[i]) = w /\ (w = 0 \/ buff[i] # <<>>)
  <2>1. Len(buff[i]) = w - 0
    BY <1>13 DEF Holds
  <2>. QED
    BY <1>12, <1>13, <2>1
<1>15. i \in pct_data_wrreq <=> u >= 4
  <2>1. pct_data_wrreq = IF u >= 4 THEN {current_buff_cnt} ELSE {}
    BY <1>4 DEF CopyAt
  <2>. QED
    BY <1>2, <2>1
<1>16. PICK x : x = IF u >= 4 THEN w + 2 ELSE w
  OBVIOUS
<1>17. /\ buff'[i] \in Seq(Nat \X Int) /\ Len(buff'[i]) >= Len(buff[i])
       /\ Holds(buff'[i], p.id, 0, x)
  <2>1. CASE u >= 4
    <3>1. pct_data = <<p, u - 3>>
      BY <1>3, <1>4, <2>1 DEF CopyAt
    <3>2. Halves(pct_data) = << <<p.id, 2 * ((u - 3) - 1)>>, <<p.id, 2 * ((u - 3) - 1) + 1>> >>
      BY <3>1 DEF Halves
    <3>3. 2 * ((u - 3) - 1) = w
      BY <1>7, <1>10, <2>1
    <3>4. Halves(pct_data) = << <<p.id, w>>, <<p.id, w + 1>> >>
      BY <3>2, <3>3
    <3>5. buff'[i] = buff[i] \o Halves(pct_data)
      BY <1>1, <1>15, <2>1, BuffStep
    <3>6. PICK s, h : s = buff[i] /\ h = Halves(pct_data)
      OBVIOUS
    <3>7. /\ s \o h \in Seq(Nat \X Int) /\ Len(s \o h) = Len(s) + 2
          /\ Holds(s \o h, p.id, 0, w + 2)
      BY <1>6, <1>12, <1>13, <3>4, <3>6, HoldsMore
    <3>. QED
      BY <1>12, <1>14, <1>16, <2>1, <3>5, <3>6, <3>7
  <2>2. CASE ~(u >= 4)
    <3>1. buff'[i] = buff[i]
      BY <1>1, <1>15, <2>2, BuffStep
    <3>. QED
      BY <1>12, <1>13, <1>14, <1>16, <2>2, <3>1
  <2>. QED
    BY <2>1, <2>2
<1>18. IsFilled(i)' => Written' = x
  <2>1. SUFFICES ASSUME IsFilled(i)' PROVE Written' = x
    OBVIOUS
  <2>2. u <= m + 1
    BY <1>7, <1>9, <2>1 DEF IsFilled
  <2>3. CopyAt(v)' /\ v \in 1 .. m + 2
    BY <1>5, <1>7, <1>9, <2>2
  <2>4. Written' = IF v >= 4 THEN 2 * (v - 4) ELSE 0
    BY <1>3, <1>9, <2>3, WrittenAt
  <2>5. (IF v >= 4 THEN 2 * (v - 4) ELSE 0) = x
    BY <1>5, <1>7, <1>10, <1>16
  <2>. QED
    BY <2>4, <2>5
<1>19. ~IsFilled(i)' => x = 2 * (m - 1) /\ u >= 4
  <2>1. SUFFICES ASSUME ~IsFilled(i)' PROVE x = 2 * (m - 1) /\ u >= 4
    OBVIOUS
  <2>2. u = m + 2
    BY <1>2, <1>7, <1>9, <2>1 DEF IsFilled
  <2>. QED
    BY <1>7, <1>10, <1>16, <2>2
<1>. QED
  BY <1>8, <1>11, <1>12, <1>14, <1>15, <1>17, <1>18, <1>19

\* Head(queue) is the packet of the buffer that is read.
LEMMA HeadIsRead ==
    ASSUME TypeOK, QueueType, ReadInv, HeaderAt(crnt_buff_cnt),
           InQueue(crnt_buff_cnt), Oldest = crnt_buff_cnt
    PROVE  /\ Head(queue) = pct_hdr_array[crnt_buff_cnt]
           /\ Head(queue) \in PctType /\ Whole(Head(queue))
           /\ Size(crnt_buff_cnt) \in 4 .. MAX_PAYLOAD
<1>1. Head(queue) = queue[1] /\ Head(queue) \in PctType /\ Dist(Oldest, crnt_buff_cnt) = 0
  BY CrntIsHead
<1>2. /\ pct_hdr_array[crnt_buff_cnt] = queue[Dist(Oldest, crnt_buff_cnt) + 1]
      /\ Whole(pct_hdr_array[crnt_buff_cnt])
  BY DEF HeaderAt
<1>3. 0 + 1 = 1
  OBVIOUS
<1>4. Head(queue) = pct_hdr_array[crnt_buff_cnt]
  BY <1>1, <1>2, <1>3
<1>. QED
  BY <1>1, <1>2, <1>4, WholeWords DEF Size

\* A buffer that is read.
LEMMA ReadBuffer ==
    ASSUME TypeOK, QueueType, RingInv, CopyInv, ReadInv,
           NEW synced, Clock(synced), NEW i \in Buffers, IsRead(i),
           HeaderAt(i), WordsAt(i), CountsAt(i)
    PROVE  /\ InQueue(i) /\ i \notin RdClearing /\ i \notin pct_data_wrreq
           /\ rd_cnt_max = Size(i) /\ Size(i) \in 4 .. MAX_PAYLOAD
           /\ Len(buff[i]) = Size(i) - rd_cnt
           /\ Pops(i) <=> rd_state = "rd_buff" /\ ~almost_full
           /\ Pops(i) => /\ Head(buff[i]) = <<pct_hdr_array[i].id, rd_cnt>>
                         /\ rd_cnt' = rd_cnt + 1
           /\ ~Pops(i) => rd_cnt' = rd_cnt
           /\ ~Leaves => buff[i] # <<>>
           /\ Leaves => buff'[i] = <<>> /\ rd_cnt = Size(i)
           /\ buff'[i] \in Seq(Nat \X Int) /\ rdusedw'[i] = Len(buff'[i])
           /\ Holds(buff'[i], pct_hdr_array[i].id, rd_cnt', Size(i))
<1>1. InQueue(i) /\ ~IsFilled(i)
  BY RoleStep
<1>2. i \notin RdClearing /\ i \notin pct_data_wrreq
  BY <1>1, UseStep
<1>3. i = crnt_buff_cnt /\ Sending /\ Oldest = crnt_buff_cnt
  BY RdStep DEF IsRead
<1>4. Head(queue) = pct_hdr_array[i] /\ Size(i) \in 4 .. MAX_PAYLOAD
  BY <1>1, <1>3, HeadIsRead
<1>5. PICK n, c, id : n = Size(i) /\ c = rd_cnt /\ id = pct_hdr_array[i].id
  OBVIOUS
<1>6. n \in Nat /\ c \in Nat
  BY <1>4, <1>5, MaxPayloadAssumption DEF TypeOK, RdTypeOK
<1>7. /\ rd_cnt_max = n
      /\ rd_state = "switch_next_buff" => c = n
      /\ rd_state # "switch_next_buff" => c < n
  BY <1>3, <1>4, <1>5 DEF ReadInv, Size
<1>8. /\ Holds(buff[i], id, c, n) /\ buff[i] \in Seq(Nat \X Int) /\ Len(buff[i]) \in Nat
      /\ rdusedw[i] = Len(buff[i])
  BY <1>1, <1>5, WordsType DEF WordsAt, CountsAt
<1>9. Len(buff[i]) = n - c
  BY <1>8 DEF Holds
<1>10. Leaves <=> rd_state = "switch_next_buff"
  BY <1>3 DEF Leaves, Sending
<1>11. Pops(i) <=> rd_state = "rd_buff" /\ ~almost_full
  <2>1. rd_state = "rd_buff" => rdusedw[i] > 0
    BY <1>6, <1>7, <1>8, <1>9
  <2>. QED
    BY <1>3, <2>1, UseStep
<1>12. rd_cnt' = IF rd_state = "rd_buff" /\ ~almost_full THEN c + 1 ELSE c
  <2>1. rd_state # "idle"
    BY <1>3 DEF Sending
  <2>. QED
    BY <1>5, <2>1 DEF Clock, RdClock, RdCounters, RdReq
<1>13. CASE Pops(i)
  <2>1. c < n /\ rd_cnt' = c + 1 /\ ~Leaves
    BY <1>7, <1>10, <1>11, <1>12, <1>13
  <2>2. PICK s : s = buff[i]
    OBVIOUS
  <2>3. /\ Tail(s) \in Seq(Nat \X Int) /\ Len(Tail(s)) = Len(s) - 1
        /\ Holds(Tail(s), id, c + 1, n) /\ Head(s) = <<id, c>>
    BY <1>6, <1>8, <2>1, <2>2, HoldsTail
  <2>4. Tail(s) \o <<>> = Tail(s)
    BY <2>3
  <2>5. buff'[i] = Tail(s) /\ rdusedw'[i] \in {Len(buff[i]) - 1, rdusedw[i] - 1}
    BY <1>2, <1>13, <2>2, <2>4, BuffStep
  <2>6. rdusedw'[i] = Len(buff'[i])
    BY <1>8, <2>2, <2>3, <2>5
  <2>7. buff[i] # <<>>
    BY <1>6, <1>8, <1>9, <2>1
  <2>. QED
    BY <1>1, <1>2, <1>4, <1>5, <1>7, <1>9, <1>11, <1>13, <2>1, <2>2, <2>3, <2>5, <2>6, <2>7
<1>14. CASE ~Pops(i)
  <2>1. rd_cnt' = c
    BY <1>11, <1>12, <1>14
  <2>2. buff'[i] = buff[i] /\ rdusedw'[i] = Len(buff[i])
    BY <1>2, <1>8, <1>14, BuffStep
  <2>3. Leaves => buff[i] = <<>> /\ c = n
    BY <1>6, <1>7, <1>8, <1>9, <1>10
  <2>4. ~Leaves => buff[i] # <<>>
    BY <1>6, <1>7, <1>8, <1>9, <1>10
  <2>. QED
    BY <1>1, <1>2, <1>4, <1>5, <1>7, <1>8, <1>9, <1>11, <1>14, <2>1, <2>2, <2>3, <2>4
<1>. QED
  BY <1>13, <1>14

\* A buffer that holds a packet and waits.
LEMMA FullBuffer ==
    ASSUME TypeOK, QueueType, RingInv, CopyInv, ReadInv,
           NEW synced, Clock(synced), NEW i \in Buffers,
           InQueue(i), ~IsRead(i), ~IsFilled(i), HeaderAt(i), WordsAt(i)
    PROVE  /\ Holds(buff[i], pct_hdr_array[i].id, 0, Size(i))
           /\ Size(i) \in 4 .. MAX_PAYLOAD /\ Len(buff[i]) = Size(i) /\ buff[i] # <<>>
           /\ i \in RdClearing <=> Leaves /\ i = crnt_buff_cnt
           /\ i \in RdClearing => buff'[i] = <<>> /\ rdusedw'[i] = 0
           /\ i \notin RdClearing => /\ buff'[i] = buff[i]
                                     /\ rdusedw'[i] \in {Len(buff[i]), rdusedw[i]}
           /\ ~Pops(i) /\ i \notin pct_data_wrreq
<1>1. ~Pops(i) /\ i \notin pct_data_wrreq
  BY UseStep
<1>2. i \in RdClearing <=> Leaves /\ i = crnt_buff_cnt
  BY UseStep
<1>3. pct_hdr_array[i] \in PctType /\ Whole(pct_hdr_array[i])
  BY DEF HeaderAt, TypeOK, RdTypeOK
<1>4. Size(i) \in 4 .. MAX_PAYLOAD
  BY <1>3, WholeWords DEF Size
<1>5. Holds(buff[i], pct_hdr_array[i].id, 0, Size(i)) /\ buff[i] \in Seq(Nat \X Int)
  BY WordsType DEF WordsAt
<1>6. Len(buff[i]) = Size(i) - 0
  BY <1>5 DEF Holds
<1>7. Len(buff[i]) = Size(i) /\ buff[i] # <<>>
  BY <1>4, <1>5, <1>6, MaxPayloadAssumption
<1>. QED
  BY <1>1, <1>2, <1>4, <1>5, <1>7, BuffStep

\* A buffer that is free.
LEMMA FreeBuffer ==
    ASSUME TypeOK, QueueType, RingInv, CopyInv, ReadInv,
           NEW synced, Clock(synced), NEW i \in Buffers,
           ~InQueue(i), WordsAt(i), CountsAt(i)
    PROVE  /\ buff[i] = <<>> /\ buff'[i] = <<>> /\ rdusedw[i] = 0 /\ rdusedw'[i] = 0
           /\ ~IsRead(i) /\ ~IsFilled(i) /\ ~IsRead(i)'
<1>1. ~IsRead(i) /\ ~IsFilled(i) /\ ~IsRead(i)'
  BY RoleStep
<1>2. ~Pops(i) /\ i \notin pct_data_wrreq /\ i \notin RdClearing
  BY <1>1, UseStep
<1>3. buff[i] = <<>> /\ Len(buff[i]) = 0 /\ rdusedw[i] \in Nat /\ rdusedw[i] <= Len(buff[i])
  BY WordsType DEF WordsAt, CountsAt
<1>. QED
  BY <1>1, <1>2, <1>3, BuffStep

\* A buffer holds the words that its role says.
LEMMA WordsNext ==
    ASSUME TypeOK, WrHeaderInv, QueueType, RingInv, CopyInv, ReadInv,
           NEW synced, Clock(synced), NEW i \in Buffers,
           HeaderAt(i), WordsAt(i), CountsAt(i)
    PROVE  WordsAt(i)' /\ buff'[i] \in Seq(Nat \X Int) /\ rdusedw'[i] \in Nat
<1>1. CASE ~InQueue(i)
  <2>1. buff'[i] = <<>> /\ rdusedw'[i] = 0 /\ ~IsRead(i)'
    BY <1>1, FreeBuffer
  <2>2. InQueue(i)' => IsFilled(i)' /\ Commits
    BY <1>1, RoleStep
  <2>3. InQueue(i)' => Written' = 0
    BY <2>2, CopyBegins DEF Commits, Written
  <2>4. Holds(buff'[i], pct_hdr_array'[i].id, 0, 0)
    BY <2>1 DEF Holds
  <2>. QED
    BY <2>1, <2>2, <2>3, <2>4 DEF WordsAt
<1>2. CASE InQueue(i)
  <2>0. pct_hdr_array'[i] = pct_hdr_array[i] /\ Size(i)' = Size(i)
    BY <1>2, HeaderStored DEF Size
  <2>1. CASE IsFilled(i)
    <3>1. ~IsRead(i) /\ ~IsRead(i)' /\ InQueue(i)'
      BY <2>1, RoleStep
    <3>2. /\ buff'[i] \in Seq(Nat \X Int)
          /\ IsFilled(i)' => Holds(buff'[i], pct_hdr_array[i].id, 0, Written')
          /\ ~IsFilled(i)' => Holds(buff'[i], pct_hdr_array[i].id, 0, Size(i))
      BY <2>1, FilledNext
    <3>3. rdusedw'[i] \in Nat
      <4>1. ~Pops(i) /\ i \notin RdClearing
        BY <2>1, <3>1, UseStep
      <4>. QED
        BY <4>1, BuffStep, WordsType
    <3>. QED
      BY <2>0, <3>1, <3>2, <3>3 DEF WordsAt
  <2>2. CASE IsRead(i)
    <3>1. /\ Leaves => buff'[i] = <<>>
          /\ buff'[i] \in Seq(Nat \X Int) /\ rdusedw'[i] = Len(buff'[i])
          /\ Holds(buff'[i], pct_hdr_array[i].id, rd_cnt', Size(i))
      BY <2>2, ReadBuffer
    <3>2. ~IsFilled(i)' /\ (IsRead(i)' <=> ~Leaves) /\ (InQueue(i)' <=> ~Leaves)
      BY <1>2, <2>2, RoleStep DEF IsRead, Sending
    <3>. QED
      BY <2>0, <3>1, <3>2 DEF WordsAt
  <2>3. CASE ~IsFilled(i) /\ ~IsRead(i)
    <3>1. /\ Holds(buff[i], pct_hdr_array[i].id, 0, Size(i)) /\ buff[i] \in Seq(Nat \X Int)
          /\ i \in RdClearing <=> Leaves /\ i = crnt_buff_cnt
          /\ i \in RdClearing => buff'[i] = <<>> /\ rdusedw'[i] = 0
          /\ i \notin RdClearing => buff'[i] = buff[i] /\ rdusedw'[i] \in Nat
      BY <1>2, <2>3, FullBuffer, WordsType
    <3>2. ~IsFilled(i)' /\ (InQueue(i)' <=> i \notin RdClearing)
      BY <1>2, <2>3, <3>1, RoleStep
    <3>3. IsRead(i)' => rd_cnt' = 0
      <4>1. IsRead(i)' => rd_state = "idle"
        BY <2>3, RoleStep
      <4>2. rd_state = "idle" => rd_cnt' = 0
        BY DEF Clock, RdClock, RdCounters, RdReq
      <4>. QED
        BY <4>1, <4>2, Zenon
    <3>4. buff'[i] \in Seq(Nat \X Int) /\ rdusedw'[i] \in Nat
      <4>1. <<>> \in Seq(Nat \X Int) /\ 0 \in Nat
        OBVIOUS
      <4>. QED
        BY <3>1, <4>1, Zenon
    <3>5. ~InQueue(i)' => buff'[i] = <<>>
      BY <3>1, <3>2
    <3>6. InQueue(i)' => Holds(buff'[i], pct_hdr_array'[i].id, 0, Size(i)')
      BY <2>0, <3>1, <3>2, Zenon
    <3>. QED
      BY <3>2, <3>3, <3>4, <3>5, <3>6, Zenon DEF WordsAt
  <2>. QED
    BY <2>1, <2>2, <2>3
<1>. QED
  BY <1>1, <1>2

\* What the two sides know of a buffer.
LEMMA CountsNext ==
    ASSUME TypeOK, WrHeaderInv, QueueType, RingInv, CopyInv, ReadInv,
           NEW synced, Clock(synced), NEW i \in Buffers,
           HeaderAt(i), WordsAt(i), CountsAt(i)
    PROVE  CountsAt(i)'
<1>2. /\ wrempty'[i] <=> /\ i \notin pct_data_wrreq
                         /\ wrempty[i] \/ i \in RdClearing \/ (i \in synced.wr /\ buff[i] = <<>>)
      /\ pct_buff_rdy'[i] <=> i \notin RdClearing /\ rdusedw[i] = pct_buff_size[i]
  BY DEF Clock, BuffClock, RegClock
<1>3. /\ rdusedw[i] \in Nat /\ rdusedw[i] <= Len(buff[i]) /\ Len(buff[i]) \in Nat
      /\ IsRead(i) => rdusedw[i] = Len(buff[i])
      /\ InQueue(i) /\ ~IsFilled(i) => ~wrempty[i]
      /\ pct_buff_size[i] # 0 /\ pct_buff_size[i] \in Int
      /\ pct_buff_rdy[i] /\ ~IsRead(i) => rdusedw[i] = pct_buff_size[i]
  BY WordsType DEF CountsAt, TypeOK, RegTypeOK
<1>4. pct_buff_size'[i] # 0
  <2>1. PayloadWords(pct_hdr.size) # 0
    BY MaxPayloadAssumption DEF PayloadWords
  <2>. QED
    BY <1>3, <2>1, HeaderStored
<1>5. CASE ~InQueue(i)
  <2>1. buff'[i] = <<>> /\ rdusedw'[i] = 0 /\ rdusedw[i] = 0 /\ ~IsRead(i)'
    BY <1>5, FreeBuffer
  <2>2. InQueue(i)' => IsFilled(i)'
    BY <1>5, RoleStep
  <2>3. ~pct_buff_rdy'[i]
    BY <1>2, <1>3, <2>1
  <2>4. rdusedw'[i] <= Len(buff'[i])
    BY <2>1
  <2>. QED
    BY <1>4, <2>1, <2>2, <2>3, <2>4, Zenon DEF CountsAt
<1>6. CASE InQueue(i) /\ IsFilled(i)
  <2>1. /\ Written < Size(i) /\ Len(buff[i]) = Written /\ Written \in Nat
        /\ Len(buff'[i]) >= Len(buff[i]) /\ buff'[i] \in Seq(Nat \X Int)
        /\ ~IsFilled(i)' => i \in pct_data_wrreq
    BY <1>6, FilledNext
  <2>2. ~IsRead(i) /\ ~IsRead(i)' /\ ~Pops(i) /\ i \notin RdClearing
    BY <1>6, RoleStep, UseStep
  <2>3. rdusedw'[i] \in {Len(buff[i]), rdusedw[i]}
    BY <2>2, BuffStep
  <2>4. rdusedw'[i] <= Len(buff'[i])
    BY <1>3, <2>1, <2>3
  <2>5. pct_buff_size[i] = Size(i) /\ Size(i) \in Nat
    BY <1>6, WholeWords, PayloadWordsType DEF HeaderAt, Size, TypeOK, RdTypeOK, PctType
  <2>6. ~pct_buff_rdy'[i]
    BY <1>2, <1>3, <2>1, <2>5
  <2>7. ~IsFilled(i)' => ~wrempty'[i]
    BY <1>2, <2>1
  <2>. QED
    BY <1>4, <2>2, <2>4, <2>6, <2>7, Zenon DEF CountsAt
<1>7. CASE InQueue(i) /\ IsRead(i)
  <2>1. /\ i \notin RdClearing /\ rdusedw'[i] = Len(buff'[i])
        /\ ~Leaves => buff[i] # <<>>
        /\ Leaves => rd_cnt = Size(i)
        /\ Len(buff[i]) = Size(i) - rd_cnt /\ Size(i) \in 4 .. MAX_PAYLOAD
        /\ buff'[i] \in Seq(Nat \X Int)
    BY <1>7, ReadBuffer
  <2>2. ~IsFilled(i) /\ (IsRead(i)' <=> ~Leaves) /\ (InQueue(i)' <=> ~Leaves)
    BY <1>7, RoleStep DEF IsRead, Sending
  <2>3. InQueue(i)' => ~wrempty'[i]
    BY <1>2, <1>3, <1>7, <2>1, <2>2
  <2>4. Leaves => ~pct_buff_rdy'[i]
    <3>1. Leaves => rdusedw[i] = 0
      BY <1>3, <1>7, <2>1
    <3>. QED
      BY <1>2, <1>3, <3>1
  <2>5. rdusedw'[i] <= Len(buff'[i])
    BY <2>1
  <2>. QED
    BY <1>4, <2>1, <2>2, <2>3, <2>4, <2>5, Zenon DEF CountsAt
<1>8. CASE InQueue(i) /\ ~IsRead(i) /\ ~IsFilled(i)
  <2>1. /\ Size(i) \in 4 .. MAX_PAYLOAD /\ Len(buff[i]) = Size(i) /\ buff[i] # <<>>
        /\ i \in RdClearing <=> Leaves /\ i = crnt_buff_cnt
        /\ i \in RdClearing => buff'[i] = <<>> /\ rdusedw'[i] = 0
        /\ i \notin RdClearing => /\ buff'[i] = buff[i]
                                  /\ rdusedw'[i] \in {Len(buff[i]), rdusedw[i]}
    BY <1>8, FullBuffer
  <2>2. ~IsFilled(i)' /\ (InQueue(i)' <=> i \notin RdClearing)
    BY <1>8, <2>1, RoleStep
  <2>3. pct_buff_size[i] = Size(i) /\ pct_buff_size'[i] = pct_buff_size[i]
    BY <1>8, HeaderStored DEF HeaderAt
  <2>4. rdusedw'[i] <= Len(buff'[i])
    <3>1. i \in RdClearing => rdusedw'[i] <= Len(buff'[i])
      BY <2>1
    <3>2. i \notin RdClearing => rdusedw'[i] <= Len(buff'[i])
      BY <1>3, <2>1
    <3>. QED
      BY <3>1, <3>2
  <2>5. InQueue(i)' => ~wrempty'[i]
    BY <1>2, <1>3, <1>8, <2>1, <2>2
  <2>6. pct_buff_rdy'[i] => rdusedw'[i] = pct_buff_size'[i]
    BY <1>2, <2>1, <2>3
  <2>7. IsRead(i)' => rdusedw'[i] = Len(buff'[i])
    <3>1. SUFFICES ASSUME IsRead(i)' PROVE rdusedw'[i] = Len(buff'[i])
      OBVIOUS
    <3>2. i = crnt_buff_cnt /\ rd_state = "idle" /\ rd_state' = "rd_buff"
      BY <1>8, <3>1, RoleStep
    <3>3. crnt_buff_rdy
      BY <3>2 DEF Clock, RdClock, RdFsm, RdIdle, RdClrBuff, RdBuff, RdHold,
                  RdSwitchNextBuff, RdCheckNextBuf
    <3>4. rdusedw[i] = pct_buff_size[i]
      BY <3>2, <3>3 DEF ReadInv
    <3>5. i \notin RdClearing
      BY <3>2 DEF RdClearing
    <3>. QED
      BY <2>1, <2>3, <3>4, <3>5
  <2>. QED
    BY <1>4, <2>2, <2>4, <2>5, <2>6, <2>7, Zenon DEF CountsAt
<1>. QED
  BY <1>5, <1>6, <1>7, <1>8

-----------------------------------------------------------------------------
(* The read FSM.                                                           *)

\* The oldest packet stays the oldest until it leaves.
LEMMA HeadStays ==
    ASSUME TypeOK, QueueType, RingInv, ReadInv, NEW synced, Clock(synced),
           InQueue(crnt_buff_cnt), rd_state # "switch_next_buff", ~Leaves
    PROVE  /\ Head(queue') = Head(queue) /\ queue' # <<>> /\ InQueue(crnt_buff_cnt)'
           /\ Oldest = crnt_buff_cnt /\ crnt_buff_cnt' = crnt_buff_cnt
<1>0. Oldest = crnt_buff_cnt /\ crnt_buff_cnt' = crnt_buff_cnt
  BY DEF Oldest, Clock, RdClock, RdBuffSel
<1>1. PICK c \in Buffers : c = crnt_buff_cnt
  BY DEF TypeOK, RdTypeOK
<1>2. /\ Head(queue) = queue[1] /\ Dist(Oldest, c) = 0 /\ Oldest' = c
  BY <1>0, <1>1, CrntIsHead, RdStep
<1>3. /\ queue'[Dist(Oldest', c) + 1] = queue[Dist(Oldest, c) + 1]
      /\ queue' \in Seq(PctType) /\ InQueue(c)'
  BY <1>0, <1>1, QueueStep
<1>4. Dist(Oldest', c) = 0 /\ 0 + 1 = 1
  BY <1>2, DistType
<1>5. Len(queue') > 0
  BY <1>3, <1>4 DEF InQueue
<1>6. Head(queue') = queue'[1] /\ queue' # <<>>
  BY <1>3, <1>5
<1>7. InQueue(crnt_buff_cnt)'
  BY <1>0, <1>1, <1>3
<1>. QED
  BY <1>0, <1>2, <1>3, <1>4, <1>6, <1>7

\* The read FSM starts with a packet, or clears its buffer.
LEMMA RdBegins ==
    ASSUME TypeOK, QueueType, ReadInv, NEW synced, Clock(synced),
           rd_state = "idle", rd_state' # "idle"
    PROVE  /\ rd_state' \in {"rd_buff", "clr_buff"}
           /\ InQueue(crnt_buff_cnt) /\ ~IsFilled(crnt_buff_cnt)
           /\ crnt_buff_payload_size = Head(queue).size
           /\ rd_state' = "rd_buff" =>
                 \/ SYNC_DIS \/ Head(queue).dis
                 \/ sample_nr \in Head(queue).nr .. Head(queue).nr + 4
           /\ rd_state' = "clr_buff" =>
                 ~SYNC_DIS /\ ~Head(queue).dis /\ Head(queue).nr < sample_nr
<1>1. RdIdle(SYNC_DIS)
  BY DEF Clock, RdClock, RdFsm, RdIdle, RdClrBuff, RdBuff, RdHold, RdSwitchNextBuff,
         RdCheckNextBuf
<1>2. /\ crnt_buff_rdy
      /\ rd_state' = "rd_buff" => \/ SYNC_DIS \/ crnt_buff_pct_synch_dis
                                  \/ crnt_buff_pct_smpl_nr_equal
      /\ rd_state' # "rd_buff" => /\ ~SYNC_DIS /\ ~crnt_buff_pct_synch_dis
                                  /\ crnt_buff_pct_smpl_nr_less
                                  /\ rd_state' = "clr_buff"
  BY <1>1 DEF RdIdle, RdSynchOff
<1>3. /\ InQueue(crnt_buff_cnt) /\ ~IsFilled(crnt_buff_cnt)
      /\ crnt_buff_payload_size = Head(queue).size
      /\ crnt_buff_pct_synch_dis = Head(queue).dis
      /\ crnt_buff_pct_smpl_nr_equal => sample_nr \in Head(queue).nr .. Head(queue).nr + 4
      /\ crnt_buff_pct_smpl_nr_less => Head(queue).nr < sample_nr
  BY <1>2 DEF ReadInv
<1>. QED
  BY <1>2, <1>3

\* What the history says of a packet that stays.
LEMMA EmittedStep ==
    ASSUME TypeOK, QueueType, ReadInv, NEW synced, Clock(synced)
    PROVE  /\ Leaves => emitted' = 0
           /\ ~Leaves => emitted' = IF Sending THEN rd_cnt ELSE 0
           /\ emitted' \in Nat
<1>1. emitted' = IF Finishes THEN 0
                 ELSE IF smpl_buff_valid' THEN emitted + 1 ELSE emitted
  BY Zenon DEF Clock, HistClock
<1>2. emitted' = IF Leaves THEN 0 ELSE IF smpl_buff_valid_int THEN emitted + 1 ELSE emitted
  BY <1>1, FinishesLeaves, Zenon
<1>3. /\ Sending => rd_cnt = IF smpl_buff_valid_int THEN emitted + 1 ELSE emitted
      /\ ~Sending => emitted = 0 /\ ~smpl_buff_valid_int
  BY DEF ReadInv, Sending
<1>4. emitted \in Nat /\ rd_cnt \in Nat
  BY DEF QueueType, TypeOK, RdTypeOK
<1>. QED
  BY <1>2, <1>3, <1>4

\* The packet that is sent after the clock was the oldest before.
LEMMA SendingStep ==
    ASSUME TypeOK, QueueType, RingInv, CopyInv, ReadInv, BuffersInv,
           NEW synced, Clock(synced), Sending'
    PROVE  /\ (rd_state = "idle" /\ rd_state' = "rd_buff") \/ (Sending /\ ~Leaves)
           /\ rd_state # "switch_next_buff" /\ ~Leaves
           /\ InQueue(crnt_buff_cnt)' /\ ~IsFilled(crnt_buff_cnt)'
           /\ Head(queue') = Head(queue) /\ Head(queue) \in PctType
           /\ Head(queue) = pct_hdr_array[crnt_buff_cnt]
           /\ crnt_buff_cnt' = crnt_buff_cnt
           /\ PayloadWords(Head(queue).size) \in 4 .. MAX_PAYLOAD
           /\ crnt_buff_payload_size = Head(queue).size
<1>1. (rd_state = "idle" /\ rd_state' = "rd_buff") \/ (Sending /\ ~Leaves)
  BY RdStep
<1>2. rd_state # "switch_next_buff" /\ ~Leaves
  BY <1>1 DEF Sending, Leaves
<1>3. /\ InQueue(crnt_buff_cnt) /\ ~IsFilled(crnt_buff_cnt)
      /\ crnt_buff_payload_size = Head(queue).size
  BY <1>1, RdBegins DEF ReadInv
<1>4. PICK c \in Buffers : c = crnt_buff_cnt
  BY DEF TypeOK, RdTypeOK
<1>5. /\ Head(queue') = Head(queue) /\ InQueue(crnt_buff_cnt)'
      /\ Oldest = crnt_buff_cnt /\ crnt_buff_cnt' = crnt_buff_cnt
  BY <1>2, <1>3, HeadStays
<1>6. ~IsFilled(c)'
  BY <1>3, <1>4, RoleStep
<1>7. ~IsFilled(crnt_buff_cnt)'
  BY <1>4, <1>5, <1>6 DEF IsFilled
<1>8. /\ Head(queue) = pct_hdr_array[crnt_buff_cnt] /\ Head(queue) \in PctType
      /\ PayloadWords(Head(queue).size) \in 4 .. MAX_PAYLOAD
  BY <1>3, <1>4, <1>5, HeadIsRead DEF BuffersInv, Size
<1>. QED
  BY <1>1, <1>2, <1>3, <1>5, <1>7, <1>8

\* The counts, the output register and the history agree.
LEMMA CountStep ==
    ASSUME TypeOK, QueueType, RingInv, CopyInv, ReadInv, BuffersInv,
           NEW synced, Clock(synced), Sending'
    PROVE  /\ rd_cnt_max' = PayloadWords(Head(queue).size)
           /\ smpl_buff_valid_int' =>
                 /\ rd_cnt' = emitted' + 1
                 /\ buff_q'[crnt_buff_cnt] = <<Head(queue).id, emitted'>>
           /\ ~smpl_buff_valid_int' => rd_cnt' = emitted'
           /\ rd_state' = "switch_next_buff" => rd_cnt' = rd_cnt_max'
           /\ rd_state' # "switch_next_buff" => rd_cnt' < rd_cnt_max'
<1>1. PICK n, c : n = PayloadWords(Head(queue).size) /\ c = rd_cnt
  OBVIOUS
<1>2. /\ (rd_state = "idle" /\ rd_state' = "rd_buff") \/ (Sending /\ ~Leaves)
      /\ n \in 4 .. MAX_PAYLOAD /\ crnt_buff_payload_size = Head(queue).size
      /\ ~Leaves /\ rd_state # "switch_next_buff"
      /\ Head(queue) = pct_hdr_array[crnt_buff_cnt]
  BY <1>1, SendingStep
<1>3. /\ rd_cnt_max' = n
      /\ rd_state = "idle" => rd_cnt' = 0
      /\ rd_state # "idle" => rd_cnt' = IF rd_state = "rd_buff" /\ ~almost_full
                                        THEN c + 1 ELSE c
      /\ smpl_buff_valid_int' <=> rd_state = "rd_buff" /\ ~almost_full
  BY <1>1, <1>2 DEF Clock, RdClock, RdCounters, RdReq, RegClock, Reading
<1>4. emitted' = IF Sending THEN c ELSE 0
  BY <1>1, <1>2, EmittedStep
<1>5. n \in Nat /\ n > 0 /\ n - 1 < 65536 /\ c \in Nat
  BY <1>1, <1>2, MaxPayloadAssumption DEF TypeOK, RdTypeOK
<1>6. CASE rd_state = "idle"
  <2>1. ~Sending /\ rd_state' = "rd_buff"
    BY <1>2, <1>6 DEF Sending
  <2>. QED
    BY <1>1, <1>3, <1>4, <1>5, <1>6, <2>1
<1>7. CASE Sending
  <2>1. rd_state # "idle" /\ rd_cnt_max = n /\ c < n
    BY <1>1, <1>2, <1>7 DEF Sending, ReadInv
  <2>2. PICK b \in Buffers : b = crnt_buff_cnt
    BY DEF TypeOK, RdTypeOK
  <2>3. IsRead(b) /\ HeaderAt(b) /\ WordsAt(b) /\ CountsAt(b)
    BY <1>7, <2>2 DEF IsRead, BuffersInv
  <2>4. smpl_buff_valid_int' => Pops(b) /\ Head(buff[b]) = <<Head(queue).id, c>>
    BY <1>1, <1>2, <1>3, <2>2, <2>3, ReadBuffer
  <2>5. smpl_buff_valid_int' => buff_q'[crnt_buff_cnt] = <<Head(queue).id, emitted'>>
    BY <1>4, <1>7, <2>2, <2>4, BuffStep
  <2>6. (n - 1) % 65536 = n - 1
    BY <1>5
  <2>7. /\ rd_state = "rd_buff" /\ ~almost_full =>
               rd_state' = IF c < n - 1 THEN "rd_buff" ELSE "switch_next_buff"
        /\ ~(rd_state = "rd_buff" /\ ~almost_full) => rd_state' # "switch_next_buff"
    BY <1>1, <1>2, <2>1, <2>6
    DEF Clock, RdClock, RdFsm, RdIdle, RdClrBuff, RdBuff, RdHold, RdSwitchNextBuff,
        RdCheckNextBuf, Sending
  <2>8. /\ rd_state' = "switch_next_buff" => rd_cnt' = n
        /\ rd_state' # "switch_next_buff" => rd_cnt' < n
    BY <1>3, <1>5, <2>1, <2>7
  <2>. QED
    BY <1>1, <1>3, <1>4, <1>5, <1>7, <2>1, <2>5, <2>8
<1>. QED
  BY <1>2, <1>6, <1>7

\* A packet that starts is due, and stays due.
LEMMA DueStep ==
    ASSUME TypeOK, QueueType, RingInv, CopyInv, ReadInv, BuffersInv,
           NEW synced, Clock(synced), Sending'
    PROVE  Due(Head(queue))'
<1>1. PICK p \in PctType : p = Head(queue)
  BY SendingStep
<1>2. PICK s, t : s = sample_nr /\ t = sample_nr'
  OBVIOUS
<1>3. s \in Nat /\ (t = s \/ t = s + 1) /\ p.nr \in Nat
  BY <1>1, <1>2 DEF TypeOK, EnvTypeOK, Clock, PortClock, PctType
<1>4. SYNC_DIS \/ p.dis \/ p.nr <= s
  <2>1. CASE rd_state = "idle" /\ rd_state' = "rd_buff"
    <3>1. SYNC_DIS \/ p.dis \/ s \in p.nr .. p.nr + 4
      BY <1>1, <1>2, <2>1, RdBegins
    <3>. QED
      BY <1>3, <3>1
  <2>2. CASE Sending
    BY <1>1, <1>2, <2>2 DEF ReadInv, Due
  <2>. QED
    BY <2>1, <2>2, SendingStep
<1>5. p.nr <= s => p.nr <= t
  BY <1>3
<1>6. Head(queue') = p
  BY <1>1, SendingStep
<1>. QED
  BY <1>2, <1>4, <1>5, <1>6 DEF Due

\* The buffer that the multiplexers show as ready holds the oldest packet.
LEMMA MuxStep ==
    ASSUME TypeOK, WrHeaderInv, QueueType, RingInv, CopyInv, ReadInv, BuffersInv,
           NEW synced, Clock(synced), rd_state' = "idle", crnt_buff_rdy'
    PROVE  /\ InQueue(crnt_buff_cnt)' /\ ~IsFilled(crnt_buff_cnt)'
           /\ rdusedw'[crnt_buff_cnt'] = pct_buff_size'[crnt_buff_cnt']
           /\ crnt_buff_payload_size' = Head(queue').size
           /\ crnt_buff_pct_synch_dis' = Head(queue').dis
           /\ crnt_buff_pct_smpl_nr_equal' =>
                  sample_nr' \in Head(queue').nr .. Head(queue').nr + 4
           /\ crnt_buff_pct_smpl_nr_less' => Head(queue').nr < sample_nr'
<1>1. rd_state \in {"idle", "check_next_buf"}
  BY DEF Clock, RdClock, RdFsm, RdIdle, RdClrBuff, RdBuff, RdHold, RdSwitchNextBuff,
         RdCheckNextBuf
<1>2. ~Leaves /\ ~Sending /\ RdClearing = {} /\ rd_state # "switch_next_buff"
  BY <1>1 DEF Leaves, Sending, RdClearing
<1>3. PICK c \in Buffers : c = crnt_buff_cnt
  BY DEF TypeOK, RdTypeOK
<1>4. /\ pct_buff_rdy[c]
      /\ crnt_buff_pct_synch_dis' = pct_hdr_array[c].dis
      /\ crnt_buff_pct_smpl_nr_equal' = rd_smpl_nr_equal[c][3]
      /\ crnt_buff_pct_smpl_nr_less' = rd_smpl_nr_less[c][3]
      /\ crnt_buff_payload_size' = pct_hdr_array[c].size
  BY <1>3 DEF Clock, RdClock, RdBuffSel, PipeOut
<1>5. HeaderAt(c) /\ WordsAt(c) /\ CountsAt(c)
  BY DEF BuffersInv
<1>6. ~IsRead(c) /\ c \notin RdClearing
  BY <1>2 DEF IsRead
<1>7. /\ rdusedw[c] = pct_buff_size[c] /\ rdusedw[c] # 0
      /\ rdusedw[c] <= Len(buff[c]) /\ rdusedw[c] \in Nat /\ Len(buff[c]) \in Nat
  BY <1>4, <1>5, <1>6, WordsType DEF CountsAt
<1>8. InQueue(c)
  <2>1. Len(buff[c]) # 0
    BY <1>7
  <2>2. buff[c] # <<>>
    BY <2>1
  <2>. QED
    BY <1>5, <2>2 DEF WordsAt
<1>9. pct_buff_size[c] = Size(c) /\ AnswersAt(c, 3)
  BY <1>5, <1>8 DEF HeaderAt
<1>10. ~IsFilled(c)
  <2>1. SUFFICES ASSUME IsFilled(c) PROVE FALSE
    OBVIOUS
  <2>2. Written < Size(c) /\ Len(buff[c]) = Written /\ Written \in Nat
    BY <1>5, <2>1, FilledNext
  <2>. QED
    BY <1>7, <1>9, <2>2
<1>11. /\ Head(queue') = Head(queue) /\ InQueue(crnt_buff_cnt)'
       /\ Oldest = crnt_buff_cnt /\ crnt_buff_cnt' = crnt_buff_cnt
  BY <1>2, <1>3, <1>8, HeadStays
<1>12. Head(queue) = pct_hdr_array[c] /\ Head(queue) \in PctType
  BY <1>3, <1>5, <1>8, <1>11, HeadIsRead
<1>13. ~IsFilled(crnt_buff_cnt)'
  <2>1. ~IsFilled(c)'
    BY <1>8, <1>10, RoleStep
  <2>. QED
    BY <1>3, <1>11, <2>1 DEF IsFilled
<1>14. rdusedw'[c] = pct_buff_size'[c]
  <2>1. rdusedw'[c] \in {Len(buff[c]), rdusedw[c]} /\ Len(buff[c]) = Size(c)
    BY <1>5, <1>6, <1>8, <1>10, FullBuffer
  <2>2. pct_buff_size'[c] = pct_buff_size[c]
    BY <1>8, HeaderStored
  <2>. QED
    BY <1>7, <1>9, <2>1, <2>2
<1>15. /\ rd_smpl_nr_equal[c][3] => sample_nr' \in Head(queue).nr .. Head(queue).nr + 4
       /\ rd_smpl_nr_less[c][3] => Head(queue).nr < sample_nr'
  <2>1. PICK h, s, t : h = pct_hdr_array[c].nr /\ s = sample_nr /\ t = sample_nr'
    OBVIOUS
  <2>2. h \in Nat /\ s \in Nat /\ (t = s \/ t = s + 1)
    BY <2>1 DEF Clock, PortClock, TypeOK, EnvTypeOK, RdTypeOK, PctType
  <2>3. /\ rd_smpl_nr_equal[c][3] => s \in h .. h + 3
        /\ rd_smpl_nr_less[c][3] => h < s
    BY <1>9, <2>1 DEF AnswersAt
  <2>4. (s \in h .. h + 3 => t \in h .. h + 4) /\ (h < s => h < t)
    BY <2>2
  <2>. QED
    BY <1>12, <2>1, <2>3, <2>4
<1>. QED
  BY <1>3, <1>4, <1>11, <1>12, <1>13, <1>14, <1>15

\* The read FSM stays with the oldest packet.
LEMMA ReadNext ==
    ASSUME TypeOK, WrHeaderInv, QueueType, RingInv, CopyInv, ReadInv, BuffersInv,
           NEW synced, Clock(synced)
    PROVE  ReadInv'
<1>1. smpl_buff_valid_int' => rd_state' \in {"rd_buff", "switch_next_buff"}
  <2>1. smpl_buff_valid_int' <=> rd_state = "rd_buff" /\ ~almost_full
    BY DEF Clock, RegClock, Reading, RdReq
  <2>2. rd_state = "rd_buff" /\ ~almost_full =>
            rd_state' \in {"rd_buff", "switch_next_buff"}
    BY DEF Clock, RdClock, RdFsm, RdIdle, RdClrBuff, RdBuff, RdHold,
           RdSwitchNextBuff, RdCheckNextBuf
  <2>. QED
    BY <2>1, <2>2
<1>2. ASSUME rd_state' = "clr_buff"
      PROVE  /\ InQueue(crnt_buff_cnt)' /\ ~IsFilled(crnt_buff_cnt)'
             /\ ~SYNC_DIS /\ ~Head(queue').dis /\ Head(queue').nr < sample_nr'
  <2>1. rd_state = "idle"
    BY <1>2 DEF Clock, RdClock, RdFsm, RdIdle, RdClrBuff, RdBuff, RdHold,
                RdSwitchNextBuff, RdCheckNextBuf
  <2>2. /\ InQueue(crnt_buff_cnt) /\ ~IsFilled(crnt_buff_cnt)
        /\ ~SYNC_DIS /\ ~Head(queue).dis /\ Head(queue).nr < sample_nr
    BY <1>2, <2>1, RdBegins
  <2>3. ~Leaves /\ rd_state # "switch_next_buff"
    BY <2>1 DEF Leaves
  <2>4. /\ Head(queue') = Head(queue) /\ InQueue(crnt_buff_cnt)'
        /\ Oldest = crnt_buff_cnt /\ crnt_buff_cnt' = crnt_buff_cnt
    BY <2>2, <2>3, HeadStays
  <2>5. PICK c \in Buffers : c = crnt_buff_cnt
    BY DEF TypeOK, RdTypeOK
  <2>6. ~IsFilled(c)'
    BY <2>2, <2>5, RoleStep
  <2>7. ~IsFilled(crnt_buff_cnt)'
    BY <2>4, <2>5, <2>6 DEF IsFilled
  <2>8. Head(queue).nr < sample_nr'
    <3>1. Head(queue) \in PctType
      BY <2>2, <2>4, CrntIsHead
    <3>2. Head(queue).nr \in Nat
      BY <3>1 DEF PctType
    <3>. QED
      BY <2>2, <3>2 DEF Clock, PortClock, TypeOK, EnvTypeOK
  <2>. QED
    BY <2>2, <2>4, <2>7, <2>8
<1>3. ASSUME ~Sending'
      PROVE  emitted' = 0
  BY <1>3, RdStep, EmittedStep
<1>4. ASSUME Sending'
      PROVE  /\ InQueue(crnt_buff_cnt)' /\ ~IsFilled(crnt_buff_cnt)'
             /\ crnt_buff_payload_size' = Head(queue').size
             /\ rd_cnt_max' = PayloadWords(Head(queue').size)
             /\ smpl_buff_valid_int' =>
                   /\ rd_cnt' = emitted' + 1
                   /\ buff_q'[crnt_buff_cnt'] = <<Head(queue').id, emitted'>>
             /\ ~smpl_buff_valid_int' => rd_cnt' = emitted'
             /\ rd_state' = "switch_next_buff" => rd_cnt' = rd_cnt_max'
             /\ rd_state' # "switch_next_buff" => rd_cnt' < rd_cnt_max'
             /\ Due(Head(queue))'
  <2>1. /\ InQueue(crnt_buff_cnt)' /\ ~IsFilled(crnt_buff_cnt)'
        /\ Head(queue') = Head(queue) /\ crnt_buff_cnt' = crnt_buff_cnt
        /\ Head(queue) = pct_hdr_array[crnt_buff_cnt]
    BY <1>4, SendingStep
  <2>2. crnt_buff_payload_size' = Head(queue).size
    BY <2>1 DEF Clock, RdClock, RdBuffSel
  <2>. QED
    BY <1>4, <2>1, <2>2, CountStep, DueStep
<1>. QED
  BY <1>1, <1>2, <1>3, <1>4, MuxStep, Zenon DEF ReadInv

-----------------------------------------------------------------------------
(* The invariant.                                                          *)

P2dInv ==
    TypeOK /\ WrHeaderInv /\ QueueType /\ RingInv /\ CopyInv /\ BuffersInv /\ ReadInv

LEMMA P2dInit == Init => P2dInv
<1>. SUFFICES ASSUME Init PROVE P2dInv
  OBVIOUS
<1>1. TypeOK /\ WrHeaderInv
  BY TypeInit, WrHeaderInit
<1>2. QueueType
  BY DEF Init, QueueType
<1>3. /\ wr_state = "idle" /\ rd_state = "idle" /\ queue = <<>> /\ emitted = 0
      /\ crnt_buff_cnt = 0 /\ current_buff_cnt = 0 /\ next_buff_cnt = 0
      /\ ~next_buff_rdy /\ ~crnt_buff_rdy /\ ~smpl_buff_valid_int
      /\ pct = NoPacket /\ pct_hdr_valid = {} /\ pct_data_wrreq = {}
  BY DEF Init, WrInit, RdInit, PctFifoInit
<1>4. Oldest = 0 /\ ~Sending /\ ~Copying /\ ~HeaderHeld /\ Len(queue) = 0
  BY <1>3 DEF Oldest, Sending, Copying, HeaderHeld
<1>5. RingInv
  BY <1>3, <1>4, BuffCountAssumption DEF RingInv, Behind
<1>6. CopyInv
  BY <1>3, <1>4, WholePackets DEF CopyInv
<1>7. ASSUME NEW i \in Buffers
      PROVE  /\ ~InQueue(i) /\ ~IsRead(i) /\ ~IsFilled(i)
             /\ buff[i] = <<>> /\ rdusedw[i] = 0 /\ ~pct_buff_rdy[i] /\ pct_buff_size[i] # 0
  <2>1. ~InQueue(i)
    BY <1>4, ZeroIsBuffer, DistType DEF InQueue, Buffers
  <2>. QED
    BY <1>4, <2>1 DEF Init, IsRead, IsFilled
<1>8. ASSUME NEW i \in Buffers
      PROVE  HeaderAt(i) /\ WordsAt(i) /\ CountsAt(i)
  <2>1. HeaderAt(i)
    BY <1>3, <1>4, <1>7 DEF HeaderAt
  <2>2. WordsAt(i)
    BY <1>7 DEF WordsAt
  <2>3. CountsAt(i)
    <3>1. rdusedw[i] <= Len(buff[i])
      BY <1>7
    <3>. QED
      BY <1>7, <3>1 DEF CountsAt
  <2>. QED
    BY <2>1, <2>2, <2>3
<1>9. ReadInv
  BY <1>3, <1>4 DEF ReadInv
<1>. QED
  BY <1>1, <1>2, <1>5, <1>6, <1>8, <1>9 DEF P2dInv, BuffersInv

LEMMA P2dSame == P2dInv /\ UNCHANGED vars => P2dInv'
<1>. SUFFICES ASSUME P2dInv, UNCHANGED vars PROVE P2dInv'
  OBVIOUS
<1>1. TypeOK' /\ WrHeaderInv'
  BY TypeNext, WrHeaderNext DEF P2dInv
<1>. USE DEF vars, wrVars, rdVars, pctVars, buffVars, regVars, portVars, histVars
<1>2. /\ Oldest' = Oldest /\ (Sending' <=> Sending) /\ (Copying' <=> Copying)
      /\ (HeaderHeld' <=> HeaderHeld) /\ Written' = Written
  BY DEF Oldest, Sending, Copying, HeaderHeld, Written
<1>3. \A i \in Buffers : /\ InQueue(i)' <=> InQueue(i)
                         /\ IsRead(i)' <=> IsRead(i)
                         /\ IsFilled(i)' <=> IsFilled(i)
                         /\ \A n \in Nat : AnswersAt(i, n)' <=> AnswersAt(i, n)
                         /\ Size(i)' = Size(i)
  BY <1>2 DEF InQueue, IsRead, IsFilled, AnswersAt, Size
<1>4. QueueType' /\ RingInv'
  BY <1>2 DEF P2dInv, QueueType, RingInv
<1>5. CopyInv'
  <2>1. \A u : CopyAt(u)' <=> CopyAt(u)
    BY DEF CopyAt
  <2>. QED
    BY <1>2, <2>1 DEF P2dInv, CopyInv, WrQuiet, HeaderRead
<1>6. BuffersInv'
  <2>. SUFFICES ASSUME NEW i \in Buffers PROVE (HeaderAt(i) /\ WordsAt(i) /\ CountsAt(i))'
    BY DEF BuffersInv
  <2>1. HeaderAt(i) /\ WordsAt(i) /\ CountsAt(i)
    BY DEF P2dInv, BuffersInv
  <2>2. HeaderAt(i)'
    BY <1>2, <1>3, <2>1 DEF HeaderAt
  <2>3. WordsAt(i)'
    BY <1>2, <1>3, <2>1 DEF WordsAt
  <2>4. CountsAt(i)'
    BY <1>2, <1>3, <2>1 DEF CountsAt
  <2>. QED
    BY <2>2, <2>3, <2>4
<1>7. ReadInv'
  <2>1. crnt_buff_cnt \in Buffers
    BY DEF P2dInv, TypeOK, RdTypeOK
  <2>. QED
    BY <1>2, <1>3, <2>1 DEF P2dInv, ReadInv, Due
<1>. QED
  BY <1>1, <1>4, <1>5, <1>6, <1>7 DEF P2dInv

\* Every step keeps the invariant.
LEMMA P2dNext == P2dInv /\ [Next]_vars => P2dInv'
<1>1. ASSUME P2dInv, NEW synced \in Crossings, Clock(synced) PROVE P2dInv'
  <2>1. /\ TypeOK /\ WrHeaderInv /\ QueueType /\ RingInv /\ CopyInv /\ BuffersInv
        /\ ReadInv
    BY <1>1 DEF P2dInv
  <2>2. TypeOK' /\ WrHeaderInv'
    BY <1>1, <2>1, TypeNext, WrHeaderNext DEF Next
  <2>3. \A i \in Buffers : HeaderAt(i) /\ WordsAt(i) /\ CountsAt(i)
    BY <2>1 DEF BuffersInv
  <2>4. \A i \in Buffers : /\ HeaderAt(i)' /\ WordsAt(i)' /\ CountsAt(i)'
                           /\ buff'[i] \in Seq(Nat \X Int) /\ rdusedw'[i] \in Nat
    <3>. TAKE i \in Buffers
    <3>. QED
      BY <1>1, <2>1, <2>3, HeaderNext, WordsNext, CountsNext
  <2>5. BuffersInv'
    BY <2>4 DEF BuffersInv
  <2>6. RingInv' /\ CopyInv' /\ ReadInv'
    BY <1>1, <2>1, RingNext, CopyNext, ReadNext
  <2>7. QueueType'
    <3>1. queue' \in Seq(PctType)
      BY <1>1, <2>1, QueueStep
    <3>2. emitted' \in Nat
      BY <1>1, <2>1, EmittedStep
    <3>3. buff' = [i \in Buffers |-> buff'[i]] /\ rdusedw' = [i \in Buffers |-> rdusedw'[i]]
      BY <1>1 DEF Clock, BuffClock
    <3>4. buff' \in [Buffers -> Seq(Nat \X Int)] /\ rdusedw' \in [Buffers -> Nat]
      BY <2>4, <3>3
    <3>. QED
      BY <3>1, <3>2, <3>4 DEF QueueType
  <2>. QED
    BY <2>2, <2>5, <2>6, <2>7 DEF P2dInv
<1>. QED
  BY <1>1, P2dSame DEF Next

\* The ring, the buffers and the two FSMs agree, whatever the timing: the write FSM
\* stays in front of the read FSM, and each knows of a buffer what it relies on.
THEOREM RingCorrect == Spec => []P2dInv
  BY P2dInit, P2dNext, PTL DEF Spec

-----------------------------------------------------------------------------
(* What the invariant is for.                                              *)

\* A buffer that is filled holds less than its packet.
LEMMA WrittenBound ==
    ASSUME P2dInv, NEW i \in Buffers, IsFilled(i), InQueue(i)
    PROVE  Written \in Nat /\ Written < Size(i)
<1>1. /\ pct_hdr \in PctType /\ Whole(pct_hdr) /\ wr_rd_cnt_max = PctWords(pct_hdr)
      /\ \E u \in 1 .. wr_rd_cnt_max + 2 : CopyAt(u)
      /\ TypeOK
  BY DEF P2dInv, CopyInv, IsFilled, TypeOK, WrTypeOK
<1>2. PICK m : m = wr_rd_cnt_max
  OBVIOUS
<1>3. PICK u \in 1 .. m + 2 : CopyAt(u)
  BY <1>1, <1>2
<1>4. m \in Nat /\ m >= 3 /\ 2 * (m - 1) = PayloadWords(pct_hdr.size)
  BY <1>1, <1>2, WholeWords
<1>5. Size(i) = 2 * (m - 1)
  BY <1>4 DEF P2dInv, BuffersInv, HeaderAt, Size
<1>6. Written = IF u >= 4 THEN 2 * (u - 4) ELSE 0
  BY <1>1, <1>2, <1>3, WrittenAt
<1>. QED
  BY <1>4, <1>5, <1>6

\* A buffer with words in it holds words of the packet in its header slot.
LEMMA HeldWords ==
    ASSUME P2dInv, NEW i \in Buffers, buff[i] # <<>>
    PROVE  /\ pct_buff_size[i] = Size(i) /\ Size(i) \in Nat
           /\ \E lo, hi \in Nat : hi <= Size(i) /\ Holds(buff[i], pct_hdr_array[i].id, lo, hi)
<1>1. HeaderAt(i) /\ WordsAt(i) /\ TypeOK
  BY DEF P2dInv, BuffersInv
<1>2. InQueue(i)
  BY <1>1 DEF WordsAt
<1>3. pct_buff_size[i] = Size(i) /\ Size(i) \in Nat
  <2>1. pct_hdr_array[i] \in PctType /\ Whole(pct_hdr_array[i]) /\ pct_buff_size[i] = Size(i)
    BY <1>1, <1>2 DEF HeaderAt, TypeOK, RdTypeOK
  <2>2. Size(i) \in 4 .. MAX_PAYLOAD
    BY <2>1, WholeWords DEF Size
  <2>. QED
    BY <2>1, <2>2, MaxPayloadAssumption
<1>4. rd_cnt \in Nat /\ 0 \in Nat /\ Size(i) <= Size(i)
  BY <1>1, <1>3 DEF TypeOK, RdTypeOK
<1>5. CASE IsFilled(i)
  <2>1. Written \in Nat /\ Written <= Size(i)
    BY <1>2, <1>3, <1>5, WrittenBound
  <2>. QED
    BY <1>1, <1>2, <1>3, <1>4, <1>5, <2>1 DEF WordsAt
<1>6. CASE IsRead(i)
  BY <1>1, <1>2, <1>3, <1>4, <1>6 DEF WordsAt
<1>7. CASE ~IsFilled(i) /\ ~IsRead(i)
  BY <1>1, <1>2, <1>3, <1>4, <1>7 DEF WordsAt
<1>. QED
  BY <1>5, <1>6, <1>7

\* The buffers hold the words of the packets in their header slots, in order
\* and without a gap, as the write FSM stores headers only in free slots.
THEOREM BuffersMatchHeaders == Spec => []BufferMatchesHeader
<1>1. P2dInv => BufferMatchesHeader
  <2>. SUFFICES ASSUME P2dInv, NEW i \in Buffers, buff[i] # <<>>
                PROVE  /\ Len(buff[i]) <= pct_buff_size[i]
                       /\ pct_buff_size[i] = PayloadWords(pct_hdr_array[i].size)
                       /\ \A j \in 1 .. Len(buff[i]) :
                              buff[i][j] = <<pct_hdr_array[i].id, Head(buff[i])[2] + j - 1>>
    BY DEF BufferMatchesHeader
  <2>1. /\ pct_buff_size[i] = Size(i) /\ Size(i) \in Nat
        /\ \E lo, hi \in Nat : hi <= Size(i) /\ Holds(buff[i], pct_hdr_array[i].id, lo, hi)
    BY HeldWords
  <2>2. PICK id, s : id = pct_hdr_array[i].id /\ s = buff[i]
    OBVIOUS
  <2>3. PICK lo \in Nat, hi \in Nat : hi <= Size(i) /\ Holds(s, id, lo, hi)
    BY <2>1, <2>2
  <2>4. s \in Seq(Nat \X Int) /\ s # <<>> /\ Len(s) \in Nat /\ Len(s) >= 1 /\ Head(s) = s[1]
    BY <2>2 DEF P2dInv, QueueType
  <2>5. Len(s) = hi - lo /\ \A j \in 1 .. hi - lo : s[j] = <<id, lo + j - 1>>
    BY <2>3 DEF Holds
  <2>6. s[1] = <<id, lo>>
    <3>1. 1 \in 1 .. hi - lo /\ lo + 1 - 1 = lo
      BY <2>3, <2>4, <2>5
    <3>. QED
      BY <2>5, <3>1
  <2>7. Len(s) <= Size(i)
    BY <2>1, <2>3, <2>5
  <2>8. Head(s)[2] = lo
    BY <2>4, <2>6
  <2>. QED
    BY <2>1, <2>2, <2>5, <2>7, <2>8 DEF Size
<1>. QED
  BY <1>1, RingCorrect, PTL

\* The FIFOs of the ring are used within their limits: every word that is
\* requested is there, and no word is written where the read FSM is.
THEOREM RingIsSafe == Spec => []RingSafe
<1>1. P2dInv => NoWriteWhileReading
  <2>. SUFFICES ASSUME P2dInv, rd_state \in {"rd_buff", "rd_hold", "clr_buff"},
                       crnt_buff_cnt \in pct_data_wrreq
                PROVE  FALSE
    BY DEF NoWriteWhileReading
  <2>1. PICK c \in Buffers : c = crnt_buff_cnt
    BY DEF P2dInv, TypeOK, RdTypeOK
  <2>2. IsFilled(c)
    BY <2>1, UseStep DEF P2dInv
  <2>. QED
    BY <2>1, <2>2 DEF P2dInv, ReadInv, Sending
<1>2. P2dInv /\ in_pct_rdreq => pct # NoPacket
  <2>. SUFFICES ASSUME P2dInv, in_pct_rdreq PROVE pct # NoPacket
    OBVIOUS
  <2>1. CASE Copying
    <3>1. pct_hdr # NoPacket /\ \E u \in 1 .. wr_rd_cnt_max + 2 : CopyAt(u)
      BY <2>1 DEF P2dInv, CopyInv
    <3>2. PICK u \in 1 .. wr_rd_cnt_max + 2 : CopyAt(u)
      BY <3>1
    <3>3. u <= wr_rd_cnt_max
      BY <3>2 DEF CopyAt, P2dInv, TypeOK, WrTypeOK
    <3>. QED
      BY <3>1, <3>2, <3>3 DEF CopyAt
  <2>2. CASE ~Copying
    <3>1. wr_state # "switch_next_buff"
      BY DEF P2dInv, CopyInv, WrQuiet
    <3>2. wr_state = "wait_cmpr_pipe"
      BY <2>2, <3>1
      DEF P2dInv, TypeOK, WrTypeOK, WrStates, Copying, WrHeaderInv, WrQuiet
    <3>. QED
      BY <3>2 DEF P2dInv, WrHeaderInv, WrQuiet, Offered, HeaderRead
  <2>. QED
    BY <2>1, <2>2
<1>3. P2dInv => \A i \in Reading : Pops(i)
  <2>. SUFFICES ASSUME P2dInv, rd_state = "rd_buff",
                       NEW c \in Buffers, c = crnt_buff_cnt
                PROVE  rdusedw[c] > 0
    BY DEF Reading, RdReq, Pops, P2dInv, TypeOK, RdTypeOK
  <2>1. IsRead(c) /\ Sending /\ InQueue(c) /\ ~IsFilled(c) /\ Oldest = c
    BY DEF IsRead, Sending, P2dInv, ReadInv, Oldest
  <2>2. HeaderAt(c) /\ WordsAt(c) /\ CountsAt(c)
    BY DEF P2dInv, BuffersInv
  <2>3. Head(queue) = pct_hdr_array[c] /\ Size(c) \in 4 .. MAX_PAYLOAD
    BY <2>1, <2>2, HeadIsRead DEF P2dInv
  <2>4. rd_cnt < Size(c) /\ rd_cnt \in Nat /\ Size(c) \in Nat
    BY <2>1, <2>3, MaxPayloadAssumption DEF P2dInv, ReadInv, Size, TypeOK, RdTypeOK
  <2>5. Holds(buff[c], pct_hdr_array[c].id, rd_cnt, Size(c)) /\ rdusedw[c] = Len(buff[c])
    BY <2>1, <2>2 DEF WordsAt, CountsAt
  <2>6. Len(buff[c]) = Size(c) - rd_cnt
    BY <2>5 DEF Holds
  <2>. QED
    BY <2>4, <2>5, <2>6
<1>4. P2dInv => RingSafe
  BY <1>1, <1>2, <1>3 DEF RingSafe, NoUnderflow
<1>. QED
  BY <1>4, RingCorrect, PTL

\* A synchronised packet starts within four clocks of its sample number.
THEOREM PacketsStartOnTime == Spec => StartsOnTime
<1>1. P2dInv /\ [Next]_vars =>
          [rd_state = "idle" /\ rd_state' = "rd_buff" =>
               LET p == Head(queue)
               IN SYNC_DIS \/ p.dis \/ sample_nr \in p.nr .. p.nr + 4]_vars
  BY RdBegins DEF P2dInv, Next
<1>. QED
  BY <1>1, RingCorrect, PTL DEF Spec, StartsOnTime

\* Every clock of the two FSMs is a step of the queue, or leaves it alone.
THEOREM ImplementsQueue == Spec => RefinesTxQueue
<1>1. Init => Q!Init
  BY DEF Init, Q!Init, Q!NoOut, Out
<1>2. P2dInv /\ [Next]_vars => [Q!Next]_<<queue, emitted, Out, sample_nr>>
  <2>1. ASSUME UNCHANGED vars PROVE UNCHANGED <<queue, emitted, Out, sample_nr>>
    BY <2>1 DEF vars, regVars, portVars, histVars, Out
  <2>2. ASSUME P2dInv, NEW synced \in Crossings, Clock(synced) PROVE Q!Next
    <3>. USE <2>2
    <3>1. TypeOK /\ QueueType /\ RingInv /\ ReadInv
      BY DEF P2dInv
    <3>2. sample_nr' \in {sample_nr, sample_nr + 1}
      BY DEF Clock, PortClock
    <3>3. Out' = IF smpl_buff_valid_int THEN buff_q[crnt_buff_cnt] ELSE <<>>
      BY DEF Out, Clock, RegClock
    <3>4. Q!Accepts(Rest)
      <4>1. /\ queue' = Rest \o IF Commits THEN <<pct_hdr>> ELSE <<>>
            /\ Rest \in Seq(PctType) /\ Len(Rest) \in Nat /\ Len(Rest) <= Len(queue)
        BY <3>1, QueueStep, RestStep
      <4>2. CASE ~Commits
        <5>1. queue' = Rest
          BY <4>1, <4>2
        <5>. QED
          BY <5>1 DEF Q!Accepts
      <4>3. CASE Commits
        <5>1. Len(queue) < BUFF_COUNT /\ Len(queue) \in Nat
          BY <3>1, <4>3 DEF RingInv, Commits, QueueType
        <5>2. Len(Rest) < BUFF_COUNT
          BY <4>1, <5>1, BuffCountAssumption
        <5>3. PICK r, p : r = Rest /\ p = pct_hdr
          OBVIOUS
        <5>4. r \in Seq(PctType) /\ p \in PctType /\ queue' = r \o <<p>>
          BY <3>1, <4>1, <4>3, <5>3 DEF TypeOK, WrTypeOK
        <5>5. Len(r \o <<p>>) = Len(r) + 1 /\ SubSeq(r \o <<p>>, 1, Len(r)) = r
          BY <5>4
        <5>. QED
          BY <5>2, <5>3, <5>4, <5>5 DEF Q!Accepts
      <4>. QED
        BY <4>2, <4>3
    <3>5. emitted \in Nat /\ rd_cnt \in Nat
      BY <3>1 DEF QueueType, TypeOK, RdTypeOK
    <3>6. CASE smpl_buff_valid_int
      <4>1. Sending /\ rd_state # "clr_buff"
        BY <3>1, <3>6 DEF ReadInv, Sending
      <4>2. queue # <<>>
        BY <3>1, <4>1, CrntIsHead, RdStep DEF ReadInv
      <4>3. Out' = <<Head(queue).id, emitted>>
        BY <3>1, <3>3, <3>6, <4>1 DEF ReadInv
      <4>4. emitted = 0 /\ Q!Synchronised(Head(queue)) => Head(queue).nr <= sample_nr
        BY <3>1, <4>1 DEF ReadInv, Due, Q!Synchronised
      <4>5. /\ rd_cnt = emitted + 1 /\ rd_cnt_max = PayloadWords(Head(queue).size)
            /\ Leaves => rd_cnt = rd_cnt_max
            /\ ~Leaves => rd_cnt < rd_cnt_max
        BY <3>1, <3>6, <4>1 DEF ReadInv, Leaves
      <4>6. CASE Leaves
        <5>1. emitted' = 0 /\ Rest = Tail(queue)
          BY <3>1, <4>6, EmittedStep DEF Rest
        <5>2. emitted + 1 = PayloadWords(Head(queue).size)
          BY <4>5, <4>6
        <5>. QED
          BY <3>2, <3>4, <4>2, <4>3, <4>4, <5>1, <5>2 DEF Q!Next, Q!Emit, Q!PayloadWords,
                  PayloadWords
      <4>7. CASE ~Leaves
        <5>1. emitted' = emitted + 1 /\ Rest = queue
          BY <3>1, <4>1, <4>5, <4>7, EmittedStep DEF Rest
        <5>2. emitted + 1 < PayloadWords(Head(queue).size)
          BY <4>5, <4>7
        <5>. QED
          BY <3>2, <3>4, <4>2, <4>3, <4>4, <5>1, <5>2 DEF Q!Next, Q!Emit, Q!PayloadWords,
                  PayloadWords
      <4>. QED
        BY <4>6, <4>7
    <3>7. CASE ~smpl_buff_valid_int /\ Leaves
      <4>1. rd_state = "clr_buff" /\ ~Sending
        BY <3>7 DEF Leaves, Sending
      <4>2. queue # <<>>
        BY <3>1, <4>1, CrntIsHead, RdStep DEF ReadInv
      <4>3. /\ emitted = 0 /\ emitted' = 0 /\ Rest = Tail(queue)
        BY <3>1, <3>7, <4>1, EmittedStep DEF ReadInv, Rest
      <4>4. Q!Synchronised(Head(queue)) /\ Head(queue).nr < sample_nr
        BY <3>1, <4>1 DEF ReadInv, Q!Synchronised
      <4>. QED
        BY <3>2, <3>3, <3>4, <3>7, <4>2, <4>3, <4>4 DEF Q!Next, Q!DropLate, Q!NoOut
    <3>8. CASE ~smpl_buff_valid_int /\ ~Leaves
      <4>1. emitted' = emitted
        BY <3>1, <3>8, EmittedStep DEF ReadInv
      <4>2. Rest = queue
        BY <3>8 DEF Rest
      <4>. QED
        BY <3>2, <3>3, <3>4, <3>8, <4>1, <4>2 DEF Q!Next, Q!Wait, Q!NoOut
    <3>. QED
      BY <3>6, <3>7, <3>8
  <2>. QED
    BY <2>1, <2>2 DEF Next
<1>. QED
  BY <1>1, <1>2, RingCorrect, PTL DEF Spec, RefinesTxQueue, Q!Spec
=============================================================================
