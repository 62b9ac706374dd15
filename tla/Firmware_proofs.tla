-------------------------- MODULE Firmware_proofs ---------------------------
(***************************************************************************)
(* Proofs about the whole program of the control processor, whatever the   *)
(* host does and whenever the FPGA is configured again.  The results about *)
(* its parts hold in the program: a restart forgets a bitstream that was   *)
(* begun, and start-up resets the MCU before a command can come.  The      *)
(* proofs about FlashProg and McuFw alone come first.                      *)
(* The last part is about Commands: what the program still has to do       *)
(* (calls, runs) is of the chips' types, ends where the bus is released    *)
(* and never sends to one driver of the TCXO before it stopped the other.  *)
(***************************************************************************)
EXTENDS Firmware, WellFoundedInduction, TLAPS

-----------------------------------------------------------------------------
(* FlashProg: whatever the bitstreams, the times the flash takes and the   *)
(* moments the host starts over, a host that waits for the flash and sends *)
(* portions that divide a page finds in flash what was confirmed.          *)

\* Portions divide a page.
Divides == PAGE % PORTION = 0

EraseSteps == {"erase_enable", "erase", "erase_status"}
WriteSteps == {"enable", "status", "program"}

\* Bytes in the pages that are written.
Base == PAGE * flash_page

\* The handler is between the portion and its answer, with a full page.
Writing == step \in EraseSteps \cup WriteSteps

\* The portion was answered with an error and may come once more.
Failing == step = "idle" /\ flash_reply = "error" /\ fpga_byte <= FPGA_SIZE

\* The portion was answered with completed.
Done == step = "idle" /\ flash_reply = "completed" /\ image > 0

\* Otherwise a bitstream can only be started over: none was begun, it is too
\* large, or the processor forgot it.
Live == Writing \/ Failing \/ Done

\* The registers, as far as the proof needs their types.
TypeInv ==
    /\ DOMAIN mem = 0 .. PAGES - 1
    /\ busy \in {"no", "program", "erase"} /\ wel \in BOOLEAN
    /\ step \in {"idle"} \cup EraseSteps \cup WriteSteps
    /\ flash_page \in Nat /\ flash_page_data_cnt \in Nat
    /\ flash_data_counter_to_copy \in Nat /\ fpga_byte \in Nat
    /\ retries \in Nat /\ status \in Nat
    /\ image \in Nat /\ portion \in Nat /\ sent \in Nat
    /\ flash_reply = "error" => image > 0

\* The latch is set on a flash that is not busy only.
LatchInv == wel => busy = "no"

\* The host sent portion whole portions, or all there is.
HostInv ==
    /\ image > 0 /\ size \in SIZES
    /\ DataCnt > 0 => portion * PORTION < size /\ sent = portion * PORTION + DataCnt
    /\ DataCnt = 0 => sent = size /\ portion > 0

\* The first pages hold their bytes of bitstream img, of n bytes.
InPages(pages, img, n) ==
    \A p \in 0 .. pages - 1, o \in Offsets :
        PAGE * p + o < n => mem[p][o] = Byte(img, PAGE * p + o)

\* The pages written so far are in flash.
StoredInv == InPages(flash_page, image, size)

\* The first k bytes of data are those of the bitstream from byte i on.
Carries(data, k, img, i) == \A j \in 0 .. k - 1 : data[j] = Byte(img, i + j)

\* The page under construction holds the bytes from Base up to n.
PageHolds(n) == \A o \in Offsets : Base + o < n => flash_page_data[o] = Byte(image, Base + o)

\* After a completed portion.
DoneInv ==
    Done =>
    /\ fpga_byte = sent /\ sent <= FPGA_SIZE
    /\ DataCnt = 0 => size <= Base
    /\ DataCnt > 0 =>
         /\ flash_page_data_cnt < PAGE /\ Base + flash_page_data_cnt = sent
         /\ sent < size => \E c \in 0 .. PAGE : flash_page_data_cnt = c * PORTION
         /\ PageHolds(sent)

\* While a full page waits to be written, and when that has to be tried again.
FullInv ==
    Writing \/ Failing =>
    /\ flash_page_data_cnt = PAGE /\ flash_data_counter_to_copy = DataCnt
    /\ fpga_byte + DataCnt = sent
    /\ Base < sent /\ sent <= Base + PAGE
    /\ DataCnt > 0 => sent = Base + PAGE
    /\ portion = 0 => flash_page = 0
    /\ PageHolds(sent)

\* A sector is being written: it was begun, its erase runs, or a page program is
\* next.
Begun ==
    \/ flash_page % SECTOR # 0 \/ busy = "erase"
    \/ step \in WriteSteps \cup {"erase_status"}
    \/ step = "erase" /\ ~wel

\* The page and all after it in its sector are erased.
Blank(page) ==
    \A p \in DOMAIN mem :
        p >= page /\ p \div SECTOR = page \div SECTOR => mem[p] = PageOf(ErasedByte)

\* What is still to be written of a sector is erased.
BlankInv == Begun => Blank(flash_page)

\* An erase is only asked for at the start of a sector, and never of a flash
\* that programs a page; a page program follows on a write enable that worked.
StepInv ==
    /\ busy = "erase" => flash_page % SECTOR = 0
    /\ step \in EraseSteps => busy # "program" /\ flash_page % SECTOR = 0
    /\ step = "program" => busy = "no" /\ wel
    /\ step \in WriteSteps /\ status # 0 => flash_page % SECTOR = 0

LiveInv == Live => HostInv /\ StoredInv /\ DoneInv /\ FullInv /\ BlankInv /\ StepInv

ProgInv == TypeInv /\ LatchInv /\ LiveInv

-----------------------------------------------------------------------------
(* Arithmetic of pages and sectors.                                        *)

\* A number is its quotient and its rest.
LEMMA DivMod ==
    ASSUME NEW i \in Nat, NEW s \in Nat \ {0}
    PROVE  /\ i \div s \in Nat /\ i % s \in 0 .. s - 1
           /\ i = s * (i \div s) + (i % s)
  BY Z3T(60)

\* Multiples of s are at least s apart.
LEMMA Apart ==
    ASSUME NEW s \in Nat \ {0}, NEW x \in Nat, NEW y \in Nat, x < y
    PROVE  s * x + s <= s * y
<1>1. s * (x + 1) <= s * y
  OBVIOUS
<1>2. s * (x + 1) = s * x + s
  OBVIOUS
<1> QED
  BY <1>1, <1>2

\* A place in the pages before p is in one of them.
LEMMA BelowPage ==
    ASSUME NEW s \in Nat \ {0}, NEW p \in Nat, NEW i \in Nat, i < s * p
    PROVE  i \div s < p
<1>1. i \div s \in Nat /\ i % s \in 0 .. s - 1 /\ i = s * (i \div s) + (i % s)
  BY DivMod
<1>2. CASE p < i \div s
  <2>1. s * p + s <= s * (i \div s)
    BY <1>1, <1>2, Apart
  <2> QED
    BY <1>1, <2>1
<1>3. CASE p = i \div s
  BY <1>1, <1>3
<1> QED
  BY <1>1, <1>2, <1>3

\* A place on page p.
LEMMA OnPageOf ==
    ASSUME NEW s \in Nat \ {0}, NEW p \in Nat, NEW i \in Nat, s * p <= i, i < s * p + s
    PROVE  i % s = i - s * p
<1>1. i \div s \in Nat /\ i % s \in 0 .. s - 1 /\ i = s * (i \div s) + (i % s)
  BY DivMod
<1>2. ~(p < i \div s)
  <2>1. ASSUME p < i \div s PROVE FALSE
    <3>1. s * p + s <= s * (i \div s)
      BY <1>1, <2>1, Apart
    <3> QED
      BY <1>1, <3>1
  <2> QED
    BY <2>1
<1>3. ~(i \div s < p)
  <2>1. ASSUME i \div s < p PROVE FALSE
    <3>1. s * (i \div s) + s <= s * p
      BY <1>1, <2>1, Apart
    <3> QED
      BY <1>1, <3>1
  <2> QED
    BY <2>1
<1>4. i \div s = p
  BY <1>1, <1>2, <1>3
<1> QED
  BY <1>1, <1>4

\* The page after p is in the sector of p unless it begins one.
LEMMA SameSector ==
    ASSUME NEW s \in Nat \ {0}, NEW p \in Nat, (p + 1) % s # 0
    PROVE  (p + 1) \div s = p \div s
  BY Z3T(60)

\* The pages before the first one of a sector are in earlier sectors.
LEMMA EarlierSector ==
    ASSUME NEW s \in Nat \ {0}, NEW p \in Nat, NEW q \in Nat, p % s = 0, q < p
    PROVE  q \div s # p \div s
<1>1. p \div s \in Nat /\ p = s * (p \div s) + (p % s)
  BY DivMod
<1>2. p = s * (p \div s)
  BY <1>1
<1>3. q \div s < p \div s
  BY <1>1, <1>2, BelowPage
<1>4. q \div s \in Nat
  BY DivMod
<1> QED
  BY <1>1, <1>3, <1>4

-----------------------------------------------------------------------------
(* The portions of the host.                                               *)

\* A portion is whole, the rest of the bitstream, or empty behind its end.
LEMMA SizeFacts ==
    ASSUME NEW n \in Nat, NEW p \in Nat
    PROVE  /\ Size(n, p) \in 0 .. PORTION
           /\ Size(n, p) > 0 => p * PORTION < n /\ p * PORTION + Size(n, p) <= n
           /\ Size(n, p) > 0 /\ Size(n, p) < PORTION => p * PORTION + Size(n, p) = n
           /\ Size(n, p) = 0 => n <= p * PORTION
<1>1. PORTION \in Nat /\ PORTION > 0 /\ p * PORTION \in Nat
  BY ProgAssumption, FlashAssumption
<1>2. \A f \in Nat :
         LET k == IF f < n THEN Least(PORTION, n - f) ELSE 0
         IN /\ k \in 0 .. PORTION
            /\ k > 0 => f < n /\ f + k <= n
            /\ k > 0 /\ k < PORTION => f + k = n
            /\ k = 0 => n <= f
  BY <1>1 DEF Least
<1>3. Size(n, p) = IF p * PORTION < n THEN Least(PORTION, n - p * PORTION) ELSE 0
  BY DEF Size
<1> QED
  BY <1>1, <1>2, <1>3

\* The first portion of a bitstream is not empty.
LEMMA FirstPortion ==
    ASSUME NEW n \in SIZES
    PROVE  /\ Size(n, 0) \in 1 .. PORTION /\ Size(n, 0) <= n
           /\ Size(n, 0) < PORTION => Size(n, 0) = n
<1>1. n \in Nat \ {0} /\ PORTION \in Nat /\ PORTION > 0
  BY ProgAssumption, FlashAssumption
<1>2. Size(n, 0) = IF 0 < n THEN Least(PORTION, n) ELSE 0
  BY <1>1 DEF Size
<1> QED
  BY <1>1, <1>2 DEF Least

-----------------------------------------------------------------------------
(* A portion arrives.                                                      *)

\* What the handler does with k bytes for the place c of the page, which they
\* do not overrun.
LEMMA ReceiveSteps ==
    ASSUME TypeInv, NEW p \in Nat, NEW k \in Nat, NEW data, Receive(p, data, k),
           NEW c \in Nat, c = IF p = 0 THEN 0 ELSE flash_page_data_cnt,
           c < PAGE, c + k <= PAGE,
           NEW fp \in Nat, fp = IF p = 0 THEN 0 ELSE flash_page,
           NEW total \in Nat, total = IF p = 0 THEN 0 ELSE fpga_byte
    PROVE  /\ flash_page' = fp /\ status' = 0 /\ retries' = 0
           /\ flash_data_counter_to_copy' = k
           /\ flash_page_data' = Copy(flash_page_data, c, data, k)
           /\ UNCHANGED flashVars
           /\ \/ /\ c + k = PAGE \/ (k = 0 /\ c > 0)
                 /\ flash_page_data_cnt' = PAGE /\ fpga_byte' = total
                 /\ step' = IF fp % SECTOR = 0 THEN "erase_enable" ELSE "enable"
                 /\ flash_reply' = flash_reply
              \/ /\ c + k < PAGE /\ ~(k = 0 /\ c > 0)
                 /\ flash_page_data_cnt' = c + k /\ fpga_byte' = total + k
                 /\ step' = "idle"
                 /\ flash_reply' = IF total + k <= FPGA_SIZE THEN "completed" ELSE "error"
<1> DEFINE free == PAGE - c
           copied == IF free > 0 THEN Least(free, k)
                     ELSE IF p = 0 THEN 0 ELSE flash_data_counter_to_copy
           filled == IF free > 0 THEN Copy(flash_page_data, c, data, copied)
                     ELSE flash_page_data
           now == IF free > 0 THEN c + copied ELSE c
           full == Finished(now, k)
<1>1. PAGE \in Nat /\ PAGE > 0
  BY FlashAssumption
<1>2. free > 0 /\ copied = k /\ now = c + k
  BY <1>1 DEF Least
<1>3. filled = Copy(flash_page_data, c, data, k)
  BY <1>2
<1>4. full = IF k = 0 /\ c > 0 THEN PAGE ELSE c + k
  BY <1>2 DEF Finished
<1>5. /\ flash_page' = fp /\ status' = 0 /\ retries' = 0
      /\ IF full >= PAGE
         THEN /\ step' = IF fp % SECTOR = 0 THEN "erase_enable" ELSE "enable"
              /\ flash_page_data' = filled /\ flash_page_data_cnt' = full
              /\ flash_data_counter_to_copy' = copied
              /\ fpga_byte' = total
              /\ UNCHANGED flash_reply
         ELSE EndPortion(filled, full, copied, total, data, k)
      /\ UNCHANGED flashVars
  BY DEF Receive
<1> HIDE DEF free, copied, filled, now, full
<1>6. CASE c + k = PAGE \/ (k = 0 /\ c > 0)
  <2>1. full = PAGE
    BY <1>1, <1>4, <1>6
  <2>2. full >= PAGE
    BY <2>1, <1>1
  <2> QED
    BY <1>2, <1>3, <1>5, <1>6, <2>1, <2>2
<1>7. CASE ~(c + k = PAGE \/ (k = 0 /\ c > 0))
  <2>1. full = c + k /\ c + k < PAGE
    BY <1>1, <1>4, <1>7
  <2>2. ~(full >= PAGE) /\ ~(k > copied)
    BY <2>1, <1>1, <1>2
  <2>3. EndPortion(filled, full, copied, total, data, k)
    BY <2>2, <1>5
  <2> QED
    BY <1>2, <1>3, <1>5, <1>7, <2>1, <2>2, <2>3 DEF EndPortion
<1> QED
  BY <1>6, <1>7

\* A portion that continues the page at place c keeps the invariant: the page is
\* full and is written, or the portion is answered (main.c lines 752-831).
LEMMA Received ==
    ASSUME ProgInv, Ready, SLOW_HOST,
           NEW p \in Nat, NEW img \in Nat \ {0}, NEW n \in SIZES, NEW total \in Nat,
           NEW k \in Nat, k = Size(n, p), NEW data, Receive(p, data, k),
           portion' = p, image' = img, size' = n, sent' = total + k,
           NEW c \in Nat, c = IF p = 0 THEN 0 ELSE flash_page_data_cnt,
           c < PAGE, c + k <= PAGE,
           NEW fp \in Nat, fp = IF p = 0 THEN 0 ELSE flash_page,
           total = IF p = 0 THEN 0 ELSE fpga_byte,
           PAGE * fp + c = total,
           k > 0 => total = p * PORTION,
           k = 0 => total = n /\ p > 0 /\ total <= FPGA_SIZE,
           k > 0 /\ total + k < n => \E m \in 0 .. PAGE : c + k = m * PORTION,
           Carries(flash_page_data, c, img, PAGE * fp), Carries(data, k, img, total),
           InPages(fp, img, n),
           fp % SECTOR # 0 \/ busy = "erase" => Blank(fp),
           busy = "erase" => fp % SECTOR = 0
    PROVE  ProgInv'
<1> DEFINE page == Copy(flash_page_data, c, data, k)
<1>1. /\ flash_page' = fp /\ status' = 0 /\ retries' = 0
      /\ flash_data_counter_to_copy' = k /\ flash_page_data' = page
      /\ mem' = mem /\ busy' = busy /\ wel' = wel
  BY ReceiveSteps DEF ProgInv, flashVars
<1>2. \/ /\ c + k = PAGE \/ (k = 0 /\ c > 0)
         /\ flash_page_data_cnt' = PAGE /\ fpga_byte' = total
         /\ step' = IF fp % SECTOR = 0 THEN "erase_enable" ELSE "enable"
         /\ flash_reply' = flash_reply
      \/ /\ c + k < PAGE /\ ~(k = 0 /\ c > 0)
         /\ flash_page_data_cnt' = c + k /\ fpga_byte' = total + k
         /\ step' = "idle"
         /\ flash_reply' = IF total + k <= FPGA_SIZE THEN "completed" ELSE "error"
  BY ReceiveSteps DEF ProgInv
<1>3. PAGE \in Nat /\ PAGE > 0 /\ SECTOR \in Nat \ {0} /\ PORTION \in Nat /\ PORTION > 0
      /\ n \in Nat /\ n > 0 /\ FPGA_SIZE \in Nat
  BY FlashAssumption, ProgAssumption
<1>4. /\ step = "idle" /\ busy # "program" /\ busy \in {"no", "program", "erase"}
      /\ wel \in BOOLEAN /\ DOMAIN mem = 0 .. PAGES - 1
  BY DEF Ready, ProgInv, TypeInv
<1>5. DataCnt' = k
  BY DEF DataCnt, Size
<1>7. PAGE * fp \in Nat
  BY <1>3
<1>6. \A o \in 0 .. c + k - 1 : page[o] = Byte(img, PAGE * fp + o)
  <2> TAKE o \in 0 .. c + k - 1
  <2>1. o \in Offsets /\ o \in Nat
    BY <1>3 DEF Offsets
  <2>2. page[o] = IF o \in c .. c + k - 1 THEN data[o - c] ELSE flash_page_data[o]
    BY <2>1 DEF Copy
  <2>3. CASE o \in c .. c + k - 1
    <3>1. o - c \in 0 .. k - 1 /\ total + (o - c) = PAGE * fp + o
      BY <1>7, <2>1, <2>3
    <3>2. data[o - c] = Byte(img, total + (o - c))
      BY <3>1 DEF Carries
    <3> QED
      BY <2>2, <2>3, <3>1, <3>2
  <2>4. CASE o \notin c .. c + k - 1
    <3>1. o \in 0 .. c - 1
      BY <2>1, <2>4
    <3> QED
      BY <2>2, <2>4, <3>1 DEF Carries
  <2> QED
    BY <2>3, <2>4
<1> HIDE DEF page
<1>8. TypeInv'
  <2>1. flash_page' \in Nat /\ flash_page_data_cnt' \in Nat /\ flash_data_counter_to_copy' \in Nat
        /\ fpga_byte' \in Nat /\ retries' \in Nat /\ status' \in Nat /\ sent' \in Nat
    <3>1. flash_page_data_cnt' \in Nat /\ fpga_byte' \in Nat
      <4>1. CASE flash_page_data_cnt' = PAGE /\ fpga_byte' = total
        BY <1>3, <4>1
      <4>2. CASE flash_page_data_cnt' = c + k /\ fpga_byte' = total + k
        BY <4>2
      <4> QED
        BY <1>2, <4>1, <4>2
    <3>2. sent' \in Nat
      OBVIOUS
    <3> QED
      BY <1>1, <3>1, <3>2
  <2>2. step' \in {"idle"} \cup EraseSteps \cup WriteSteps
    BY <1>2 DEF EraseSteps, WriteSteps
  <2> QED
    BY <1>1, <1>4, <2>1, <2>2 DEF TypeInv
<1>9. LatchInv'
  BY <1>1 DEF ProgInv, LatchInv
<1>10. HostInv'
  <2>1. k > 0 => p * PORTION < n
    BY <1>3, SizeFacts
  <2>2. image' > 0 /\ size' \in SIZES
    OBVIOUS
  <2>3. portion' * PORTION = p * PORTION /\ (k > 0 => sent' = p * PORTION + k)
    OBVIOUS
  <2> QED
    BY <1>3, <1>5, <2>1, <2>2, <2>3 DEF HostInv
<1>11. StoredInv'
  BY <1>1 DEF StoredInv, InPages
<1>12. PageHolds(sent)'
  <2>1. \A o \in Offsets : PAGE * fp + o < total + k => page[o] = Byte(img, PAGE * fp + o)
    <3> TAKE o \in Offsets
    <3>1. o \in Nat
      BY <1>3 DEF Offsets
    <3> HAVE PAGE * fp + o < total + k
    <3>2. o \in 0 .. c + k - 1
      BY <1>7, <3>1
    <3> QED
      BY <1>6, <3>2
  <2> QED
    BY <1>1, <2>1 DEF PageHolds, Base
<1>13. DoneInv'
  <2> SUFFICES ASSUME Done' PROVE DoneInv'
    BY DEF DoneInv
  <2>1. /\ c + k < PAGE /\ ~(k = 0 /\ c > 0)
        /\ flash_page_data_cnt' = c + k /\ fpga_byte' = total + k
        /\ total + k <= FPGA_SIZE
    BY <1>2 DEF Done
  <2>2. Base' = PAGE * fp
    BY <1>1 DEF Base
  <2>3. k = 0 => n <= PAGE * fp
    BY <1>3, <1>7, <2>1
  <2>4. PAGE * fp + (c + k) = total + k
    BY <1>7
  <2>5. k > 0 /\ total + k < n => \E m \in 0 .. PAGE : c + k = m * PORTION
    OBVIOUS
  <2> QED
    BY <1>5, <1>12, <2>1, <2>2, <2>3, <2>4, <2>5 DEF DoneInv
<1>14. FullInv'
  <2> SUFFICES ASSUME (Writing \/ Failing)' PROVE FullInv'
    BY DEF FullInv
  <2>1. (c + k = PAGE \/ (k = 0 /\ c > 0)) /\ flash_page_data_cnt' = PAGE /\ fpga_byte' = total
    <3>1. CASE step' = "idle"
      <4>1. flash_reply' = "error" /\ fpga_byte' <= FPGA_SIZE
        BY <3>1 DEF Writing, Failing, EraseSteps, WriteSteps
      <4> QED
        BY <1>2, <1>3, <3>1, <4>1
    <3> QED
      BY <1>2, <3>1
  <2>2. Base' = PAGE * fp
    BY <1>1 DEF Base
  <2>3. PAGE * fp < total + k /\ total + k <= PAGE * fp + PAGE
        /\ (k > 0 => total + k = PAGE * fp + PAGE)
    BY <1>3, <1>7, <2>1
  <2>4. p = 0 => fp = 0
    OBVIOUS
  <2> QED
    BY <1>1, <1>5, <1>12, <2>1, <2>2, <2>3, <2>4 DEF FullInv
<1>15. BlankInv'
  <2>1. Begun' => fp % SECTOR # 0 \/ busy = "erase"
    BY <1>1, <1>2 DEF Begun, WriteSteps
  <2> QED
    BY <1>1, <2>1 DEF BlankInv, Blank
<1>16. StepInv'
  BY <1>1, <1>2, <1>4 DEF StepInv, EraseSteps, WriteSteps
<1> QED
  BY <1>8, <1>9, <1>10, <1>11, <1>13, <1>14, <1>15, <1>16 DEF ProgInv, LiveInv

\* A page that is not full has room for a portion when it holds whole ones.
LEMMA Room ==
    ASSUME Divides, NEW m \in Nat, m * PORTION < PAGE
    PROVE  m * PORTION + PORTION <= PAGE /\ m + 1 \in 0 .. PAGE
           /\ m * PORTION + PORTION = (m + 1) * PORTION
<1>1. PAGE \in Nat /\ PORTION \in Nat \ {0}
  BY FlashAssumption, ProgAssumption
<1> DEFINE q == PAGE \div PORTION
<1>2. q \in Nat /\ PAGE = PORTION * q
  BY <1>1, DivMod DEF Divides
<1> HIDE DEF q
<1>3. m * PORTION = PORTION * m /\ PORTION * m \in Nat /\ PORTION * q \in Nat
  BY <1>1, <1>2
<1>4. m < q
  <2>1. ASSUME q < m PROVE FALSE
    <3>1. PORTION * q + PORTION <= PORTION * m
      BY <1>1, <1>2, <2>1, Apart
    <3> QED
      BY <1>1, <1>2, <1>3, <3>1
  <2>2. m # q
    BY <1>1, <1>2, <1>3
  <2> QED
    BY <1>2, <2>1, <2>2
<1>5. PORTION * m + PORTION <= PORTION * q
  BY <1>1, <1>2, <1>4, Apart
<1>6. m * PORTION + PORTION = (m + 1) * PORTION
  BY <1>1
<1>7. m <= m * PORTION
  BY <1>1
<1> QED
  BY <1>1, <1>2, <1>3, <1>5, <1>6, <1>7

\* A bitstream begun, in the middle of another one, too (lines 743-750).
LEMMA BeginStep ==
    ASSUME ProgInv, SLOW_HOST, Begin
    PROVE  ProgInv'
<1>1. PICK n \in SIZES :
          /\ Receive(0, Portion(image + 1, Size(n, 0), Size(n, 0)), Size(n, 0))
          /\ portion' = 0 /\ sent' = Size(n, 0) /\ image' = image + 1 /\ size' = n
  BY DEF Begin
<1>2. /\ image \in Nat /\ PAGE \in Nat \ {0} /\ PORTION \in 1 .. PAGE
      /\ SECTOR \in Nat \ {0} /\ n \in Nat
  BY FlashAssumption, ProgAssumption DEF ProgInv, TypeInv
<1>3. PICK z \in Nat : z = 0
  OBVIOUS
<1>4. PICK img \in Nat \ {0} : img = image + 1
  BY <1>2
<1>5. PICK k \in Nat : k = Size(n, 0)
  BY FirstPortion, <1>2
<1>6. k \in 1 .. PORTION /\ k <= n /\ (k < PORTION => k = n)
  BY <1>5, FirstPortion
<1>7. PICK data : data = Portion(img, k, k)
  OBVIOUS
<1>8. Receive(z, data, k) /\ portion' = z /\ image' = img /\ size' = n
  BY <1>1, <1>3, <1>4, <1>5, <1>7
<1>9. sent' = z + k /\ z < PAGE /\ z + k <= PAGE /\ PAGE * z + z = z /\ k > 0
      /\ z = z * PORTION
  BY <1>1, <1>2, <1>3, <1>5, <1>6
<1>10. z + k < n => \E m \in 0 .. PAGE : z + k = m * PORTION
  <2>1. ASSUME k < n PROVE k = 1 * PORTION /\ 1 \in 0 .. PAGE
    BY <1>2, <1>6, <2>1
  <2> QED
    BY <2>1, <1>3, <1>6
<1>11. Carries(data, k, img, z) /\ Carries(flash_page_data, z, img, PAGE * z)
  BY <1>3, <1>6, <1>7 DEF Carries, Portion
<1>12. InPages(z, img, n)
  BY <1>3 DEF InPages
<1>13. z % SECTOR = 0 /\ busy = "no" /\ Ready
  BY <1>2, <1>3 DEF Begin
<1>14. k = Size(n, z) /\ z = (IF z = 0 THEN 0 ELSE flash_page_data_cnt)
       /\ z = (IF z = 0 THEN 0 ELSE flash_page) /\ z = (IF z = 0 THEN 0 ELSE fpga_byte)
  BY <1>3, <1>5
<1> QED
  BY <1>8, <1>9, <1>10, <1>11, <1>12, <1>13, <1>14, Received

\* The portion after a completed one.
LEMMA ContinueStep ==
    ASSUME ProgInv, SLOW_HOST, Divides, Continue
    PROVE  ProgInv'
<1>1. /\ Ready /\ Done /\ ~AtEnd /\ image > 0 /\ step = "idle" /\ flash_reply = "completed"
  BY DEF Continue, Done, Ready
<1>2. TypeInv /\ HostInv /\ StoredInv /\ DoneInv /\ BlankInv /\ StepInv
  BY <1>1 DEF ProgInv, LiveInv, Live
<1>3. /\ image \in Nat \ {0} /\ PAGE \in Nat \ {0} /\ PORTION \in 1 .. PAGE
      /\ SECTOR \in Nat \ {0} /\ size \in SIZES /\ size \in Nat /\ FPGA_SIZE \in Nat
      /\ portion \in Nat /\ sent \in Nat /\ flash_page \in Nat
      /\ flash_page_data_cnt \in Nat /\ fpga_byte \in Nat
  BY <1>1, <1>2, FlashAssumption, ProgAssumption DEF TypeInv, HostInv
<1>4. DataCnt \in 1 .. PORTION /\ portion * PORTION + DataCnt = sent /\ sent <= size
      /\ (DataCnt < PORTION => sent = size)
  <2>1. DataCnt = Size(size, portion) /\ DataCnt # 0
    BY <1>1 DEF DataCnt, AtEnd
  <2>2. /\ DataCnt \in 0 .. PORTION
        /\ DataCnt > 0 => portion * PORTION + DataCnt <= size
        /\ DataCnt > 0 /\ DataCnt < PORTION => portion * PORTION + DataCnt = size
    BY <2>1, <1>3, SizeFacts
  <2>3. DataCnt > 0
    BY <1>3, <2>1, <2>2
  <2>4. sent = portion * PORTION + DataCnt
    BY <1>2, <2>3 DEF HostInv
  <2> QED
    BY <1>3, <2>2, <2>3, <2>4
<1>5. PICK p \in Nat : p = portion + 1
  BY <1>3
<1>6. p * PORTION = portion * PORTION + PORTION /\ portion * PORTION \in Nat /\ p * PORTION \in Nat
  BY <1>3, <1>5
<1>7. PICK k \in Nat : k = Size(size, p)
  BY <1>3, <1>5, SizeFacts
<1>8. k \in 0 .. PORTION
      /\ (k > 0 => p * PORTION < size /\ p * PORTION + k <= size)
      /\ (k > 0 /\ k < PORTION => p * PORTION + k = size)
      /\ (k = 0 => size <= p * PORTION)
  BY <1>3, <1>5, <1>7, SizeFacts
<1>9. (k > 0 => sent = p * PORTION /\ sent < size) /\ (k = 0 => sent = size)
  BY <1>3, <1>4, <1>6, <1>8
<1>10. /\ fpga_byte = sent /\ sent <= FPGA_SIZE
       /\ flash_page_data_cnt < PAGE /\ PAGE * flash_page + flash_page_data_cnt = sent
       /\ sent < size => \E c \in 0 .. PAGE : flash_page_data_cnt = c * PORTION
       /\ PageHolds(sent)
  BY <1>1, <1>2, <1>4 DEF DoneInv, Base
<1>11. flash_page_data_cnt + k <= PAGE
       /\ (k > 0 /\ sent + k < size =>
              \E m \in 0 .. PAGE : flash_page_data_cnt + k = m * PORTION)
  <2>1. CASE k = 0
    BY <1>3, <1>10, <2>1
  <2>2. CASE k > 0
    <3>1. PICK c \in 0 .. PAGE : flash_page_data_cnt = c * PORTION
      BY <1>9, <1>10, <2>2
    <3>2. c * PORTION + PORTION <= PAGE /\ c + 1 \in 0 .. PAGE
          /\ c * PORTION + PORTION = (c + 1) * PORTION
      BY <1>3, <1>10, <3>1, Room
    <3>3. flash_page_data_cnt + k <= PAGE
      BY <1>3, <1>8, <3>1, <3>2
    <3>4. sent + k < size => k = PORTION
      BY <1>3, <1>8, <1>9, <2>2
    <3> QED
      BY <3>1, <3>2, <3>3, <3>4
  <2> QED
    BY <2>1, <2>2
<1>12. PICK data : data = Portion(image, sent + k, k)
  OBVIOUS
<1>13. Receive(p, data, k) /\ portion' = p /\ image' = image /\ size' = size /\ sent' = sent + k
  BY <1>5, <1>7, <1>12 DEF Continue
<1>14. Carries(data, k, image, sent)
  BY <1>3, <1>12 DEF Carries, Portion
<1>15. Carries(flash_page_data, flash_page_data_cnt, image, PAGE * flash_page)
  <2>1. PAGE * flash_page \in Nat
    BY <1>3
  <2> SUFFICES ASSUME NEW o \in 0 .. flash_page_data_cnt - 1
               PROVE  flash_page_data[o] = Byte(image, PAGE * flash_page + o)
    BY DEF Carries
  <2>2. o \in Offsets /\ PAGE * flash_page + o < sent
    BY <1>3, <1>10, <2>1 DEF Offsets
  <2> QED
    BY <1>10, <2>2 DEF PageHolds, Base
<1>16. InPages(flash_page, image, size)
  BY <1>2 DEF StoredInv
<1>17. (flash_page % SECTOR # 0 \/ busy = "erase" => Blank(flash_page))
       /\ (busy = "erase" => flash_page % SECTOR = 0)
  BY <1>2 DEF BlankInv, Begun, StepInv
<1>18. PICK img \in Nat \ {0} : img = image
  BY <1>3
<1>19. PICK n \in SIZES : n = size
  BY <1>3
<1>20. PICK c \in Nat : c = flash_page_data_cnt
  BY <1>3
<1>21. PICK fp \in Nat : fp = flash_page
  BY <1>3
<1>22. PICK total \in Nat : total = sent
  BY <1>3
<1>23. p # 0 /\ p > 0
  BY <1>3, <1>5
<1> QED
  BY <1>1, <1>7, <1>9, <1>10, <1>11, <1>13, <1>14, <1>15, <1>16, <1>17, <1>18, <1>19,
     <1>20, <1>21, <1>22, <1>23, Received, SMTT(60)

\* The first portion once more.
LEMMA RepeatFirst ==
    ASSUME ProgInv, SLOW_HOST, Repeat, portion = 0
    PROVE  ProgInv'
<1>1. /\ Ready /\ Failing /\ step = "idle"
  BY DEF Repeat, Failing, Ready
<1>2. TypeInv /\ HostInv /\ FullInv /\ BlankInv /\ StepInv
  BY <1>1 DEF ProgInv, LiveInv, Live
<1>3. /\ image \in Nat \ {0} /\ PAGE \in Nat \ {0} /\ PORTION \in 1 .. PAGE
      /\ SECTOR \in Nat \ {0} /\ size \in SIZES /\ size \in Nat /\ sent \in Nat
  BY <1>1, <1>2, FlashAssumption, ProgAssumption DEF TypeInv, HostInv
<1>4. flash_page = 0
  BY <1>1, <1>2 DEF FullInv
<1>5. PICK z \in Nat : z = 0
  OBVIOUS
<1>6. PICK k \in Nat : k = Size(size, 0)
  BY FirstPortion, <1>3
<1>7. k \in 1 .. PORTION /\ k <= size /\ (k < PORTION => k = size)
  BY <1>3, <1>6, FirstPortion
<1>8. DataCnt = k
  BY <1>6 DEF DataCnt
<1>9. sent = k
  <2>1. DataCnt > 0
    BY <1>3, <1>7, <1>8
  <2>2. sent = portion * PORTION + DataCnt
    BY <1>2, <2>1 DEF HostInv
  <2> QED
    BY <1>3, <1>8, <2>2
<1>10. PICK data : data = Portion(image, k, k)
  OBVIOUS
<1>11. Receive(z, data, k) /\ portion' = z /\ image' = image /\ size' = size
       /\ sent' = sent
  BY <1>5, <1>8, <1>9, <1>10 DEF Repeat, DataField, hostVars
<1>12. sent' = z + k /\ z < PAGE /\ z + k <= PAGE /\ PAGE * z + z = z /\ k > 0
       /\ z = z * PORTION
  BY <1>3, <1>5, <1>7, <1>9, <1>11
<1>13. z + k < size => \E m \in 0 .. PAGE : z + k = m * PORTION
  <2>1. ASSUME k < size PROVE k = 1 * PORTION /\ 1 \in 0 .. PAGE
    BY <1>3, <1>7, <2>1
  <2> QED
    BY <2>1, <1>5, <1>7
<1>14. Carries(data, k, image, z) /\ Carries(flash_page_data, z, image, PAGE * z)
  BY <1>5, <1>7, <1>10 DEF Carries, Portion
<1>15. InPages(z, image, size)
  BY <1>5 DEF InPages
<1>16. z % SECTOR = 0 /\ (busy = "erase" => Blank(z))
  <2>1. z % SECTOR = 0
    BY <1>3, <1>5
  <2>2. z = flash_page
    BY <1>4, <1>5
  <2> QED
    BY <1>2, <2>1, <2>2 DEF BlankInv, Begun
<1>17. k = Size(size, z) /\ z = (IF z = 0 THEN 0 ELSE flash_page_data_cnt)
       /\ z = (IF z = 0 THEN 0 ELSE flash_page) /\ z = (IF z = 0 THEN 0 ELSE fpga_byte)
  BY <1>5, <1>6
<1>18. PICK img \in Nat \ {0} : img = image
  BY <1>3
<1>19. PICK n \in SIZES : n = size
  BY <1>3
<1> QED
  BY <1>1, <1>11, <1>12, <1>13, <1>14, <1>15, <1>16, <1>17, <1>18, <1>19, Received

\* A later portion once more finds its page full.
LEMMA RepeatLater ==
    ASSUME ProgInv, SLOW_HOST, Repeat, portion # 0
    PROVE  ProgInv'
<1>1. /\ Ready /\ Failing /\ step = "idle" /\ busy # "program"
  BY DEF Repeat, Failing, Ready
<1>2. TypeInv /\ LatchInv /\ HostInv /\ StoredInv /\ FullInv /\ BlankInv /\ StepInv
  BY <1>1 DEF ProgInv, LiveInv, Live
<1>3. /\ PAGE \in Nat \ {0} /\ flash_page_data_cnt = PAGE
      /\ flash_data_counter_to_copy = DataCnt /\ DataCnt \in Nat
  BY <1>1, <1>2, FlashAssumption DEF TypeInv, FullInv
<1>4. Receive(portion, DataField, DataCnt) /\ UNCHANGED hostVars
  BY DEF Repeat
<1>5. Finished(PAGE, DataCnt) = PAGE
  BY <1>3 DEF Finished
<1>6. /\ flash_page' = flash_page /\ status' = 0 /\ retries' = 0
      /\ step' = (IF flash_page % SECTOR = 0 THEN "erase_enable" ELSE "enable")
      /\ flash_page_data' = flash_page_data /\ flash_page_data_cnt' = PAGE
      /\ flash_data_counter_to_copy' = flash_data_counter_to_copy
      /\ fpga_byte' = fpga_byte
      /\ flash_reply' = flash_reply
      /\ mem' = mem /\ busy' = busy /\ wel' = wel
  <2>1. ~(PAGE - flash_page_data_cnt > 0) /\ PAGE >= PAGE
    BY <1>3
  <2> QED
    BY <1>3, <1>4, <1>5, <2>1 DEF Receive, flashVars
<1>7. image' = image /\ size' = size /\ portion' = portion /\ sent' = sent
  BY <1>4 DEF hostVars
<1>8. TypeInv' /\ LatchInv'
  BY <1>2, <1>3, <1>6, <1>7 DEF TypeInv, LatchInv, EraseSteps, WriteSteps
<1>9. HostInv' /\ DataCnt' = DataCnt
  BY <1>2, <1>7 DEF HostInv, DataCnt, Size
<1>10. StoredInv'
  BY <1>2, <1>6, <1>7 DEF StoredInv, InPages
<1>11. ~Done'
  BY <1>6 DEF Done
<1>12. PageHolds(sent)'
  BY <1>1, <1>2, <1>6, <1>7 DEF FullInv, PageHolds, Base
<1>13. FullInv'
  BY <1>1, <1>2, <1>3, <1>6, <1>7, <1>9, <1>12 DEF FullInv, Base
<1>14. BlankInv'
  <2>1. Begun' => Begun
    BY <1>6 DEF Begun, WriteSteps
  <2> QED
    BY <1>2, <1>6, <2>1 DEF BlankInv, Blank
<1>15. StepInv'
  BY <1>1, <1>2, <1>6 DEF StepInv, EraseSteps, WriteSteps
<1> QED
  BY <1>8, <1>9, <1>10, <1>11, <1>13, <1>14, <1>15 DEF ProgInv, LiveInv, DoneInv

\* A portion once more, after an error.
LEMMA RepeatStep ==
    ASSUME ProgInv, SLOW_HOST, Repeat
    PROVE  ProgInv'
  BY RepeatFirst, RepeatLater

-----------------------------------------------------------------------------
(* The handler writes the page.                                            *)

\* The steps before the page program leave the page and its counts alone.
LEMMA PageWaits ==
    ASSUME ProgInv, Writing,
           UNCHANGED <<hostVars, flash_page, flash_page_data_cnt,
                       flash_data_counter_to_copy, fpga_byte, flash_page_data>>,
           Writing' \/ Failing'
    PROVE  HostInv' /\ FullInv' /\ DoneInv'
<1>1. HostInv /\ FullInv
  BY DEF ProgInv, LiveInv, Live
<1>2. /\ image' = image /\ size' = size /\ portion' = portion /\ sent' = sent
      /\ flash_page' = flash_page /\ flash_page_data_cnt' = flash_page_data_cnt
      /\ flash_data_counter_to_copy' = flash_data_counter_to_copy
      /\ fpga_byte' = fpga_byte /\ flash_page_data' = flash_page_data
  BY DEF hostVars
<1>3. HostInv' /\ DataCnt' = DataCnt
  BY <1>1, <1>2 DEF HostInv, DataCnt, Size
<1>4. PageHolds(sent)'
  BY <1>1, <1>2 DEF FullInv, PageHolds, Base
<1>5. FullInv'
  BY <1>1, <1>2, <1>3, <1>4 DEF FullInv, Base
<1>6. ~Done'
  BY DEF Done, Writing, Failing, EraseSteps, WriteSteps
<1> QED
  BY <1>3, <1>5, <1>6 DEF DoneInv

\* The page to be written is one of the flash.
LEMMA PageExists ==
    ASSUME ProgInv, Writing
    PROVE  flash_page \in 0 .. PAGES - 1
<1>1. TypeInv /\ HostInv /\ FullInv
  BY DEF ProgInv, LiveInv, Live
<1>2. /\ PAGE \in Nat \ {0} /\ PAGES \in Nat /\ flash_page \in Nat /\ sent \in Nat
      /\ size \in Nat /\ PAGE * PAGES >= size + PAGE /\ portion \in Nat
  BY <1>1, FlashAssumption, ProgAssumption DEF TypeInv, HostInv
<1>3. PAGE * flash_page < sent
  BY <1>1 DEF FullInv, Base
<1>4. sent <= size
  <2>1. DataCnt = Size(size, portion)
    BY DEF DataCnt
  <2>2. DataCnt \in Nat /\ (DataCnt > 0 => portion * PORTION + DataCnt <= size)
    BY <1>2, <2>1, SizeFacts, ProgAssumption
  <2>3. CASE DataCnt = 0
    BY <1>1, <1>2, <2>3 DEF HostInv
  <2>4. CASE DataCnt > 0
    BY <1>1, <2>2, <2>4 DEF HostInv
  <2> QED
    BY <2>2, <2>3, <2>4
<1>5. PAGE * flash_page \in Nat /\ PAGE * PAGES \in Nat
  BY <1>2
<1>6. PAGE * flash_page < PAGE * PAGES
  BY <1>2, <1>3, <1>4, <1>5
<1>7. flash_page < PAGES
  <2>1. ASSUME PAGES < flash_page PROVE FALSE
    <3>1. PAGE * PAGES + PAGE <= PAGE * flash_page
      BY <1>2, <2>1, Apart
    <3> QED
      BY <1>2, <1>5, <1>6, <3>1
  <2>2. flash_page # PAGES
    BY <1>5, <1>6
  <2> QED
    BY <1>2, <2>1, <2>2
<1> QED
  BY <1>2, <1>7

\* The write enable before an erase; a flash that still erases ignores it.
LEMMA EraseEnableStep ==
    ASSUME ProgInv, EraseEnable
    PROVE  ProgInv'
<1>1. Writing /\ Writing' /\ step = "erase_enable" /\ step' = "erase"
  BY DEF EraseEnable, Writing, EraseSteps
<1>2. TypeInv /\ LatchInv /\ StoredInv /\ BlankInv /\ StepInv
  BY <1>1 DEF ProgInv, LiveInv, Live
<1>3. /\ UNCHANGED <<hostVars, flash_page, flash_page_data_cnt,
                     flash_data_counter_to_copy, fpga_byte, flash_page_data>>
      /\ UNCHANGED <<retries, status, flash_reply, mem, busy>>
      /\ wel' = (wel \/ busy = "no")
  BY DEF EraseEnable, WriteEnable
<1>4. HostInv' /\ FullInv' /\ DoneInv'
  BY <1>1, <1>3, PageWaits
<1>5. TypeInv' /\ LatchInv'
  BY <1>1, <1>2, <1>3 DEF TypeInv, LatchInv, EraseSteps, WriteSteps, hostVars
<1>6. StoredInv'
  BY <1>2, <1>3 DEF StoredInv, InPages, hostVars
<1>7. BlankInv'
  <2>1. Begun' => Begun
    BY <1>1, <1>2, <1>3 DEF Begun, WriteSteps, StepInv, EraseSteps, TypeInv
  <2> QED
    BY <1>2, <1>3, <2>1 DEF BlankInv, Blank
<1>8. StepInv'
  BY <1>1, <1>2, <1>3 DEF StepInv, EraseSteps, WriteSteps
<1> QED
  BY <1>4, <1>5, <1>6, <1>7, <1>8 DEF ProgInv, LiveInv

\* The erase spares the pages written so far: they are in earlier sectors.
LEMMA EraseStep ==
    ASSUME ProgInv, Erase
    PROVE  ProgInv'
<1>1. Writing /\ Writing' /\ step = "erase" /\ step' = "erase_status"
  BY DEF Erase, Writing, EraseSteps
<1>2. TypeInv /\ LatchInv /\ StoredInv /\ BlankInv /\ StepInv
  BY <1>1 DEF ProgInv, LiveInv, Live
<1>3. /\ UNCHANGED <<hostVars, flash_page, flash_page_data_cnt,
                     flash_data_counter_to_copy, fpga_byte, flash_page_data>>
      /\ UNCHANGED <<retries, status, flash_reply>>
      /\ SectorErase(flash_page \div SECTOR)
  BY DEF Erase
<1>4. HostInv' /\ FullInv' /\ DoneInv'
  BY <1>1, <1>3, PageWaits
<1>5. SECTOR \in Nat \ {0} /\ flash_page \in Nat /\ flash_page % SECTOR = 0
  BY <1>1, <1>2, FlashAssumption DEF TypeInv, StepInv, EraseSteps
<1>6. CASE busy = "no" /\ wel
  <2>1. /\ mem' = [p \in DOMAIN mem |-> IF p \div SECTOR = flash_page \div SECTOR
                                        THEN PageOf(ErasedByte) ELSE mem[p]]
        /\ busy' = "erase" /\ wel' = FALSE
    BY <1>3, <1>6 DEF SectorErase
  <2>2. TypeInv' /\ LatchInv'
    BY <1>1, <1>2, <1>3, <2>1 DEF TypeInv, LatchInv, EraseSteps, WriteSteps, hostVars
  <2>3. StoredInv'
    <3> SUFFICES ASSUME NEW p \in 0 .. flash_page - 1, NEW o \in Offsets,
                        PAGE * p + o < size
                 PROVE  mem'[p][o] = Byte(image, PAGE * p + o)
      BY <1>3 DEF StoredInv, InPages, hostVars
    <3>1. mem[p][o] = Byte(image, PAGE * p + o)
      BY <1>2 DEF StoredInv, InPages
    <3>2. p \in Nat /\ p < flash_page
      BY <1>5
    <3>3. p \div SECTOR # flash_page \div SECTOR
      BY <1>5, <3>2, EarlierSector
    <3>4. p \in DOMAIN mem
      BY <1>1, <1>2, <3>2, PageExists, FlashAssumption DEF TypeInv
    <3> QED
      BY <2>1, <3>1, <3>3, <3>4
  <2>4. BlankInv'
    <3>1. Blank(flash_page)'
      BY <1>3, <2>1 DEF Blank
    <3> QED
      BY <3>1 DEF BlankInv
  <2>5. StepInv'
    BY <1>1, <1>3, <1>5, <2>1 DEF StepInv, EraseSteps, WriteSteps
  <2> QED
    BY <1>4, <2>2, <2>3, <2>4, <2>5 DEF ProgInv, LiveInv
<1>7. CASE ~(busy = "no" /\ wel)
  <2>1. mem' = mem /\ busy' = busy /\ wel' = wel
    BY <1>3, <1>7 DEF SectorErase, flashVars
  <2>2. TypeInv' /\ LatchInv'
    BY <1>1, <1>2, <1>3, <2>1 DEF TypeInv, LatchInv, EraseSteps, WriteSteps, hostVars
  <2>3. StoredInv'
    BY <1>2, <1>3, <2>1 DEF StoredInv, InPages, hostVars
  <2>4. BlankInv'
    <3>1. Begun
      BY <1>1, <1>2, <1>7 DEF Begun, LatchInv
    <3> QED
      BY <1>2, <1>3, <2>1, <3>1 DEF BlankInv, Blank
  <2>5. StepInv'
    BY <1>1, <1>2, <1>3, <2>1 DEF StepInv, EraseSteps, WriteSteps
  <2> QED
    BY <1>4, <2>2, <2>3, <2>4, <2>5 DEF ProgInv, LiveInv
<1> QED
  BY <1>6, <1>7

\* The wait for the end of the erase, and its time-out.
LEMMA EraseStatusStep ==
    ASSUME ProgInv, EraseStatus
    PROVE  ProgInv'
<1>1. /\ Writing /\ step = "erase_status" /\ step' \in {"erase_status", "enable"}
      /\ status' \in Nat /\ retries' \in Nat
  BY DEF EraseStatus, Writing, EraseSteps, ProgInv, TypeInv
<1>2. TypeInv /\ LatchInv /\ StoredInv /\ BlankInv /\ StepInv
  BY <1>1 DEF ProgInv, LiveInv, Live
<1>3. /\ UNCHANGED <<hostVars, flash_page, flash_page_data_cnt,
                     flash_data_counter_to_copy, fpga_byte, flash_page_data>>
      /\ UNCHANGED <<flash_reply, mem, busy, wel>>
  BY DEF EraseStatus, flashVars
<1>4. HostInv' /\ FullInv' /\ DoneInv'
  <2>1. Writing'
    BY <1>1 DEF Writing, EraseSteps, WriteSteps
  <2> QED
    BY <1>1, <1>3, <2>1, PageWaits
<1>5. TypeInv' /\ LatchInv'
  BY <1>1, <1>2, <1>3 DEF TypeInv, LatchInv, EraseSteps, WriteSteps, hostVars
<1>6. StoredInv'
  BY <1>2, <1>3 DEF StoredInv, InPages, hostVars
<1>7. BlankInv'
  <2>1. Begun
    BY <1>1 DEF Begun
  <2> QED
    BY <1>2, <1>3, <2>1 DEF BlankInv, Blank
<1>8. StepInv'
  BY <1>1, <1>2, <1>3 DEF StepInv, EraseSteps, WriteSteps
<1> QED
  BY <1>4, <1>5, <1>6, <1>7, <1>8 DEF ProgInv, LiveInv

\* The write enable before the page program.
LEMMA EnableStep ==
    ASSUME ProgInv, Enable
    PROVE  ProgInv'
<1>1. Writing /\ Writing' /\ step = "enable" /\ step' = "status"
  BY DEF Enable, Writing, WriteSteps
<1>2. TypeInv /\ LatchInv /\ StoredInv /\ BlankInv /\ StepInv
  BY <1>1 DEF ProgInv, LiveInv, Live
<1>3. /\ UNCHANGED <<hostVars, flash_page, flash_page_data_cnt,
                     flash_data_counter_to_copy, fpga_byte, flash_page_data>>
      /\ UNCHANGED <<retries, status, flash_reply, mem, busy>>
      /\ wel' = (wel \/ busy = "no")
  BY DEF Enable, WriteEnable
<1>4. HostInv' /\ FullInv' /\ DoneInv'
  BY <1>1, <1>3, PageWaits
<1>5. TypeInv' /\ LatchInv'
  BY <1>1, <1>2, <1>3 DEF TypeInv, LatchInv, EraseSteps, WriteSteps, hostVars
<1>6. StoredInv'
  BY <1>2, <1>3 DEF StoredInv, InPages, hostVars
<1>7. BlankInv'
  <2>1. Begun
    BY <1>1 DEF Begun, WriteSteps
  <2> QED
    BY <1>2, <1>3, <2>1 DEF BlankInv, Blank
<1>8. StepInv'
  BY <1>1, <1>2, <1>3 DEF StepInv, EraseSteps, WriteSteps
<1> QED
  BY <1>4, <1>5, <1>6, <1>7, <1>8 DEF ProgInv, LiveInv

\* The flash takes a page program now, or is asked once more, or time is out.
LEMMA StatusStep ==
    ASSUME ProgInv, Status
    PROVE  ProgInv'
<1>1. Writing /\ step = "status"
  BY DEF Status, Writing, WriteSteps
<1>2. TypeInv /\ LatchInv /\ HostInv /\ StoredInv /\ BlankInv /\ StepInv
  BY <1>1 DEF ProgInv, LiveInv, Live
<1>3. /\ UNCHANGED <<hostVars, flash_page, flash_page_data_cnt,
                     flash_data_counter_to_copy, fpga_byte, flash_page_data>>
      /\ UNCHANGED <<mem, busy, wel>>
  BY DEF Status, flashVars
<1>4. \/ flash_reply' = "error" /\ status' = status + 1 /\ step' = "idle" /\ retries' = retries
      \/ /\ retries' = retries + 1 /\ flash_reply' = flash_reply /\ status' = status
         /\ step' \in {"program", "enable"}
         /\ step' = "program" => busy = "no" /\ wel
  BY DEF Status, Failed, Retry
<1>5. TypeInv' /\ LatchInv'
  <2>1. retries' \in Nat /\ status' \in Nat
    BY <1>2, <1>4 DEF TypeInv
  <2>2. image' \in Nat /\ portion' \in Nat /\ sent' \in Nat /\ image' > 0
    BY <1>2, <1>3 DEF TypeInv, HostInv, hostVars
  <2> QED
    BY <1>2, <1>3, <1>4, <2>1, <2>2 DEF TypeInv, LatchInv, EraseSteps, WriteSteps
<1>6. StoredInv'
  BY <1>2, <1>3 DEF StoredInv, InPages, hostVars
<1>7. BlankInv'
  <2>1. Begun
    BY <1>1 DEF Begun, WriteSteps
  <2> QED
    BY <1>2, <1>3, <2>1 DEF BlankInv, Blank
<1>8. StepInv'
  BY <1>1, <1>2, <1>3, <1>4 DEF StepInv, EraseSteps, WriteSteps
<1>9. CASE Writing' \/ Failing'
  <2>1. HostInv' /\ FullInv' /\ DoneInv'
    BY <1>1, <1>3, <1>9, PageWaits
  <2> QED
    BY <1>5, <1>6, <1>7, <1>8, <2>1 DEF ProgInv, LiveInv
<1>10. CASE ~(Writing' \/ Failing')
  <2>1. ~Done'
    BY <1>4, <1>10 DEF Done, Writing, WriteSteps
  <2> QED
    BY <1>5, <1>10, <2>1 DEF ProgInv, LiveInv, Live
<1> QED
  BY <1>9, <1>10

\* The flash ends a program or an erase by itself.
LEMMA FlashReadyStep ==
    ASSUME ProgInv, FlashReady
    PROVE  ProgInv'
<1>1. /\ UNCHANGED <<step, flash_page, flash_page_data_cnt, flash_data_counter_to_copy,
                     fpga_byte, flash_page_data, retries, status, flash_reply>>
      /\ UNCHANGED <<image, size, portion, sent, mem, wel>>
      /\ busy # "no" /\ busy' = "no"
  BY DEF FlashReady, FlashFinish, deviceVars, hostVars
<1>2. TypeInv' /\ LatchInv'
  BY <1>1 DEF ProgInv, TypeInv, LatchInv
<1>3. Live' = Live /\ Done' = Done /\ (Writing \/ Failing)' = (Writing \/ Failing)
  BY <1>1 DEF Live, Done, Writing, Failing
<1>4. SUFFICES ASSUME Live PROVE LiveInv'
  BY <1>2, <1>3 DEF ProgInv, LiveInv
<1>5. LatchInv /\ HostInv /\ StoredInv /\ DoneInv /\ FullInv /\ BlankInv /\ StepInv
  BY <1>4 DEF ProgInv, LiveInv
<1>6. HostInv' /\ DataCnt' = DataCnt
  BY <1>1, <1>5 DEF HostInv, DataCnt, Size
<1>7. StoredInv'
  BY <1>1, <1>5 DEF StoredInv, InPages
<1>8. PageHolds(sent)' = PageHolds(sent) /\ Base' = Base
  BY <1>1 DEF PageHolds, Base
<1>9. DoneInv' /\ FullInv'
  BY <1>1, <1>3, <1>5, <1>6, <1>8 DEF DoneInv, FullInv
<1>10. BlankInv'
  <2>1. Begun' => Begun
    BY <1>1 DEF Begun
  <2> QED
    BY <1>1, <1>5, <2>1 DEF BlankInv, Blank
<1>11. StepInv'
  BY <1>1, <1>5 DEF StepInv, EraseSteps, WriteSteps, LatchInv
<1> QED
  BY <1>6, <1>7, <1>9, <1>10, <1>11 DEF LiveInv

\* The page program after an erase that timed out: the portion comes again.
LEMMA ProgramFails ==
    ASSUME ProgInv, Program, status # 0
    PROVE  ProgInv'
<1>1. Writing /\ step = "program"
  BY DEF Program, Writing, WriteSteps
<1>2. TypeInv /\ LatchInv /\ HostInv /\ StoredInv /\ BlankInv /\ StepInv
  BY <1>1 DEF ProgInv, LiveInv, Live
<1>3. /\ UNCHANGED <<hostVars, flash_page, flash_page_data_cnt,
                     flash_data_counter_to_copy, fpga_byte, flash_page_data>>
      /\ UNCHANGED <<retries, status>>
      /\ flash_reply' = "error" /\ step' = "idle"
  BY DEF Program, Failed
<1>4. busy = "no" /\ wel /\ flash_page % SECTOR = 0
  BY <1>1, <1>2 DEF StepInv, WriteSteps
<1>5. /\ mem' = [mem EXCEPT ![flash_page] = Overwrite(mem[flash_page], flash_page_data)]
      /\ busy' = "program" /\ wel' = FALSE
  BY <1>4 DEF Program, PageProgram
<1>6. TypeInv' /\ LatchInv'
  <2>1. image' \in Nat /\ portion' \in Nat /\ sent' \in Nat /\ image' > 0
    BY <1>2, <1>3 DEF TypeInv, HostInv, hostVars
  <2>2. DOMAIN mem' = 0 .. PAGES - 1
    BY <1>2, <1>5 DEF TypeInv
  <2> QED
    BY <1>2, <1>3, <1>5, <2>1, <2>2 DEF TypeInv, LatchInv
<1>7. StoredInv'
  <2>1. flash_page \in Nat
    BY <1>2 DEF TypeInv
  <2>2. \A p \in 0 .. flash_page - 1 : mem'[p] = mem[p]
    BY <1>1, <1>2, <1>5, <2>1, PageExists, FlashAssumption DEF TypeInv
  <2> QED
    BY <1>2, <1>3, <2>2 DEF StoredInv, InPages, hostVars
<1>8. BlankInv' /\ StepInv'
  BY <1>3, <1>4, <1>5 DEF BlankInv, Begun, StepInv, EraseSteps, WriteSteps
<1>9. CASE Failing'
  <2>1. HostInv' /\ FullInv' /\ DoneInv'
    BY <1>1, <1>3, <1>9, PageWaits
  <2> QED
    BY <1>6, <1>7, <1>8, <2>1 DEF ProgInv, LiveInv
<1>10. CASE ~Failing'
  <2>1. ~Live'
    BY <1>3, <1>10 DEF Live, Done, Writing, EraseSteps, WriteSteps
  <2> QED
    BY <1>6, <2>1 DEF ProgInv, LiveInv
<1> QED
  BY <1>9, <1>10

\* The page is written, and the portion answered.
LEMMA ProgramWrites ==
    ASSUME ProgInv, Program, status = 0
    PROVE  ProgInv'
<1>1. Writing /\ step = "program"
  BY DEF Program, Writing, WriteSteps
<1>2. TypeInv /\ LatchInv /\ HostInv /\ StoredInv /\ FullInv /\ BlankInv /\ StepInv
  BY <1>1 DEF ProgInv, LiveInv, Live
<1>3. /\ PAGE \in Nat \ {0} /\ PAGES \in Nat /\ SECTOR \in Nat \ {0} /\ PORTION \in Nat
      /\ FPGA_SIZE \in Nat
      /\ flash_page \in 0 .. PAGES - 1 /\ flash_page \in Nat
      /\ sent \in Nat /\ fpga_byte \in Nat /\ size \in Nat /\ portion \in Nat
      /\ image \in Nat /\ image > 0 /\ size \in SIZES
  BY <1>1, <1>2, PageExists, FlashAssumption, ProgAssumption DEF TypeInv, HostInv
<1>4. DataCnt \in Nat /\ (DataCnt > 0 => sent <= size)
  <2>1. DataCnt = Size(size, portion)
    BY DEF DataCnt
  <2>2. DataCnt \in Nat /\ (DataCnt > 0 => portion * PORTION + DataCnt <= size)
    BY <1>3, <2>1, SizeFacts
  <2> QED
    BY <1>2, <2>2 DEF HostInv
<1>5. /\ flash_data_counter_to_copy = DataCnt /\ fpga_byte + DataCnt = sent
      /\ PAGE * flash_page < sent /\ sent <= PAGE * flash_page + PAGE
      /\ (DataCnt > 0 => sent = PAGE * flash_page + PAGE)
      /\ PageHolds(sent)
  BY <1>1, <1>2 DEF FullInv, Base
<1>6. busy = "no" /\ wel
  BY <1>1, <1>2 DEF StepInv
<1>7. /\ mem' = [mem EXCEPT ![flash_page] = Overwrite(mem[flash_page], flash_page_data)]
      /\ busy' = "program" /\ wel' = FALSE
  BY <1>6 DEF Program, PageProgram
<1>8. /\ flash_page' = flash_page + 1
      /\ EndPortion(flash_page_data, 0, flash_data_counter_to_copy, fpga_byte, DataField, DataCnt)
      /\ UNCHANGED <<image, size, portion, sent, retries, status>>
  BY DEF Program, Kept, hostVars
<1>9. /\ flash_page_data' = flash_page_data /\ flash_page_data_cnt' = 0
      /\ flash_data_counter_to_copy' = DataCnt
      /\ fpga_byte' = sent /\ step' = "idle"
      /\ flash_reply' = (IF sent <= FPGA_SIZE THEN "completed" ELSE "error")
  <2>1. ~(DataCnt > flash_data_counter_to_copy)
    BY <1>4, <1>5
  <2>2. fpga_byte + DataCnt = sent
    BY <1>5
  <2> QED
    BY <1>5, <1>8, <2>1, <2>2 DEF EndPortion
<1>10. PAGE * (flash_page + 1) = PAGE * flash_page + PAGE /\ PAGE * flash_page \in Nat
  BY <1>3
<1>11. mem[flash_page] = PageOf(ErasedByte)
  <2>1. Begun
    BY <1>1 DEF Begun, WriteSteps
  <2> QED
    BY <1>2, <1>3, <2>1 DEF BlankInv, Blank, TypeInv
<1>12. \A o \in Offsets : mem'[flash_page][o] = flash_page_data[o]
  <2>1. mem'[flash_page] = Overwrite(PageOf(ErasedByte), flash_page_data)
    BY <1>2, <1>3, <1>7, <1>11 DEF TypeInv
  <2> QED
    BY <2>1 DEF Overwrite, PageOf
<1>13. \A p \in DOMAIN mem : p # flash_page => mem'[p] = mem[p]
  BY <1>7
<1>14. TypeInv' /\ LatchInv'
  <2>1. flash_page' \in Nat /\ flash_page_data_cnt' \in Nat /\ fpga_byte' \in Nat
        /\ flash_data_counter_to_copy' \in Nat
    BY <1>3, <1>4, <1>8, <1>9
  <2>2. DOMAIN mem' = 0 .. PAGES - 1
    BY <1>2, <1>7 DEF TypeInv
  <2> QED
    BY <1>2, <1>3, <1>7, <1>8, <1>9, <2>1, <2>2 DEF TypeInv, LatchInv
<1>15. HostInv' /\ DataCnt' = DataCnt
  BY <1>2, <1>8 DEF HostInv, DataCnt, Size
<1>16. StoredInv'
  <2> SUFFICES ASSUME NEW p \in 0 .. flash_page, NEW o \in Offsets, PAGE * p + o < size
               PROVE  mem'[p][o] = Byte(image, PAGE * p + o)
    BY <1>3, <1>8 DEF StoredInv, InPages
  <2>1. o \in Nat /\ o < PAGE
    BY <1>3 DEF Offsets
  <2>2. CASE p = flash_page
    <3>1. DataCnt = 0 => sent = size
      BY <1>2 DEF HostInv
    <3>2. PAGE * flash_page + o < sent
      BY <1>3, <1>4, <1>5, <1>10, <2>1, <2>2, <3>1
    <3> QED
      BY <1>5, <1>12, <2>2, <3>2 DEF PageHolds, Base
  <2>3. CASE p # flash_page
    <3>1. p \in 0 .. flash_page - 1 /\ p \in DOMAIN mem
      BY <1>2, <1>3, <2>3 DEF TypeInv
    <3>2. mem'[p] = mem[p]
      BY <1>13, <2>3, <3>1
    <3> QED
      BY <1>2, <3>1, <3>2 DEF StoredInv, InPages
  <2> QED
    BY <2>2, <2>3
<1>17. Base' = PAGE * flash_page + PAGE
  BY <1>8, <1>10 DEF Base
<1>18. DoneInv'
  <2> SUFFICES ASSUME Done' PROVE DoneInv'
    BY DEF DoneInv
  <2>1. fpga_byte' = sent' /\ sent' = sent /\ sent <= FPGA_SIZE
    BY <1>8, <1>9 DEF Done
  <2>2. DataCnt = 0 => size <= Base'
    BY <1>2, <1>5, <1>17 DEF HostInv
  <2>3. DataCnt > 0 => Base' + 0 = sent
    BY <1>5, <1>10, <1>17
  <2>4. 0 \in 0 .. PAGE /\ 0 = 0 * PORTION /\ 0 < PAGE
    BY <1>3
  <2>5. DataCnt > 0 => PageHolds(sent)'
    <3> SUFFICES ASSUME DataCnt > 0, NEW o \in Offsets
                 PROVE  ~(Base' + o < sent')
      BY DEF PageHolds
    <3>1. o \in Nat
      BY <1>3 DEF Offsets
    <3> QED
      BY <1>3, <1>5, <1>10, <1>17, <2>1, <3>1
  <2> QED
    BY <1>8, <1>9, <1>15, <2>1, <2>2, <2>3, <2>4, <2>5 DEF DoneInv
<1>19. ~(Writing' \/ Failing')
  BY <1>3, <1>9 DEF Writing, Failing, EraseSteps, WriteSteps
<1>20. BlankInv'
  <2> SUFFICES ASSUME Begun', NEW p \in DOMAIN mem', p >= flash_page',
                      p \div SECTOR = flash_page' \div SECTOR
               PROVE  mem'[p] = PageOf(ErasedByte)
    BY DEF BlankInv, Blank
  <2>1. (flash_page + 1) % SECTOR # 0
    BY <1>7, <1>8, <1>9 DEF Begun, WriteSteps
  <2>2. (flash_page + 1) \div SECTOR = flash_page \div SECTOR
    BY <1>3, <2>1, SameSector
  <2>3. Blank(flash_page)
    BY <1>1, <1>2 DEF BlankInv, Begun, WriteSteps
  <2>4. p \in DOMAIN mem /\ p \in Nat /\ p # flash_page /\ p >= flash_page
    BY <1>2, <1>3, <1>7, <1>8 DEF TypeInv
  <2> QED
    BY <1>8, <1>13, <2>2, <2>3, <2>4 DEF Blank
<1>21. StepInv'
  BY <1>7, <1>9 DEF StepInv, EraseSteps, WriteSteps
<1> QED
  BY <1>14, <1>15, <1>16, <1>18, <1>19, <1>20, <1>21 DEF ProgInv, LiveInv, FullInv

\* The page program, after an erase that worked or did not.
LEMMA ProgramStep ==
    ASSUME ProgInv, Program
    PROVE  ProgInv'
  BY ProgramFails, ProgramWrites DEF ProgInv, TypeInv

-----------------------------------------------------------------------------
(* The results.                                                            *)

\* The first state.
LEMMA ProgInvInit == ProgInit => ProgInv
<1> SUFFICES ASSUME ProgInit PROVE ProgInv
  OBVIOUS
<1>1. TypeInv /\ LatchInv
  BY DEF ProgInit, FlashInit, TypeInv, LatchInv
<1>2. ~Live
  BY DEF ProgInit, Live, Writing, Failing, Done, EraseSteps, WriteSteps
<1> QED
  BY <1>1, <1>2 DEF ProgInv, LiveInv

\* Every step keeps the invariant.
LEMMA ProgInvNext ==
    ASSUME SLOW_HOST, Divides, ProgInv, [ProgNext]_progVars
    PROVE  ProgInv'
<1>1. CASE UNCHANGED progVars
  <2>1. /\ UNCHANGED <<step, flash_page, flash_page_data_cnt, flash_data_counter_to_copy,
                       fpga_byte, flash_page_data, retries, status, flash_reply>>
        /\ UNCHANGED <<image, size, portion, sent, mem, busy, wel>>
    BY <1>1 DEF progVars, deviceVars, hostVars, flashVars
  <2> QED
    BY <2>1
    DEF ProgInv, TypeInv, LatchInv, LiveInv, Live, Writing, Failing, Done, HostInv,
        StoredInv, InPages, DoneInv, FullInv, PageHolds, Base, BlankInv, Blank, Begun,
        StepInv, DataCnt, Size
<1>2. CASE FlashFirmware
  BY <1>2, EraseEnableStep, EraseStep, EraseStatusStep, EnableStep, StatusStep, ProgramStep
  DEF FlashFirmware
<1>3. CASE Continue
  BY <1>3, ContinueStep
<1>4. CASE Repeat
  BY <1>4, RepeatStep
<1>5. CASE Begin
  BY <1>5, BeginStep
<1>6. CASE FlashReady
  BY <1>6, FlashReadyStep
<1> QED
  BY <1>1, <1>2, <1>3, <1>4, <1>5, <1>6 DEF ProgNext

\* What the invariant says of a byte the host counts as stored.
LEMMA ByteInFlash ==
    ASSUME ProgInv, Done, NEW i \in Nat, i < Base, i < size
    PROVE  InFlash(i)
<1>1. TypeInv /\ StoredInv
  BY DEF ProgInv, LiveInv, Live
<1>2. PAGE \in Nat \ {0} /\ flash_page \in Nat
  BY <1>1, FlashAssumption DEF TypeInv
<1>3. i \div PAGE \in Nat /\ i % PAGE \in Offsets /\ i = PAGE * (i \div PAGE) + (i % PAGE)
  BY <1>2, DivMod DEF Offsets
<1>4. i \div PAGE \in 0 .. flash_page - 1
  <2>1. i < PAGE * flash_page
    BY DEF Base
  <2>2. i \div PAGE < flash_page
    BY <1>2, <2>1, BelowPage
  <2> QED
    BY <1>2, <1>3, <2>2
<1> QED
  BY <1>1, <1>3, <1>4 DEF StoredInv, InPages, InFlash

\* The invariant implies the two properties.
LEMMA InvConfirmed == ASSUME ProgInv PROVE Confirmed
<1> SUFFICES ASSUME Done, NEW i \in 0 .. sent - 1
             PROVE  IF i < flash_page * PAGE THEN InFlash(i) ELSE OnPage(i)
  BY DEF Confirmed, Done
<1>1. TypeInv /\ HostInv /\ DoneInv
  BY DEF ProgInv, LiveInv, Live
<1>2. /\ PAGE \in Nat \ {0} /\ flash_page \in Nat /\ i \in Nat /\ i < sent /\ sent \in Nat
      /\ size \in Nat /\ portion \in Nat /\ flash_page_data_cnt \in Nat
  BY <1>1, FlashAssumption, ProgAssumption DEF TypeInv, HostInv
<1>3. flash_page * PAGE = Base /\ Base \in Nat
  BY <1>2 DEF Base
<1>4. DataCnt \in Nat /\ sent <= size
  <2>1. DataCnt = Size(size, portion)
    BY DEF DataCnt
  <2>2. DataCnt \in Nat /\ (DataCnt > 0 => portion * PORTION + DataCnt <= size)
    BY <1>2, <2>1, SizeFacts, ProgAssumption
  <2>3. CASE DataCnt = 0
    BY <1>1, <1>2, <2>3 DEF HostInv
  <2>4. CASE DataCnt > 0
    BY <1>1, <2>2, <2>4 DEF HostInv
  <2> QED
    BY <2>2, <2>3, <2>4
<1>5. CASE i < Base
  BY <1>2, <1>3, <1>4, <1>5, ByteInFlash
<1>6. CASE ~(i < Base)
  <2>1. DataCnt > 0
    BY <1>1, <1>2, <1>3, <1>4, <1>6 DEF DoneInv, HostInv
  <2>2. flash_page_data_cnt < PAGE /\ Base + flash_page_data_cnt = sent /\ PageHolds(sent)
    BY <1>1, <2>1 DEF DoneInv
  <2>3. Base <= i /\ i < Base + PAGE
    BY <1>2, <1>3, <1>6, <2>2
  <2>4. i % PAGE = i - Base
    BY <1>2, <2>3, OnPageOf DEF Base
  <2>5. i % PAGE \in Offsets /\ Base + (i % PAGE) = i
    BY <1>2, <1>3, <2>3, <2>4 DEF Offsets
  <2>6. flash_page_data[i % PAGE] = Byte(image, i)
    BY <1>2, <2>2, <2>5 DEF PageHolds
  <2> QED
    BY <1>3, <1>6, <2>6 DEF OnPage
<1> QED
  BY <1>5, <1>6

\* After the empty portion nothing is left on the page.
LEMMA InvImageStored == ASSUME ProgInv PROVE ImageStored
<1> SUFFICES ASSUME Done, DataCnt = 0
             PROVE  size <= FPGA_SIZE /\ \A i \in 0 .. size - 1 : InFlash(i)
  BY DEF ImageStored, Done, AtEnd
<1>1. TypeInv /\ HostInv /\ DoneInv
  BY DEF ProgInv, LiveInv, Live
<1>2. size \in Nat /\ size <= Base /\ Base \in Nat /\ size <= FPGA_SIZE
  BY <1>1, FlashAssumption, ProgAssumption DEF TypeInv, HostInv, DoneInv, Base
<1>3. ASSUME NEW i \in 0 .. size - 1 PROVE InFlash(i)
  <2>1. i \in Nat /\ i < size /\ i < Base
    BY <1>2
  <2> QED
    BY <2>1, ByteInFlash
<1> QED
  BY <1>2, <1>3

\* The invariant holds when the host waits for the flash and its portions divide
\* the page.
THEOREM ProgInvariant == ASSUME SLOW_HOST, Divides PROVE ProgSpec => []ProgInv
<1>1. ASSUME ProgInv, [ProgNext]_progVars PROVE ProgInv'
  BY <1>1, ProgInvNext
<1> QED
  BY <1>1, ProgInvInit, PTL DEF ProgSpec

\* Every byte of a portion answered with completed is in flash or on the page
\* under construction, where it belongs (lines 757-810).
THEOREM ConfirmedHolds == ASSUME SLOW_HOST, Divides PROVE ProgSpec => []Confirmed
  BY ProgInvariant, InvConfirmed, PTL

\* After the answer to the empty portion the flash holds the whole bitstream, none
\* too large (lines 769-773 and 812-827).
THEOREM ImageStoredHolds == ASSUME SLOW_HOST, Divides PROVE ProgSpec => []ImageStored
  BY ProgInvariant, InvImageStored, PTL

-----------------------------------------------------------------------------
(* McuFw, and the program.                                                 *)

\* A set of naturals that is not empty has a least element.
LEMMA LeastNatural ==
    ASSUME NEW S \in SUBSET Nat, S # {}
    PROVE  \E x \in S : \A y \in S : x <= y
<1>1. PICK x \in S : \A y \in S : ~(<<y, x>> \in OpToRel(<, Nat))
  BY NatLessThanWellFounded, WFMin
<1>2. \A y \in S : ~(y < x)
  BY <1>1, Zenon DEF OpToRel
<1>. QED  BY <1>2

-----------------------------------------------------------------------------
(* Writing a bitstream.                                                    *)

\* A restart leaves a bitstream that can only be begun again.
LEMMA RestartForgets ==
    ASSUME ProgInv, Restart
    PROVE  ProgInv'
<1>1. /\ step' = "idle" /\ flash_page' = 0 /\ flash_page_data_cnt' = 0
      /\ flash_data_counter_to_copy' = 0 /\ fpga_byte' = 0
      /\ retries' = 0 /\ status' = 0 /\ flash_reply' = "none"
      /\ UNCHANGED <<mem, busy, wel, image, size, portion, sent>>
  BY DEF Restart, flashVars, hostVars
<1>2. TypeInv' /\ LatchInv'
  BY <1>1 DEF ProgInv, TypeInv, LatchInv
<1>3. ~Live'
  BY <1>1 DEF Live, Writing, Failing, Done, EraseSteps, WriteSteps
<1> QED
  BY <1>2, <1>3 DEF ProgInv, LiveInv

\* All else that happens is a step of FlashProg or leaves it alone.
LEMMA FirmProgStep ==
    ASSUME [FirmNext]_allVars
    PROVE  [ProgNext]_progVars \/ Restart
<1>1. CASE UNCHANGED allVars
  BY <1>1 DEF allVars
<1>2. CASE LoopStep
  BY <1>2 DEF LoopStep
<1>3. CASE McuStep
  BY <1>3 DEF McuStep
<1>4. CASE UpdateStep
  BY <1>4 DEF UpdateStep, ProgNext
<1>5. CASE ChipStep
  BY <1>5 DEF ChipStep, ProgNext
<1>6. CASE HostCall
  BY <1>6 DEF HostCall
<1>7. CASE HostPortion
  BY <1>7 DEF HostPortion
<1>8. CASE HostUpdate
  BY <1>8 DEF HostUpdate, ProgNext
<1> QED
  BY <1>1, <1>2, <1>3, <1>4, <1>5, <1>6, <1>7, <1>8 DEF FirmNext

\* The invariant of FlashProg in the program.
THEOREM FirmProgInvariant == ASSUME SLOW_HOST, Divides PROVE FirmSpec => []ProgInv
<1>1. FirmInit => ProgInv
  BY ProgInvInit DEF FirmInit
<1>2. ASSUME ProgInv, [FirmNext]_allVars PROVE ProgInv'
  BY <1>2, FirmProgStep, ProgInvNext, RestartForgets
<1> QED
  BY <1>1, <1>2, PTL DEF FirmSpec

\* Restarts included, every byte of a portion answered with completed is in flash
\* or on the page under construction (main.c lines 757-810).
THEOREM PortionsAreKept == ASSUME SLOW_HOST, Divides PROVE FirmSpec => []Confirmed
  BY FirmProgInvariant, InvConfirmed, PTL

\* Restarts included, the flash holds the whole bitstream once the empty portion
\* is answered with completed (main.c lines 769-773 and 812-827).
THEOREM BitstreamIsStored == ASSUME SLOW_HOST, Divides PROVE FirmSpec => []ImageStored
  BY FirmProgInvariant, InvImageStored, PTL

-----------------------------------------------------------------------------
(* Loading the MCU, without restarts and other commands.                   *)

\* The portions 0 .. n - 1, in order.
Portions(n) == [i \in 1 .. n |-> i - 1]

\* What the MCU holds is told by where the firmware is.  An MCU that does not
\* run keeps a portion in its FIFO, and the firmware then never leaves the
\* wait: that is why a portion that was let through by a stale last_portion
\* (after power-up, after a boot) is never answered.
Resting ==
    pc = "idle" =>
        /\ fifo = NoPortion
        /\ running => loaded = Portions(last_portion + 1)

Resetting ==
    /\ pc \in {"reset", "mode"} => current_portion = 0 /\ fifo = NoPortion
    /\ pc = "mode" => ~running /\ loaded = <<>>

BeforeWrite ==
    pc \in {"wait_fifo", "write"} =>
        /\ mode # "boot" /\ fifo = NoPortion
        /\ running => loaded = Portions(current_portion)

AfterWrite ==
    pc = "wait_empty" =>
        /\ mode # "boot"
        /\ \/ fifo = current_portion /\ (running => loaded = Portions(current_portion))
           \/ fifo = NoPortion /\ running /\ loaded = Portions(current_portion + 1)

LastWait ==
    pc = "wait_programmed" =>
        /\ current_portion = LAST /\ mode # "boot" /\ fifo = NoPortion
        /\ running /\ loaded = Portions(LAST + 1)
        /\ MCU_retries <= MAX_MCU_RETRIES

Answers ==
    pc = "idle" /\ reply = "completed" /\ mode # "boot" =>
        /\ running /\ last_portion = current_portion
        /\ current_portion = LAST => programmed

\* A boot command is for portion 0, which is not the last.
BootIsFirst == mode = "boot" => current_portion = 0

\* The program in the MCU never has more portions than there are.
Whole == \E n \in 0 .. LAST + 1 : loaded = Portions(n)

IInv == TypeOK /\ Resting /\ Resetting /\ BeforeWrite /\ AfterWrite /\ LastWait
        /\ Answers /\ BootIsFirst /\ Whole

-----------------------------------------------------------------------------

\* The next portion behind those before it.
LEMMA NextPortion ==
  ASSUME NEW n \in Nat
  PROVE  /\ Len(Portions(n)) = n
         /\ Append(Portions(n), n) = Portions(n + 1)
<1>1. Portions(n) \in Seq(Nat)
  BY DEF Portions
<1>2. Len(Portions(n)) = n
  BY <1>1 DEF Portions
<1>3. Append(Portions(n), n) = Portions(n + 1)
  BY <1>1, <1>2 DEF Portions
<1> QED BY <1>2, <1>3

\* No portions are the empty sequence.
LEMMA NoPortions == Portions(0) = <<>> /\ Len(<<>>) = 0
BY DEF Portions

\* A counter below its limit is below the range of its type, too.
LEMMA NoWrap ==
  ASSUME NEW r \in 0 .. RETRIES_RANGE - 1
  PROVE  /\ (r + 1) % RETRIES_RANGE \in 0 .. RETRIES_RANGE - 1
         /\ r < MAX_MCU_RETRIES => (r + 1) % RETRIES_RANGE = r + 1
<1>1. RETRIES_RANGE \in Nat \ {0} /\ MAX_MCU_RETRIES \in Nat /\ RETRIES_RANGE > MAX_MCU_RETRIES
  BY McuAssumption
<1>2. CASE r + 1 = RETRIES_RANGE
  BY <1>1, <1>2
<1>3. CASE r + 1 < RETRIES_RANGE
  BY <1>1, <1>3
<1> QED BY <1>1, <1>2, <1>3

\* After power-up last_portion is 0, as after portion 0, but the MCU does not run.
LEMMA InitIInv == Init => IInv
<1> SUFFICES ASSUME Init PROVE IInv
  OBVIOUS
<1>2. TypeOK
  <2>1. programmed \in BOOLEAN /\ running \in BOOLEAN
    BY Zenon DEF Init
  <2>2. Len(loaded) <= LAST + 1
    BY NoPortions, McuAssumption DEF Init
  <2>3. /\ last_portion \in 0 .. LAST /\ current_portion \in 0 .. LAST
        /\ MCU_retries \in 0 .. RETRIES_RANGE - 1 /\ cmds \in 0 .. MAX_CMDS
        /\ fifo \in NoPortion .. LAST
    BY McuAssumption DEF Init, NoPortion
  <2> QED BY <2>1, <2>2, <2>3 DEF Init, TypeOK, PROG_MODES
<1>3. Whole
  BY NoPortions, McuAssumption DEF Init, Whole
<1> QED
  BY <1>2, <1>3 DEF Init, IInv, Resting, Resetting, BeforeWrite, AfterWrite, LastWait,
     Answers, BootIsFirst

\* Every command of the host, SPI access of the firmware and step of the MCU
\* keeps the invariant.
LEMMA NextIInv == IInv /\ [Next]_vars => IInv'
<1> SUFFICES ASSUME IInv, [Next]_vars PROVE IInv'
  OBVIOUS
<1> USE McuAssumption, EmptyWaitAssumption DEF IInv, NoPortion, PROG_MODES
<1>t. TypeOK /\ Whole
  OBVIOUS
<1>w. (MCU_retries + 1) % RETRIES_RANGE \in 0 .. RETRIES_RANGE - 1
      /\ (MCU_retries < MAX_MCU_RETRIES => (MCU_retries + 1) % RETRIES_RANGE = MCU_retries + 1)
  BY <1>t, NoWrap DEF TypeOK
<1>1. ASSUME NEW p \in 0 .. LAST, NEW m \in PROG_MODES, m = "boot" => p = 0,
              Command(p, m)
       PROVE  IInv'
  <2>1. Whole'
    BY <1>t, <1>1 DEF Command, RightOrder, mcuVars, fwVars, Whole
  <2>2. TypeOK'
    BY <1>t, <1>w, <1>1, <2>1 DEF Command, RightOrder, mcuVars, fwVars, TypeOK
  <2>3. Resting' /\ Resetting' /\ BeforeWrite' /\ AfterWrite' /\ LastWait' /\ Answers' /\ BootIsFirst'
    BY <1>t, <1>w, <1>1 DEF Command, RightOrder, mcuVars, fwVars, TypeOK, Resting, Resetting, BeforeWrite, AfterWrite, LastWait,
       Answers, BootIsFirst
  <2> QED BY <2>1, <2>2, <2>3
<1>2. ASSUME McuReset PROVE IInv'
  <2>1. Whole'
    BY <1>2, NoPortions DEF McuReset, Whole
  <2>b. programmed' \in BOOLEAN /\ running' \in BOOLEAN
    BY <1>2, Zenon DEF McuReset
  <2>2. TypeOK'
    BY <1>t, <1>2, <2>b, NoPortions DEF McuReset, TypeOK
  <2>3. Resting' /\ Resetting' /\ BeforeWrite' /\ AfterWrite' /\ LastWait' /\ Answers' /\ BootIsFirst'
    BY <1>t, <1>w, <1>2 DEF McuReset, mcuVars, fwVars, TypeOK, Resting, Resetting, BeforeWrite, AfterWrite, LastWait,
       Answers, BootIsFirst
  <2> QED BY <2>1, <2>2, <2>3
<1>3. ASSUME McuMode PROVE IInv'
  <2>1. Whole'
    BY <1>t, <1>3 DEF McuMode, mcuVars, fwVars, Whole
  <2>2. TypeOK'
    BY <1>t, <1>w, <1>3, <2>1 DEF McuMode, mcuVars, fwVars, TypeOK
  <2>3. Resting' /\ Resetting' /\ BeforeWrite' /\ AfterWrite' /\ LastWait' /\ Answers' /\ BootIsFirst'
    BY <1>t, <1>w, <1>3, NoPortions DEF McuMode, mcuVars, fwVars, TypeOK, Resting, Resetting, BeforeWrite, AfterWrite, LastWait,
       Answers, BootIsFirst
  <2> QED BY <2>1, <2>2, <2>3
<1>4. ASSUME WaitFifo PROVE IInv'
  <2>1. Whole'
    BY <1>t, <1>4 DEF WaitFifo, Poll, mcuVars, fwVars, Whole
  <2>2. TypeOK'
    BY <1>t, <1>w, <1>4, <2>1 DEF WaitFifo, Poll, mcuVars, fwVars, TypeOK
  <2>3. Resting' /\ Resetting' /\ BeforeWrite' /\ AfterWrite' /\ LastWait' /\ Answers' /\ BootIsFirst'
    BY <1>t, <1>w, <1>4 DEF WaitFifo, Poll, mcuVars, fwVars, TypeOK, Resting, Resetting, BeforeWrite, AfterWrite, LastWait,
       Answers, BootIsFirst
  <2> QED BY <2>1, <2>2, <2>3
<1>5. ASSUME Write PROVE IInv'
  <2>1. Whole'
    BY <1>t, <1>5 DEF Write, mcuVars, fwVars, Whole
  <2>2. TypeOK'
    BY <1>t, <1>w, <1>5, <2>1 DEF Write, mcuVars, fwVars, TypeOK, BeforeWrite
  <2>3. Resting' /\ Resetting' /\ BeforeWrite' /\ AfterWrite' /\ LastWait' /\ Answers' /\ BootIsFirst'
    BY <1>t, <1>w, <1>5 DEF Write, mcuVars, fwVars, TypeOK, Resting, Resetting, BeforeWrite, AfterWrite, LastWait,
       Answers, BootIsFirst
  <2> QED BY <2>1, <2>2, <2>3
<1>6. ASSUME WaitEmpty PROVE IInv'
  <2>1. Whole'
    BY <1>t, <1>6 DEF WaitEmpty, Emptied, mcuVars, fwVars, Whole
  <2>2. TypeOK'
    BY <1>t, <1>w, <1>6, <2>1 DEF WaitEmpty, Emptied, mcuVars, fwVars, TypeOK
  <2>3. Resting' /\ Resetting' /\ BeforeWrite' /\ AfterWrite' /\ LastWait' /\ Answers' /\ BootIsFirst'
    BY <1>t, <1>w, <1>6 DEF WaitEmpty, Emptied, mcuVars, fwVars, TypeOK, Resting, Resetting, BeforeWrite, AfterWrite, LastWait,
       Answers, BootIsFirst
  <2> QED BY <2>1, <2>2, <2>3
<1>7. ASSUME WaitProgrammed PROVE IInv'
  <2>1. Whole'
    BY <1>t, <1>7 DEF WaitProgrammed, Poll, TimedOut, mcuVars, fwVars, Whole
  <2>2. TypeOK'
    BY <1>t, <1>w, <1>7, <2>1 DEF WaitProgrammed, Poll, TimedOut, mcuVars, fwVars, TypeOK
  <2>3. Resting' /\ Resetting' /\ BeforeWrite' /\ AfterWrite' /\ LastWait' /\ Answers' /\ BootIsFirst'
    BY <1>t, <1>w, <1>7 DEF WaitProgrammed, Poll, TimedOut, mcuVars, fwVars, TypeOK, Resting, Resetting, BeforeWrite, AfterWrite, LastWait,
       Answers, BootIsFirst
  <2> QED BY <2>1, <2>2, <2>3
<1>8. ASSUME Take PROVE IInv'
  <2>1. /\ pc = "wait_empty" /\ mode # "boot" /\ fifo = current_portion
        /\ loaded = Portions(current_portion) /\ current_portion \in 0 .. LAST
    <3>1. fifo # NoPortion /\ running
      BY <1>8 DEF Take
    <3>2. pc = "wait_empty"
      BY <1>t, <3>1 DEF TypeOK, Resting, Resetting, BeforeWrite, LastWait
    <3>3. AfterWrite
      OBVIOUS
    <3>4. mode # "boot" /\ fifo = current_portion /\ loaded = Portions(current_portion)
      BY <3>1, <3>2, <3>3, Zenon DEF AfterWrite
    <3>5. current_portion \in 0 .. LAST
      BY <1>t DEF TypeOK
    <3> QED BY <3>2, <3>4, <3>5
  <2>n. current_portion \in Nat /\ current_portion + 1 \in Nat
    BY <2>1
  <2>2. loaded' = Portions(current_portion + 1)
    <3>1. loaded' = Append(Portions(current_portion), current_portion)
      BY <1>8, <2>1, Zenon DEF Take
    <3> QED BY <2>n, <3>1, NextPortion, Zenon
  <2>3. Len(loaded') = current_portion + 1
    BY <2>n, <2>2, NextPortion, Zenon
  <2>4. Whole'
    BY <2>1, <2>2 DEF Whole
  <2>5. TypeOK'
    BY <1>t, <1>8, <2>1, <2>3 DEF Take, fwVars, TypeOK
  <2>6. AfterWrite'
    BY <1>8, <2>1, <2>2 DEF Take, fwVars, AfterWrite
  <2>7. Resting' /\ Resetting' /\ BeforeWrite' /\ LastWait' /\ Answers' /\ BootIsFirst'
    BY <1>8, <2>1 DEF Take, fwVars, Resting, Resetting, BeforeWrite, LastWait, Answers, BootIsFirst
  <2> QED BY <2>4, <2>5, <2>6, <2>7
<1>9. ASSUME Finish PROVE IInv'
  <2>1. Whole'
    BY <1>t, <1>9 DEF Finish, mcuVars, fwVars, Whole
  <2>2. TypeOK'
    BY <1>t, <1>w, <1>9, <2>1 DEF Finish, mcuVars, fwVars, TypeOK
  <2>3. Resting' /\ Resetting' /\ BeforeWrite' /\ AfterWrite' /\ LastWait' /\ Answers' /\ BootIsFirst'
    BY <1>t, <1>w, <1>9 DEF Finish, mcuVars, fwVars, TypeOK, Resting, Resetting, BeforeWrite, AfterWrite, LastWait,
       Answers, BootIsFirst
  <2> QED BY <2>1, <2>2, <2>3
<1>10. ASSUME UNCHANGED vars PROVE IInv'
  BY <1>10 DEF vars, fwVars, mcuVars, TypeOK, Resting, Resetting, BeforeWrite, AfterWrite,
     LastWait, Answers, BootIsFirst, Whole
<1> QED
  BY <1>1, <1>2, <1>3, <1>4, <1>5, <1>6, <1>7, <1>8, <1>9, <1>10 DEF Next, Host, Firmware

-----------------------------------------------------------------------------

\* Where the firmware is tells what the MCU holds (lines 1002-1175).
THEOREM Invariant == Spec => []IInv
<1>1. Init => IInv
  BY InitIInv
<1>2. IInv /\ [Next]_vars => IInv'
  BY NextIInv
<1> QED BY <1>1, <1>2, PTL DEF Spec

\* Every register keeps its range; in particular the MCU's FIFO is never
\* overrun and MCU_retries stays a uint8_t (lines 1005-1171).
THEOREM McuTypeCorrect == Spec => []TypeOK
<1>1. IInv => TypeOK
  BY DEF IInv
<1> QED BY <1>1, Invariant, PTL

\* A portion is answered with "completed" only when the MCU holds it and all
\* before it, each once, for programs of any number of portions and whatever
\* the host sends (lines 1005-1143).
THEOREM CompletedInOrder == Spec => []AcceptedInOrder
<1>1. IInv => AcceptedInOrder
  BY DEF IInv, Answers, Resting, AcceptedInOrder, Portions
<1> QED BY <1>1, Invariant, PTL

\* The last portion is answered with "completed" only by an MCU that says
\* that it is programmed (lines 1146-1171).
THEOREM CompletedProgrammed == Spec => []ProgrammedAtEnd
<1>1. IInv => ProgrammedAtEnd
  BY McuAssumption DEF IInv, Answers, BootIsFirst, TypeOK, ProgrammedAtEnd
<1> QED BY <1>1, Invariant, PTL

-----------------------------------------------------------------------------
(* Loading the MCU in the whole program.                                   *)

\* Start-up has not yet done its first step, which resets the LMS7002M.
BootPending == ~answered /\ todo = Boot1

\* The registers of the command in their ranges, also while the MCU of a program
\* that was cut off goes on.
McuRegs ==
    /\ pc \in {"idle", "reset", "mode", "wait_fifo", "write", "wait_empty", "wait_programmed"}
    /\ last_portion \in 0 .. LAST /\ current_portion \in 0 .. LAST
    /\ mode \in PROG_MODES /\ MCU_retries \in 0 .. RETRIES_RANGE - 1
    /\ cmds \in 0 .. MAX_CMDS
    /\ BootIsFirst

\* Only an MCU command leaves a completed answer behind, and what the MCU was
\* doing when the FPGA was configured again ends with the reset.
FirmMcuInv ==
    /\ McuRegs
    /\ ~answered => pc = "idle" /\ reply = "none"
    /\ BootPending \/ IInv

\* Start-up begins with the reset pin.
LEMMA BootBegins == Boot1 # <<>> /\ Head(Boot1).do = "pin" /\ Head(Boot1).v = 6
<1>1. Head(Boot1) = SetPin(6) /\ Boot1 # <<>>
  BY DEF Boot1, rd_dac_val, SetPin, Step, Start, Put, Get
<1> QED
  BY <1>1 DEF SetPin

\* The first state.
LEMMA FirmMcuInit == FirmInit => FirmMcuInv
<1> SUFFICES ASSUME FirmInit PROVE FirmMcuInv
  OBVIOUS
<1>1. IInv
  BY InitIInv DEF FirmInit
<1>2. pc = "idle" /\ reply = "none"
  BY DEF FirmInit, Init
<1> QED
  BY <1>1, <1>2 DEF FirmMcuInv, McuRegs, IInv, TypeOK

\* A step of McuFw, when start-up is over or has begun.
LEMMA FirmMcuNext ==
    ASSUME IInv, Next, ~answered => pc' = "idle" /\ reply' = "none", UNCHANGED <<answered, todo>>
    PROVE  FirmMcuInv'
<1>1. IInv'
  BY NextIInv
<1> QED
  BY <1>1 DEF FirmMcuInv, McuRegs, IInv, TypeOK

\* The MCU goes on, for which nothing is known of it before its reset.
LEMMA FirmMcuGoesOn ==
    ASSUME FirmMcuInv, BootPending, Take \/ Finish, UNCHANGED <<answered, todo>>
    PROVE  FirmMcuInv'
<1>1. UNCHANGED <<pc, last_portion, current_portion, mode, MCU_retries, reply, cmds>>
  BY DEF Take, Finish, fwVars
<1> QED
  BY <1>1 DEF FirmMcuInv, McuRegs, BootIsFirst, BootPending

\* The reset pin takes the MCU's program and puts it out of action.
LEMMA FirmMcuPin ==
    ASSUME FirmMcuInv, LoopStep, Pin
    PROVE  FirmMcuInv'
<1>1. ~answered /\ ~answered' /\ Head(todo).do = "pin" /\ lms_reset' = (Head(todo).v = 6)
  BY DEF Pin, DoPin, NextIs
<1>2. UNCHANGED <<pc, last_portion, current_portion, mode, MCU_retries, reply, cmds>>
  BY DEF LoopStep, vars, fwVars
<1>3. pc' = "idle" /\ reply' = "none"
  BY <1>1, <1>2 DEF FirmMcuInv
<1>4. McuRegs'
  BY <1>2 DEF FirmMcuInv, McuRegs, BootIsFirst
<1>5. CASE lms_reset'
  <2>1. fifo' = NoPortion /\ loaded' = <<>> /\ programmed' = FALSE /\ running' = FALSE
    BY <1>5 DEF Pin, PinResets
  <2>2. TypeOK'
    <3>1. fifo' \in NoPortion .. LAST /\ Len(loaded') <= LAST + 1
      BY <2>1, McuAssumption, NoPortions DEF NoPortion
    <3>2. reply' \in {"none", "completed", "error", "wrong_order"}
      BY <1>3
    <3> QED
      BY <1>4, <2>1, <3>1, <3>2 DEF McuRegs, TypeOK
  <2>3. Resting' /\ Resetting' /\ BeforeWrite' /\ AfterWrite' /\ LastWait' /\ Answers'
    BY <1>3, <2>1 DEF Resting, Resetting, BeforeWrite, AfterWrite, LastWait, Answers
  <2>4. Whole'
    BY <2>1, McuAssumption, NoPortions DEF Whole
  <2> QED
    BY <1>3, <1>4, <2>2, <2>3, <2>4 DEF FirmMcuInv, IInv, McuRegs
<1>6. CASE ~lms_reset'
  <2>1. ~BootPending
    BY <1>1, <1>6, BootBegins DEF BootPending
  <2>2. IInv
    BY <2>1 DEF FirmMcuInv
  <2>3. UNCHANGED <<fifo, loaded, programmed, running>>
    BY <1>6 DEF Pin, PinResets, mcuVars
  <2>4. IInv'
    BY <1>2, <2>2, <2>3
    DEF IInv, TypeOK, Resting, Resetting, BeforeWrite, AfterWrite, LastWait, Answers,
        BootIsFirst, Whole
  <2> QED
    BY <1>3, <1>4, <2>4 DEF FirmMcuInv
<1> QED
  BY <1>5, <1>6

\* Every step keeps what is known of the MCU.
LEMMA FirmMcuStep ==
    ASSUME FirmMcuInv, [FirmNext]_allVars
    PROVE  FirmMcuInv'
<1>1. CASE UNCHANGED <<vars, answered, todo>>
  <2>1. /\ UNCHANGED <<pc, last_portion, current_portion, mode, MCU_retries, reply>>
        /\ UNCHANGED <<fifo, loaded, programmed, running, cmds, answered, todo>>
    BY <1>1 DEF vars, fwVars, mcuVars
  <2> QED
    BY <2>1
    DEF FirmMcuInv, McuRegs, BootPending, IInv, TypeOK, Resting, Resetting, BeforeWrite,
        AfterWrite, LastWait, Answers, BootIsFirst, Whole
<1>2. CASE LoopStep /\ ~Pin
  <2>1. CmdFirmware /\ UNCHANGED vars
    BY <1>2 DEF LoopStep
  <2>2. ~BootPending
    BY <2>1, BootBegins
    DEF CmdFirmware, DoSpi, DoStart, DoWrite, DoRead, DoDacVal, DoI2cInit, UseEeprom,
        Respond, NextIs, BootPending
  <2>3. ~answered
    BY <2>1
    DEF CmdFirmware, DoSpi, DoStart, DoWrite, DoRead, DoDacVal, DoI2cInit, UseEeprom,
        Respond, NextIs
  <2>4. /\ UNCHANGED <<pc, last_portion, current_portion, mode, MCU_retries, reply>>
        /\ UNCHANGED <<fifo, loaded, programmed, running, cmds>>
    BY <2>1 DEF vars, fwVars, mcuVars
  <2>5. IInv /\ pc = "idle" /\ reply = "none"
    BY <2>2, <2>3 DEF FirmMcuInv
  <2>6. IInv'
    BY <2>4, <2>5
    DEF IInv, TypeOK, Resting, Resetting, BeforeWrite, AfterWrite, LastWait, Answers,
        BootIsFirst, Whole
  <2> QED
    BY <2>4, <2>5, <2>6 DEF FirmMcuInv, McuRegs, IInv, TypeOK
<1>3. CASE LoopStep /\ Pin
  BY <1>3, FirmMcuPin
<1>4. CASE McuStep
  <2>1. (Firmware \/ Take \/ Finish) /\ UNCHANGED <<answered, todo>>
    BY <1>4 DEF McuStep, cmdVars, cpuVars
  <2>2. CASE Firmware
    <3>1. pc # "idle"
      BY <2>2 DEF Firmware, McuReset, McuMode, WaitFifo, Write, WaitEmpty, WaitProgrammed
    <3>2. answered /\ IInv
      BY <3>1 DEF FirmMcuInv, BootPending
    <3> QED
      BY <2>1, <2>2, <3>2, FirmMcuNext DEF Next
  <2>3. CASE Take \/ Finish
    <3>1. CASE BootPending
      BY <2>1, <2>3, <3>1, FirmMcuGoesOn
    <3>2. CASE ~BootPending
      <4>1. IInv /\ (~answered => pc' = "idle" /\ reply' = "none")
        BY <2>3, <3>2 DEF FirmMcuInv, Take, Finish, fwVars
      <4> QED
        BY <2>1, <2>3, <4>1, FirmMcuNext DEF Next
    <3> QED
      BY <3>1, <3>2
  <2> QED
    BY <2>1, <2>2, <2>3
<1>5. CASE HostCall
  <2>1. answered /\ pc = "idle"
    BY <1>5 DEF HostCall, Waiting
  <2>2. IInv
    BY <2>1 DEF FirmMcuInv, BootPending
  <2>3. /\ UNCHANGED <<pc, last_portion, current_portion, mode, MCU_retries>>
        /\ UNCHANGED <<fifo, loaded, programmed, running, cmds>>
        /\ reply' = "none"
    BY <1>5 DEF HostCall, mcuVars
  <2>4. IInv'
    BY <2>2, <2>3
    DEF IInv, TypeOK, Resting, Resetting, BeforeWrite, AfterWrite, LastWait, Answers,
        BootIsFirst, Whole
  <2> QED
    BY <2>1, <2>3, <2>4 DEF FirmMcuInv, McuRegs, IInv, TypeOK
<1>6. CASE HostPortion
  <2>1. answered /\ Host /\ UNCHANGED <<answered, todo>>
    BY <1>6 DEF HostPortion, Waiting, cmdVars, cpuVars
  <2>2. IInv
    BY <2>1 DEF FirmMcuInv, BootPending
  <2> QED
    BY <2>1, <2>2, FirmMcuNext DEF Next
<1>7. CASE UpdateStep \/ ChipStep \/ HostUpdate \/ UNCHANGED allVars
  BY <1>1, <1>7 DEF UpdateStep, ChipStep, HostUpdate, allVars, cmdVars, cpuVars, EepromDone
<1>8. CASE Restart
  <2>1. pc' = "idle" /\ reply' = "none" /\ BootPending'
    BY <1>8 DEF Restart, CmdRestart, BootPending
  <2>2. McuRegs'
    BY <1>8, McuAssumption DEF Restart, FirmMcuInv, McuRegs, BootIsFirst, PROG_MODES
  <2> QED
    BY <2>1, <2>2 DEF FirmMcuInv
<1> QED
  BY <1>2, <1>3, <1>4, <1>5, <1>6, <1>7, <1>8 DEF FirmNext

\* Between commands the processor is past its first step, and what is known of the
\* MCU holds.
THEOREM FirmMcuInvariant == FirmSpec => []FirmMcuInv
<1>1. ASSUME FirmMcuInv, [FirmNext]_allVars PROVE FirmMcuInv'
  BY <1>1, FirmMcuStep
<1> QED
  BY <1>1, FirmMcuInit, PTL DEF FirmSpec

\* A portion of the MCU's program answered with completed is in the MCU behind all
\* before it, with resets of the LMS7002M and restarts of the FPGA at any time
\* (main.c lines 1005-1143).
THEOREM PortionsInMcu == FirmSpec => []AcceptedInOrder
<1>1. ASSUME FirmMcuInv PROVE AcceptedInOrder
  <2>1. SUFFICES ASSUME pc = "idle", reply = "completed", mode # "boot"
                 PROVE  loaded = [i \in 1 .. current_portion + 1 |-> i - 1]
    BY DEF AcceptedInOrder
  <2>2. IInv
    BY <1>1, <2>1 DEF FirmMcuInv, BootPending
  <2> QED
    BY <2>1, <2>2 DEF IInv, Answers, Resting, Portions
<1> QED
  BY <1>1, FirmMcuInvariant, PTL

\* The last portion is answered with completed only by an MCU that says it is
\* programmed, and that was not reset since (main.c lines 1146-1171).
THEOREM McuIsProgrammed == FirmSpec => []ProgrammedAtEnd
<1>1. ASSUME FirmMcuInv PROVE ProgrammedAtEnd
  <2>1. SUFFICES ASSUME pc = "idle", reply = "completed", current_portion = LAST
                 PROVE  programmed
    BY DEF ProgrammedAtEnd
  <2>2. IInv
    BY <1>1, <2>1 DEF FirmMcuInv, BootPending
  <2> QED
    BY <2>1, <2>2, McuAssumption DEF IInv, Answers, BootIsFirst, TypeOK
<1> QED
  BY <1>1, FirmMcuInvariant, PTL

-----------------------------------------------------------------------------
(* Lists of transactions.                                                  *)

IsList(s) == \E S : s \in Seq(S)

\* Each of the lists 1 .. n is one.
AllLists(lists, n) == \A k \in 1 .. n : IsList(lists[k])

\* Item i of s belongs to a copy of list b in s.
Within(s, b, i) ==
    \E o \in Nat :
        /\ o + Len(b) <= Len(s) /\ o < i /\ i <= o + Len(b)
        /\ \A j \in 1 .. Len(b) : s[o + j] = b[j]

\* Two lists one after the other.
LEMMA ConcatItems ==
    ASSUME NEW s, NEW t, IsList(s), IsList(t)
    PROVE  /\ IsList(s \o t) /\ Len(s) \in Nat /\ Len(t) \in Nat
           /\ Len(s \o t) = Len(s) + Len(t)
           /\ \A i \in 1 .. Len(s) : (s \o t)[i] = s[i]
           /\ \A i \in 1 .. Len(t) : (s \o t)[Len(s) + i] = t[i]
<1>1. PICK S, T : s \in Seq(S) /\ t \in Seq(T)
  BY DEF IsList
<1>2. s \in Seq(S \cup T) /\ t \in Seq(S \cup T)
  BY <1>1
<1>3. s \o t \in Seq(S \cup T)
  BY <1>2
<1>4. IsList(s \o t)
  BY <1>3 DEF IsList
<1>5. Len(s) \in Nat /\ Len(t) \in Nat /\ Len(s \o t) = Len(s) + Len(t)
  BY <1>2
<1>6. ASSUME NEW i \in 1 .. Len(s) PROVE (s \o t)[i] = s[i]
  BY <1>2, <1>5
<1>7. ASSUME NEW i \in 1 .. Len(t) PROVE (s \o t)[Len(s) + i] = t[i]
  BY <1>2, <1>5
<1> QED
  BY <1>4, <1>5, <1>6, <1>7

\* A list without its first item.
LEMMA TailItems ==
    ASSUME NEW s, IsList(s), s # <<>>
    PROVE  /\ IsList(Tail(s)) /\ Len(s) \in Nat /\ Len(s) > 0 /\ Head(s) = s[1]
           /\ Len(Tail(s)) = Len(s) - 1
           /\ \A i \in 1 .. Len(Tail(s)) : Tail(s)[i] = s[i + 1]
<1>1. PICK S : s \in Seq(S)
  BY DEF IsList
<1>2. Tail(s) \in Seq(S)
  BY <1>1
<1> QED
  BY <1>1, <1>2 DEF IsList

\* What upto is in Joined.
Unfolds(g, lists, n) == g = [k \in 0 .. n |-> IF k = 0 THEN <<>> ELSE g[k - 1] \o lists[k]]

\* Joined is the last value of such a function.
LEMMA JoinedUnfolds ==
    ASSUME NEW lists, NEW n
    PROVE  Joined(lists, n) = (CHOOSE g : Unfolds(g, lists, n))[n]
  BY DEF Joined, Unfolds

\* There is such a function for every n.
LEMMA UnfoldsExists ==
    ASSUME NEW lists, NEW n \in Nat
    PROVE  \E g : Unfolds(g, lists, n)
<1> DEFINE Missing == {m \in Nat : ~\E g : Unfolds(g, lists, m)}
<1>1. SUFFICES ASSUME Missing # {} PROVE FALSE
  OBVIOUS
<1>2. PICK m \in Missing : \A l \in Missing : m <= l
  BY <1>1, LeastNatural
<1>3. CASE m = 0
  <2> DEFINE g == [k \in 0 .. 0 |-> <<>>]
  <2>1. Unfolds(g, lists, 0)
    BY DEF Unfolds
  <2> QED
    BY <1>3, <2>1
<1>4. CASE m # 0
  <2>1. m - 1 \in Nat /\ m - 1 \notin Missing
    BY <1>2, <1>4
  <2>2. PICK g : Unfolds(g, lists, m - 1)
    BY <2>1
  <2> DEFINE h == [k \in 0 .. m |-> IF k = m THEN g[m - 1] \o lists[m] ELSE g[k]]
  <2>3. ASSUME NEW k \in 0 .. m
        PROVE  h[k] = IF k = 0 THEN <<>> ELSE h[k - 1] \o lists[k]
    <3>1. CASE k = m
      BY <1>2, <1>4, <2>1, <3>1
    <3>2. CASE k # m
      <4>1. k \in 0 .. m - 1 /\ h[k] = g[k] /\ (k # 0 => h[k - 1] = g[k - 1])
        BY <1>2, <2>1, <3>2
      <4>2. g[k] = IF k = 0 THEN <<>> ELSE g[k - 1] \o lists[k]
        BY <2>2, <4>1 DEF Unfolds
      <4> QED
        BY <4>1, <4>2
    <3> QED
      BY <3>1, <3>2
  <2>4. Unfolds(h, lists, m)
    BY <2>3 DEF Unfolds
  <2> QED
    BY <2>4
<1> QED
  BY <1>3, <1>4

\* Two of them agree where both are defined.
LEMMA UnfoldsAgree ==
    ASSUME NEW lists, NEW n \in Nat, NEW m \in Nat, NEW g, NEW h,
           Unfolds(g, lists, n), Unfolds(h, lists, m),
           NEW k \in Nat, k <= n, k <= m
    PROVE  g[k] = h[k]
<1> DEFINE Differing == {l \in Nat : l <= n /\ l <= m /\ g[l] # h[l]}
<1>1. SUFFICES ASSUME Differing # {} PROVE FALSE
  OBVIOUS
<1>2. PICK l \in Differing : \A i \in Differing : l <= i
  BY <1>1, LeastNatural
<1>3. l \in 0 .. n /\ l \in 0 .. m
  BY <1>2
<1>4. /\ g[l] = IF l = 0 THEN <<>> ELSE g[l - 1] \o lists[l]
      /\ h[l] = IF l = 0 THEN <<>> ELSE h[l - 1] \o lists[l]
  BY <1>3 DEF Unfolds
<1>5. l # 0
  BY <1>2, <1>4
<1>6. l - 1 \in Nat /\ l - 1 \notin Differing /\ l - 1 <= n /\ l - 1 <= m
  BY <1>2, <1>5
<1> QED
  BY <1>2, <1>4, <1>5, <1>6

\* Joined, one list at a time.
LEMMA JoinedStep ==
    ASSUME NEW lists
    PROVE  /\ Joined(lists, 0) = <<>>
           /\ \A n \in Nat : Joined(lists, n + 1) = Joined(lists, n) \o lists[n + 1]
<1>1. ASSUME NEW n \in Nat
      PROVE  \E g : Unfolds(g, lists, n) /\ Joined(lists, n) = g[n]
  BY JoinedUnfolds, UnfoldsExists
<1>2. Joined(lists, 0) = <<>>
  <2>1. PICK g : Unfolds(g, lists, 0) /\ Joined(lists, 0) = g[0]
    BY <1>1
  <2>2. 0 \in 0 .. 0
    OBVIOUS
  <2> QED
    BY <2>1, <2>2 DEF Unfolds
<1>3. ASSUME NEW n \in Nat
      PROVE  Joined(lists, n + 1) = Joined(lists, n) \o lists[n + 1]
  <2>1. PICK g : Unfolds(g, lists, n) /\ Joined(lists, n) = g[n]
    BY <1>1
  <2>2. n + 1 \in Nat
    OBVIOUS
  <2>3. PICK h : Unfolds(h, lists, n + 1) /\ Joined(lists, n + 1) = h[n + 1]
    BY <1>1, <2>2
  <2>4. n + 1 \in 0 .. n + 1 /\ n + 1 # 0 /\ (n + 1) - 1 = n
    OBVIOUS
  <2>5. h[n + 1] = h[n] \o lists[n + 1]
    BY <2>3, <2>4 DEF Unfolds
  <2>6. g[n] = h[n]
    BY <2>1, <2>2, <2>3, UnfoldsAgree
  <2> QED
    BY <2>1, <2>3, <2>5, <2>6
<1> QED
  BY <1>2, <1>3

\* Lists one after the other are a list, and each item belongs to one of them.
LEMMA JoinedItems ==
    ASSUME NEW lists, NEW n \in Nat, AllLists(lists, n)
    PROVE  /\ IsList(Joined(lists, n))
           /\ \A i \in 1 .. Len(Joined(lists, n)) :
                 \E k \in 1 .. n : Within(Joined(lists, n), lists[k], i)
<1> DEFINE Good(m) == /\ IsList(Joined(lists, m))
                      /\ \A i \in 1 .. Len(Joined(lists, m)) :
                            \E k \in 1 .. n : Within(Joined(lists, m), lists[k], i)
<1> DEFINE Bad == {m \in Nat : m <= n /\ ~Good(m)}
<1>1. SUFFICES ASSUME Bad # {} PROVE FALSE
  OBVIOUS
<1>2. PICK m \in Bad : \A l \in Bad : m <= l
  <2> HIDE DEF Bad
  <2>1. Bad \in SUBSET Nat
    BY DEF Bad
  <2> QED
    BY <1>1, <2>1, LeastNatural
<1>3. CASE m = 0
  <2>1. Joined(lists, 0) = <<>>
    BY JoinedStep
  <2>2. IsList(<<>>) /\ Len(<<>>) = 0
    <3>1. <<>> \in Seq({})
      OBVIOUS
    <3> QED
      BY <3>1 DEF IsList
  <2> QED
    BY <1>2, <1>3, <2>1, <2>2
<1>4. CASE m # 0
  <2> DEFINE s == Joined(lists, m - 1)
             b == lists[m]
  <2>1. m - 1 \in Nat /\ m - 1 \notin Bad /\ m \in 1 .. n
    BY <1>2, <1>4
  <2>2. Good(m - 1)
    BY <2>1
  <2>3. Joined(lists, m) = s \o b
    <3>1. (m - 1) + 1 = m
      BY <1>2
    <3> QED
      BY <2>1, <3>1, JoinedStep
  <2>4. IsList(s) /\ IsList(b)
    BY <2>1, <2>2 DEF AllLists
  <2>5. \A i \in 1 .. Len(s) : \E k \in 1 .. n : Within(s, lists[k], i)
    BY <2>2
  <2> HIDE DEF s, b
  <2>6. /\ IsList(s \o b) /\ Len(s) \in Nat /\ Len(b) \in Nat
        /\ Len(s \o b) = Len(s) + Len(b)
        /\ \A i \in 1 .. Len(s) : (s \o b)[i] = s[i]
        /\ \A i \in 1 .. Len(b) : (s \o b)[Len(s) + i] = b[i]
    BY <2>4, ConcatItems
  <2>7. ASSUME NEW i \in 1 .. Len(s \o b)
        PROVE  \E k \in 1 .. n : Within(s \o b, lists[k], i)
    <3>1. CASE i <= Len(s)
      <4>1. i \in 1 .. Len(s)
        BY <2>6, <3>1
      <4>2. PICK k \in 1 .. n : Within(s, lists[k], i)
        BY <2>5, <4>1
      <4>3. PICK o \in Nat : /\ o + Len(lists[k]) <= Len(s)
                             /\ o < i /\ i <= o + Len(lists[k])
                             /\ \A j \in 1 .. Len(lists[k]) : s[o + j] = lists[k][j]
        BY <4>2 DEF Within
      <4>4. Len(lists[k]) \in Nat
        <5>1. IsList(lists[k])
          BY DEF AllLists
        <5> QED
          BY <5>1 DEF IsList
      <4>5. o + Len(lists[k]) <= Len(s \o b)
        BY <2>6, <4>3, <4>4
      <4>6. ASSUME NEW j \in 1 .. Len(lists[k]) PROVE (s \o b)[o + j] = lists[k][j]
        <5>1. o + j \in 1 .. Len(s)
          BY <2>6, <4>3, <4>4
        <5> QED
          BY <2>6, <4>3, <5>1
      <4>7. Within(s \o b, lists[k], i)
        BY <4>3, <4>5, <4>6 DEF Within
      <4> QED
        BY <4>7
    <3>2. CASE ~(i <= Len(s))
      <4>1. Within(s \o b, b, i)
        <5>1. i \in Nat /\ Len(s) < i /\ i <= Len(s) + Len(b)
          BY <2>6, <3>2
        <5>2. Len(s) + Len(b) <= Len(s \o b)
          BY <2>6
        <5> QED
          BY <2>6, <5>1, <5>2 DEF Within
      <4> QED
        BY <2>1, <4>1 DEF b
    <3> QED
      BY <3>1, <3>2
  <2>8. Good(m)
    BY <2>3, <2>6, <2>7
  <2> QED
    BY <1>2, <2>8
<1> QED
  BY <1>3, <1>4

-----------------------------------------------------------------------------
(* What is true of the list of every command, item by item.                *)

\* Ends with a STOP, or resets the core of the bus.
Closes(t) == t.do = "i2c_init" \/ (t.do \in {"write", "read"} /\ t.last = TRUE)

IsAdf(t) == t.do = "spi" /\ t.to = "adf"
IsDac(t) == t.do = "spi" /\ t.to = "dac"

\* The ADF stops driving, or stays as it is.
FreesAdf(t) == IsAdf(t) /\ t.bytes[3] % 4 \in {2, 3} /\ t.bytes[2] % 2 # 0
KeepsAdf(t) == IsAdf(t) /\ t.bytes[3] % 4 \notin {2, 3}

\* The DAC stops driving.
FreesDac(t) == IsDac(t) /\ t.bytes[1] >= 64

\* Item i of s: not the end of a start-up, a byte if one is written, and a START
\* is followed by a STOP.  A list is for the DAC, which then comes after the ADF
\* is off, or for the ADF alone.
Sound(s, i, for) ==
    /\ s[i].do # "use"
    /\ s[i].do = "write" => s[i].byte \in 0 .. 255
    /\ s[i].do = "start" => \E j \in i + 1 .. Len(s) : Closes(s[j])
    /\ for = "dac" => /\ IsAdf(s[i]) => FreesAdf(s[i]) \/ KeepsAdf(s[i])
                      /\ IsDac(s[i]) => \E j \in 1 .. i - 1 : FreesAdf(s[j])
    /\ for = "adf" => ~IsDac(s[i])

SoundList(s, for) == IsList(s) /\ \A i \in 1 .. Len(s) : Sound(s, i, for)

AllSound(lists, n, for) == \A k \in 1 .. n : SoundList(lists[k], for)

\* An item is sound where its list stands in a longer one.
LEMMA SoundWithin ==
    ASSUME NEW s, NEW b, NEW i, NEW for, Len(s) \in Nat, i \in Nat,
           SoundList(b, for), Within(s, b, i)
    PROVE  Sound(s, i, for)
<1>1. PICK o \in Nat : /\ o + Len(b) <= Len(s) /\ o < i /\ i <= o + Len(b)
                       /\ \A j \in 1 .. Len(b) : s[o + j] = b[j]
  BY DEF Within
<1>2. Len(b) \in Nat
  BY DEF SoundList, IsList
<1>3. i - o \in 1 .. Len(b) /\ o + (i - o) = i
  BY <1>1, <1>2
<1>4. s[i] = b[i - o]
  BY <1>1, <1>3
<1>5. Sound(b, i - o, for)
  BY <1>3 DEF SoundList
<1>6. ASSUME s[i].do = "start" PROVE \E j \in i + 1 .. Len(s) : Closes(s[j])
  <2>1. PICK j \in (i - o) + 1 .. Len(b) : Closes(b[j])
    BY <1>4, <1>5, <1>6 DEF Sound
  <2>2. o + j \in i + 1 .. Len(s) /\ j \in 1 .. Len(b)
    BY <1>1, <1>2, <1>3
  <2>3. s[o + j] = b[j]
    BY <1>1, <2>2
  <2> QED
    BY <2>1, <2>2, <2>3
<1>7. ASSUME for = "dac", IsDac(s[i]) PROVE \E j \in 1 .. i - 1 : FreesAdf(s[j])
  <2>1. PICK j \in 1 .. (i - o) - 1 : FreesAdf(b[j])
    BY <1>4, <1>5, <1>7 DEF Sound
  <2>2. o + j \in 1 .. i - 1 /\ j \in 1 .. Len(b)
    BY <1>1, <1>2, <1>3
  <2>3. s[o + j] = b[j]
    BY <1>1, <2>2
  <2> QED
    BY <2>1, <2>2, <2>3
<1> QED
  BY <1>4, <1>5, <1>6, <1>7 DEF Sound

\* Two sound lists, one after the other.
LEMMA SoundConcat ==
    ASSUME NEW s, NEW t, NEW for, SoundList(s, for), SoundList(t, for)
    PROVE  SoundList(s \o t, for)
<1>1. IsList(s) /\ IsList(t)
  BY DEF SoundList
<1>2. /\ IsList(s \o t) /\ Len(s) \in Nat /\ Len(t) \in Nat
      /\ Len(s \o t) = Len(s) + Len(t)
      /\ \A i \in 1 .. Len(s) : (s \o t)[i] = s[i]
      /\ \A i \in 1 .. Len(t) : (s \o t)[Len(s) + i] = t[i]
  BY <1>1, ConcatItems
<1>3. ASSUME NEW i \in 1 .. Len(s \o t)
      PROVE  Sound(s \o t, i, for)
  <2>1. CASE i <= Len(s)
    <3>1. ASSUME NEW j \in 1 .. Len(s) PROVE (s \o t)[0 + j] = s[j]
      BY <1>2
    <3>2. 0 + Len(s) <= Len(s \o t) /\ 0 < i /\ i <= 0 + Len(s) /\ 0 \in Nat
      BY <1>2, <2>1
    <3>3. Within(s \o t, s, i)
      BY <3>1, <3>2 DEF Within
    <3> QED
      BY <1>2, <3>3, SoundWithin
  <2>2. CASE ~(i <= Len(s))
    <3>1. Len(s) + Len(t) <= Len(s \o t) /\ Len(s) < i /\ i <= Len(s) + Len(t)
      BY <1>2, <2>2
    <3>2. Within(s \o t, t, i)
      BY <1>2, <3>1 DEF Within
    <3> QED
      BY <1>2, <3>2, SoundWithin
  <2> QED
    BY <2>1, <2>2
<1> QED
  BY <1>2, <1>3 DEF SoundList

\* Sound lists, one after the other.
LEMMA SoundJoined ==
    ASSUME NEW lists, NEW n \in Nat, NEW for, AllSound(lists, n, for)
    PROVE  SoundList(Joined(lists, n), for)
<1>1. AllLists(lists, n)
  BY DEF AllSound, SoundList, AllLists
<1>2. IsList(Joined(lists, n))
  BY <1>1, JoinedItems
<1>3. Len(Joined(lists, n)) \in Nat
  BY <1>2 DEF IsList
<1>4. ASSUME NEW i \in 1 .. Len(Joined(lists, n))
      PROVE  Sound(Joined(lists, n), i, for)
  <2>1. PICK k \in 1 .. n : Within(Joined(lists, n), lists[k], i)
    BY <1>1, JoinedItems
  <2>2. SoundList(lists[k], for)
    BY DEF AllSound
  <2> QED
    BY <1>3, <2>1, <2>2, SoundWithin
<1> QED
  BY <1>2, <1>4 DEF SoundList

\* A function on 1 .. n is a list of n items.
LEMMA ListOf ==
    ASSUME NEW n \in Nat, NEW s, s = [i \in 1 .. n |-> s[i]]
    PROVE  IsList(s) /\ Len(s) = n
<1>1. s \in [1 .. n -> {s[i] : i \in 1 .. n}]
  OBVIOUS
<1>2. s \in Seq({s[i] : i \in 1 .. n}) /\ Len(s) = n
  BY <1>1
<1> QED
  BY <1>2 DEF IsList

\* A list of one item.
LEMMA OneItem ==
    ASSUME NEW t
    PROVE  IsList(<<t>>) /\ Len(<<t>>) = 1 /\ <<t>>[1] = t
<1>1. <<t>> \in Seq({t})
  OBVIOUS
<1> QED
  BY <1>1 DEF IsList

\* Such a list is sound when it is no part of a transfer and does not take the TCXO.
LEMMA SoundOne ==
    ASSUME NEW t, NEW for, t.do # "use", t.do # "write", t.do # "start",
           for = "dac" => ~IsDac(t) /\ (IsAdf(t) => FreesAdf(t) \/ KeepsAdf(t)),
           for = "adf" => ~IsDac(t)
    PROVE  SoundList(<<t>>, for)
<1>1. IsList(<<t>>) /\ Len(<<t>>) = 1
  BY OneItem
<1>2. \A i \in 1 .. 1 : i = 1 /\ <<t>>[i] = t
  OBVIOUS
<1>3. ASSUME NEW i \in 1 .. 1 PROVE Sound(<<t>>, i, for)
  BY <1>2 DEF Sound
<1> QED
  BY <1>1, <1>3 DEF SoundList

\* The empty list.
LEMMA SoundEmpty == ASSUME NEW for PROVE SoundList(<<>>, for)
<1>1. <<>> \in Seq({})
  OBVIOUS
<1> QED
  BY <1>1 DEF SoundList, IsList

-----------------------------------------------------------------------------
(* The lists of the commands.                                              *)

\* What the host may send, as CallsAssumption has it.
IsCall(c) ==
    /\ c.name # StartUp.name /\ c.blocks \in 0 .. 255
    /\ c.data \in [0 .. DATA_SIZE - 1 -> 0 .. 255]
    /\ c.name = "MEMORY_WR" /\ ForEeprom(c) => 23 + Bytes(c) < DATA_SIZE

\* Registers: no transaction but exchanges with one chip.
LEMMA SoundRegisterWrites ==
    ASSUME NEW c, c.blocks \in Nat, NEW chp, chp \notin {"adf", "dac"}, NEW for
    PROVE  SoundList(RegisterWrites(c, chp), for)
<1> DEFINE block(b) == << Spi(chp, <<WriteBit(BlockByte(c, b, 4, 0)), BlockByte(c, b, 4, 1),
                                BlockByte(c, b, 4, 2), BlockByte(c, b, 4, 3)>>, 0) >>
           lists == [k \in 1 .. c.blocks |-> block(k - 1)]
<1>1. RegisterWrites(c, chp) = Joined(lists, c.blocks)
  BY DEF RegisterWrites, Blocks
<1>2. ASSUME NEW k \in 1 .. c.blocks PROVE SoundList(lists[k], for)
  <2>1. ASSUME NEW bytes PROVE SoundList(<< Spi(chp, bytes, 0) >>, for)
    BY SoundOne DEF Spi, IsAdf, IsDac
  <2> QED
    BY <2>1
<1>3. AllSound(lists, c.blocks, for)
  BY <1>2 DEF AllSound
<1> QED
  <2> HIDE DEF lists
  <2> QED
    BY <1>1, <1>3, SoundJoined

\* The same, read (main.c lines 455-483 and 510-537).
LEMMA SoundRegisterReads ==
    ASSUME NEW c, c.blocks \in Nat, NEW chp, chp \notin {"adf", "dac"}, NEW for
    PROVE  SoundList(RegisterReads(c, chp), for)
<1> DEFINE block(b) == << Spi(chp, <<ReadBit(BlockByte(c, b, 2, 0)),
                                BlockByte(c, b, 2, 1)>>, 2) >>
           lists == [k \in 1 .. c.blocks |-> block(k - 1)]
<1>1. RegisterReads(c, chp) = Joined(lists, c.blocks)
  BY DEF RegisterReads, Blocks
<1>2. ASSUME NEW k \in 1 .. c.blocks PROVE SoundList(lists[k], for)
  <2>1. ASSUME NEW bytes PROVE SoundList(<< Spi(chp, bytes, 2) >>, for)
    BY SoundOne DEF Spi, IsAdf, IsDac
  <2> QED
    BY <2>1
<1>3. AllSound(lists, c.blocks, for)
  BY <1>2 DEF AllSound
<1> QED
  <2> HIDE DEF lists
  <2> QED
    BY <1>1, <1>3, SoundJoined

\* The reset pin.
LEMMA SoundLmsRst ==
    ASSUME NEW c, NEW for
    PROVE  SoundList(CMD_LMS_RST(c), for)
<1>1. ASSUME NEW v PROVE SoundList(<< SetPin(v) >>, for)
  BY SoundOne DEF SetPin, IsAdf, IsDac
<1>2. << SetPin(6), SetPin(7) >> = << SetPin(6) >> \o << SetPin(7) >>
  OBVIOUS
<1>3. SoundList(<< SetPin(6), SetPin(7) >>, for)
  BY <1>1, <1>2, SoundConcat
<1> QED
  BY <1>1, <1>3, SoundEmpty DEF CMD_LMS_RST

\* One exchange with the registers of the FPGA.
LEMMA SoundGpio ==
    ASSUME NEW c, NEW for
    PROVE  /\ SoundList(CMD_GPIO_DIR_WR(c), for) /\ SoundList(CMD_GPIO_DIR_RD(c), for)
           /\ SoundList(CMD_GPIO_WR(c), for) /\ SoundList(CMD_GPIO_RD(c), for)
<1>1. ASSUME NEW bytes, NEW n PROVE SoundList(<< Spi("fpga", bytes, n) >>, for)
  BY SoundOne DEF Spi, IsAdf, IsDac
<1> QED
  BY <1>1 DEF CMD_GPIO_DIR_WR, CMD_GPIO_DIR_RD, CMD_GPIO_WR, CMD_GPIO_RD

\* The four writes that take the charge pump off.
LEMMA AdfOffItems ==
    LET s == Control_TCXO_ADF(FALSE, <<>>)
    IN  /\ IsList(s) /\ Len(s) = 4
        /\ \A i \in 1 .. 4 : s[i] = Spi("adf", ADF_OFF[i], 0)
<1> DEFINE s == Control_TCXO_ADF(FALSE, <<>>)
<1>1. s = [i \in 1 .. 4 |-> Spi("adf", ADF_OFF[i], 0)]
  BY DEF Control_TCXO_ADF
<1>2. s = [i \in 1 .. 4 |-> s[i]]
  BY <1>1
<1>3. IsList(s) /\ Len(s) = 4
  <2> HIDE DEF s
  <2> QED
    BY <1>2, ListOf
<1> QED
  BY <1>1, <1>3

\* The charge pump off: the first of the writes already stops the ADF.
LEMMA SoundAdfOff ==
    LET s == Control_TCXO_ADF(FALSE, <<>>)
    IN  SoundList(s, "dac") /\ Len(s) = 4 /\ FreesAdf(s[1])
<1> DEFINE s == Control_TCXO_ADF(FALSE, <<>>)
<1>1. IsList(s) /\ Len(s) = 4 /\ \A i \in 1 .. 4 : s[i] = Spi("adf", ADF_OFF[i], 0)
  BY AdfOffItems
<1> HIDE DEF s
<1>2. \A i \in 1 .. 4 : IsAdf(s[i]) /\ ~IsDac(s[i]) /\ s[i].do = "spi"
  BY <1>1 DEF Spi, IsAdf, IsDac
<1>3. FreesAdf(s[1]) /\ FreesAdf(s[2]) /\ KeepsAdf(s[3]) /\ KeepsAdf(s[4])
  <2>1. /\ s[1].bytes = <<31, 129, 243>> /\ s[2].bytes = <<31, 129, 242>>
        /\ s[3].bytes = <<0, 1, 244>> /\ s[4].bytes = <<1, 128, 1>>
    BY <1>1 DEF Spi, ADF_OFF
  <2> QED
    BY <1>2, <2>1 DEF FreesAdf, KeepsAdf
<1>4. ASSUME NEW i \in 1 .. 4 PROVE Sound(s, i, "dac")
  <2>1. FreesAdf(s[i]) \/ KeepsAdf(s[i])
    BY <1>3
  <2> QED
    BY <1>2, <2>1 DEF Sound
<1>5. SoundList(s, "dac")
  BY <1>1, <1>4 DEF SoundList
<1> QED
  BY <1>1, <1>3, <1>5 DEF s

\* The DAC may drive once the list has stopped the ADF.
LEMMA SoundThenDac ==
    ASSUME NEW s, SoundList(s, "dac"), Len(s) > 0, FreesAdf(s[1]), NEW v
    PROVE  SoundList(s \o Control_TCXO_DAC(TRUE, v), "dac")
<1> DEFINE t == Control_TCXO_DAC(TRUE, v)
<1>1. t = << Spi("dac", <<v \div 4, (v * 64) % 256>>, 0) >>
  BY DEF Control_TCXO_DAC
<1>2. IsList(t) /\ Len(t) = 1 /\ t[1] = Spi("dac", <<v \div 4, (v * 64) % 256>>, 0)
  BY <1>1, OneItem
<1> HIDE DEF t
<1>3. IsList(s)
  BY DEF SoundList
<1>4. /\ IsList(s \o t) /\ Len(s) \in Nat /\ Len(s \o t) = Len(s) + 1
      /\ \A i \in 1 .. Len(s) : (s \o t)[i] = s[i]
      /\ (s \o t)[Len(s) + 1] = t[1]
  <2>1. /\ IsList(s \o t) /\ Len(s) \in Nat /\ Len(s \o t) = Len(s) + Len(t)
        /\ \A i \in 1 .. Len(s) : (s \o t)[i] = s[i]
        /\ \A i \in 1 .. Len(t) : (s \o t)[Len(s) + i] = t[i]
    <3>1. IsList(s) /\ IsList(t)
      BY <1>2, <1>3
    <3> QED
      BY <3>1, ConcatItems
  <2>2. 1 \in 1 .. Len(t)
    BY <1>2
  <2> QED
    BY <1>2, <2>1, <2>2
<1>5. t[1].do = "spi" /\ IsDac(t[1]) /\ ~IsAdf(t[1])
  BY <1>2 DEF Spi, IsAdf, IsDac
<1>6. ASSUME NEW i \in 1 .. Len(s \o t) PROVE Sound(s \o t, i, "dac")
  <2>1. CASE i <= Len(s)
    <3>1. ASSUME NEW j \in 1 .. Len(s) PROVE (s \o t)[0 + j] = s[j]
      BY <1>4
    <3>2. 0 + Len(s) <= Len(s \o t) /\ 0 < i /\ i <= 0 + Len(s) /\ 0 \in Nat
      BY <1>4, <2>1
    <3>3. Within(s \o t, s, i)
      BY <3>1, <3>2 DEF Within
    <3> QED
      BY <1>4, <3>3, SoundWithin
  <2>2. CASE ~(i <= Len(s))
    <3>1. i = Len(s) + 1 /\ 1 \in 1 .. i - 1 /\ 1 \in 1 .. Len(s)
      BY <1>4, <2>2
    <3>2. (s \o t)[i] = t[1] /\ FreesAdf((s \o t)[1])
      BY <1>4, <3>1
    <3> QED
      BY <1>5, <3>1, <3>2 DEF Sound
  <2> QED
    BY <2>1, <2>2
<1> QED
  BY <1>4, <1>6 DEF SoundList, t

\* Handing the TCXO to the DAC at start-up.
LEMMA SoundDacOn ==
    ASSUME NEW v
    PROVE  SoundList(DacOn(v), "dac")
<1> DEFINE s == Control_TCXO_ADF(FALSE, <<>>)
<1>1. SoundList(s, "dac") /\ Len(s) = 4 /\ FreesAdf(s[1])
  BY SoundAdfOff
<1> HIDE DEF s
<1>2. SoundList(s \o Control_TCXO_DAC(TRUE, v), "dac")
  <2>1. Len(s) > 0
    BY <1>1
  <2> QED
    BY <1>1, <2>1, SoundThenDac, Zenon
<1> QED
  BY <1>2 DEF DacOn, s

\* The same by the host, whose value is stored in between.
LEMMA SoundDacSet ==
    ASSUME NEW v
    PROVE  SoundList(Control_TCXO_ADF(FALSE, <<>>) \o << SetDacVal(v) >>
                     \o Control_TCXO_DAC(TRUE, v), "dac")
<1> DEFINE s == Control_TCXO_ADF(FALSE, <<>>)
           m == << SetDacVal(v) >>
<1>1. SoundList(s, "dac") /\ Len(s) = 4 /\ FreesAdf(s[1])
  BY SoundAdfOff
<1>2. SoundList(m, "dac") /\ IsList(m) /\ Len(m) = 1
  BY SoundOne, OneItem DEF SetDacVal, IsAdf, IsDac
<1> HIDE DEF s, m
<1>3. SoundList(s \o m, "dac")
  BY <1>1, <1>2, SoundConcat
<1>4. Len(s \o m) > 0 /\ FreesAdf((s \o m)[1])
  <2>1. /\ Len(s \o m) = Len(s) + Len(m)
        /\ \A i \in 1 .. Len(s) : (s \o m)[i] = s[i]
    BY <1>1, <1>2, ConcatItems DEF SoundList
  <2>2. 1 \in 1 .. Len(s)
    BY <1>1
  <2> QED
    BY <1>1, <1>2, <2>1, <2>2
<1>5. SoundList((s \o m) \o Control_TCXO_DAC(TRUE, v), "dac")
  BY <1>3, <1>4, SoundThenDac
<1> QED
  BY <1>5 DEF s, m

\* Transfers on the I2C bus, of which the last one ends with a STOP.
IsTransfer(s) ==
    /\ IsList(s) /\ Len(s) > 0
    /\ \A i \in 1 .. Len(s) : /\ s[i].do \in {"start", "write", "read"}
                              /\ s[i].do = "write" => s[i].byte \in 0 .. 255
    /\ Closes(s[Len(s)])

\* Such transfers are sound in every list.
LEMMA SoundTransfer ==
    ASSUME NEW s, IsTransfer(s), NEW for
    PROVE  SoundList(s, for)
<1>1. Len(s) \in Nat /\ Len(s) > 0 /\ IsList(s)
  BY DEF IsTransfer, IsList
<1>2. ASSUME NEW i \in 1 .. Len(s) PROVE Sound(s, i, for)
  <2>1. /\ s[i].do \in {"start", "write", "read"}
        /\ s[i].do = "write" => s[i].byte \in 0 .. 255
    BY DEF IsTransfer
  <2>2. ~IsAdf(s[i]) /\ ~IsDac(s[i])
    BY <2>1 DEF IsAdf, IsDac
  <2>3. ASSUME s[i].do = "start" PROVE \E j \in i + 1 .. Len(s) : Closes(s[j])
    <3>1. Closes(s[Len(s)])
      BY DEF IsTransfer
    <3>2. ~Closes(s[i])
      BY <2>3 DEF Closes
    <3>3. Len(s) \in i + 1 .. Len(s)
      BY <1>1, <3>1, <3>2
    <3> QED
      BY <3>1, <3>3
  <2> QED
    BY <2>1, <2>2, <2>3 DEF Sound
<1> QED
  BY <1>1, <1>2 DEF SoundList

\* Two parts of a transfer.
LEMMA TransferConcat ==
    ASSUME NEW s, NEW t, IsList(s), IsTransfer(t),
           \A i \in 1 .. Len(s) : /\ s[i].do \in {"start", "write", "read"}
                                  /\ s[i].do = "write" => s[i].byte \in 0 .. 255
    PROVE  IsTransfer(s \o t)
<1>1. IsList(t) /\ Len(t) > 0 /\ Closes(t[Len(t)])
  BY DEF IsTransfer
<1>2. /\ IsList(s \o t) /\ Len(s) \in Nat /\ Len(t) \in Nat
      /\ Len(s \o t) = Len(s) + Len(t)
      /\ \A i \in 1 .. Len(s) : (s \o t)[i] = s[i]
      /\ \A i \in 1 .. Len(t) : (s \o t)[Len(s) + i] = t[i]
  BY <1>1, ConcatItems
<1>3. ASSUME NEW i \in 1 .. Len(s \o t)
      PROVE  /\ (s \o t)[i].do \in {"start", "write", "read"}
             /\ (s \o t)[i].do = "write" => (s \o t)[i].byte \in 0 .. 255
  <2>1. CASE i <= Len(s)
    <3>1. i \in 1 .. Len(s) /\ (s \o t)[i] = s[i]
      BY <1>2, <2>1
    <3> QED
      BY <3>1
  <2>2. CASE ~(i <= Len(s))
    <3>1. i - Len(s) \in 1 .. Len(t) /\ Len(s) + (i - Len(s)) = i
      BY <1>2, <2>2
    <3>2. (s \o t)[i] = t[i - Len(s)]
      BY <1>2, <3>1
    <3> QED
      BY <3>1, <3>2 DEF IsTransfer
  <2> QED
    BY <2>1, <2>2
<1>4. Len(s \o t) > 0 /\ Closes((s \o t)[Len(s \o t)])
  <2>1. Len(t) \in 1 .. Len(t)
    BY <1>1, <1>2
  <2> QED
    BY <1>1, <1>2, <2>1
<1> QED
  BY <1>2, <1>3, <1>4 DEF IsTransfer

\* A transaction that is one item of a transfer.
IsPart(t) == t.do \in {"start", "write", "read"} /\ (t.do = "write" => t.byte \in 0 .. 255)

\* The items are parts of transfers.
LEMMA Parts ==
    ASSUME NEW chp, NEW rd \in BOOLEAN, NEW cnts \in BOOLEAN, NEW last \in BOOLEAN
    PROVE  /\ IsPart(Start(chp, rd, cnts))
           /\ \A b \in 0 .. 255 : IsPart(Put(b, last, cnts)) /\ Closes(Put(b, TRUE, cnts))
           /\ IsPart(Get(last)) /\ Closes(Get(TRUE))
<1>1. IsPart(Start(chp, rd, cnts))
  BY DEF IsPart, Start
<1>2. ASSUME NEW b \in 0 .. 255 PROVE IsPart(Put(b, last, cnts))
  BY DEF IsPart, Put
<1>3. ASSUME NEW b \in 0 .. 255 PROVE Closes(Put(b, TRUE, cnts))
  BY DEF Closes, Put
<1>4. IsPart(Get(last)) /\ Closes(Get(TRUE))
  BY DEF IsPart, Get, Closes
<1> QED
  BY <1>1, <1>2, <1>3, <1>4

\* Items that are all parts of transfers, the last one with a STOP.
AllParts(T) == \A t \in T : IsPart(t)

\* A list of parts that ends with a STOP is a list of transfers.
LEMMA TransferIn ==
    ASSUME NEW T, AllParts(T), NEW s \in Seq(T), Len(s) > 0, Closes(s[Len(s)])
    PROVE  IsTransfer(s)
<1>1. \A i \in 1 .. Len(s) : s[i] \in T
  OBVIOUS
<1>2. \A i \in 1 .. Len(s) : IsPart(s[i])
  BY <1>1 DEF AllParts
<1>3. IsList(s)
  BY DEF IsList
<1> QED
  BY <1>2, <1>3 DEF IsTransfer, IsPart

\* Transfers of three, four, five and six items.
LEMMA TransferOf ==
    ASSUME NEW a, NEW b, NEW c, NEW d, NEW e, NEW f,
           IsPart(a), IsPart(b), IsPart(c), IsPart(d), IsPart(e), IsPart(f), Closes(f)
    PROVE  /\ IsTransfer(<<d, e, f>>) /\ IsTransfer(<<c, d, e, f>>)
           /\ IsTransfer(<<b, c, d, e, f>>) /\ IsTransfer(<<a, b, c, d, e, f>>)
<1> DEFINE T == {a, b, c, d, e, f}
<1>1. AllParts(T)
  BY DEF AllParts
<1>2. a \in T /\ b \in T /\ c \in T /\ d \in T /\ e \in T /\ f \in T
  OBVIOUS
<1> HIDE DEF T
<1>3. IsTransfer(<<d, e, f>>)
  <2> DEFINE s == <<d, e, f>>
  <2>1. s \in Seq(T) /\ Len(s) = 3 /\ s[3] = f
    BY <1>2
  <2> HIDE DEF s
  <2>2. Len(s) > 0 /\ Closes(s[Len(s)])
    BY <2>1
  <2>3. IsTransfer(s)
    BY <1>1, <2>1, <2>2, TransferIn
  <2> QED
    BY <2>3 DEF s
<1>4. IsTransfer(<<c, d, e, f>>)
  <2> DEFINE s == <<c, d, e, f>>
  <2>1. s \in Seq(T) /\ Len(s) = 4 /\ s[4] = f
    BY <1>2
  <2> HIDE DEF s
  <2>2. Len(s) > 0 /\ Closes(s[Len(s)])
    BY <2>1
  <2>3. IsTransfer(s)
    BY <1>1, <2>1, <2>2, TransferIn
  <2> QED
    BY <2>3 DEF s
<1>5. IsTransfer(<<b, c, d, e, f>>)
  <2> DEFINE s == <<b, c, d, e, f>>
  <2>1. s \in Seq(T) /\ Len(s) = 5 /\ s[5] = f
    BY <1>2
  <2> HIDE DEF s
  <2>2. Len(s) > 0 /\ Closes(s[Len(s)])
    BY <2>1
  <2>3. IsTransfer(s)
    BY <1>1, <2>1, <2>2, TransferIn
  <2> QED
    BY <2>3 DEF s
<1>6. IsTransfer(<<a, b, c, d, e, f>>)
  <2> DEFINE s == <<a, b, c, d, e, f>>
  <2>1. s \in Seq(T) /\ Len(s) = 6 /\ s[6] = f
    BY <1>2
  <2> HIDE DEF s
  <2>2. Len(s) > 0 /\ Closes(s[Len(s)])
    BY <2>1
  <2>3. IsTransfer(s)
    BY <1>1, <2>1, <2>2, TransferIn
  <2> QED
    BY <2>3 DEF s
<1> QED
  BY <1>3, <1>4, <1>5, <1>6

\* The number of blocks and the bytes of a command.
LEMMA CallFields ==
    ASSUME NEW c, IsCall(c)
    PROVE  c.blocks \in Nat /\ \A i \in 0 .. DATA_SIZE - 1 : c.data[i] \in 0 .. 255
<1>1. c.blocks \in 0 .. 255
  BY DEF IsCall
<1>2. c.data \in [0 .. DATA_SIZE - 1 -> 0 .. 255]
  BY DEF IsCall
<1>3. c.blocks \in Nat
  BY <1>1
<1>4. \A i \in 0 .. DATA_SIZE - 1 : c.data[i] \in 0 .. 255
  BY <1>2
<1> QED
  BY <1>3, <1>4

\* The bytes of a block are there when the blocks are not too many.
LEMMA BlockBytes ==
    ASSUME NEW c, IsCall(c), NEW width \in 1 .. 4, BlockSize(c.name) = width, width > 1,
           ~TooMany(c),
           NEW b \in 0 .. c.blocks - 1, NEW i \in 0 .. width - 1
    PROVE  BlockByte(c, b, width, i) \in 0 .. 255
<1>1. DATA_SIZE \in Nat /\ c.blocks \in Nat
  BY CommandsAssumption, CallFields
<1>2. c.blocks <= DATA_SIZE \div width
  BY <1>1 DEF TooMany, Check_many_blocks
<1>3. b * width + i \in 0 .. DATA_SIZE - 1
  <2>1. width \in {1, 2, 3, 4}
    OBVIOUS
  <2>2. CASE width = 2
    <3>1. 2 * (DATA_SIZE \div 2) <= DATA_SIZE
      BY <1>1
    <3> QED
      BY <1>1, <1>2, <2>2, <3>1
  <2>3. CASE width = 3
    <3>1. 3 * (DATA_SIZE \div 3) <= DATA_SIZE
      BY <1>1
    <3> QED
      BY <1>1, <1>2, <2>3, <3>1
  <2>4. CASE width = 4
    <3>1. 4 * (DATA_SIZE \div 4) <= DATA_SIZE
      BY <1>1
    <3> QED
      BY <1>1, <1>2, <2>4, <3>1
  <2> QED
    BY <2>1, <2>2, <2>3, <2>4
<1> QED
  BY <1>3 DEF BlockByte, IsCall

\* A block of CMD_SI5351_WR.
LEMMA SoundSi5351Wr ==
    ASSUME NEW c, IsCall(c), c.name = "SI5351_WR", ~TooMany(c), NEW for
    PROVE  SoundList(CMD_SI5351_WR(c), for)
<1> DEFINE block(b) == << Start("si5351", FALSE, TRUE),
                          Put(BlockByte(c, b, 2, 0), FALSE, TRUE),
                          Put(BlockByte(c, b, 2, 1), TRUE, TRUE) >>
           lists == [k \in 1 .. c.blocks |-> block(k - 1)]
<1>1. CMD_SI5351_WR(c) = Joined(lists, c.blocks)
  BY DEF CMD_SI5351_WR, Blocks
<1>2. c.blocks \in Nat /\ BlockSize(c.name) = 2
  BY CallFields DEF BlockSize
<1>3. ASSUME NEW x \in 0 .. 255, NEW y \in 0 .. 255
      PROVE  IsTransfer(<< Start("si5351", FALSE, TRUE), Put(x, FALSE, TRUE),
                           Put(y, TRUE, TRUE) >>)
  <2>1. /\ IsPart(Start("si5351", FALSE, TRUE)) /\ IsPart(Put(x, FALSE, TRUE))
        /\ IsPart(Put(y, TRUE, TRUE)) /\ Closes(Put(y, TRUE, TRUE))
    BY Parts
  <2> QED
    BY <2>1, TransferOf
<1>4. ASSUME NEW k \in 1 .. c.blocks PROVE SoundList(lists[k], for)
  <2>1. k - 1 \in 0 .. c.blocks - 1
    BY <1>2
  <2>2. BlockByte(c, k - 1, 2, 0) \in 0 .. 255 /\ BlockByte(c, k - 1, 2, 1) \in 0 .. 255
    BY <1>2, <2>1, BlockBytes
  <2>3. IsTransfer(block(k - 1))
    BY <1>3, <2>2
  <2> QED
    BY <2>3, SoundTransfer
<1>5. AllSound(lists, c.blocks, for)
  BY <1>4 DEF AllSound
<1> QED
  <2> HIDE DEF lists
  <2> QED
    BY <1>1, <1>2, <1>5, SoundJoined

\* A register is written, and after a second START its value is read.
LEMMA SoundSi5351Rd ==
    ASSUME NEW c, IsCall(c), c.name = "SI5351_RD", ~TooMany(c), NEW for
    PROVE  SoundList(CMD_SI5351_RD(c), for)
<1> DEFINE block(b) == << Start("si5351", FALSE, TRUE), Put(c.data[b], TRUE, TRUE),
                          Start("si5351", TRUE, TRUE), Get(TRUE) >>
           lists == [k \in 1 .. c.blocks |-> block(k - 1)]
<1>1. CMD_SI5351_RD(c) = Joined(lists, c.blocks)
  BY DEF CMD_SI5351_RD, Blocks
<1>2. c.blocks \in Nat /\ BlockSize(c.name) = 2
  BY CallFields DEF BlockSize
<1>3. ASSUME NEW x \in 0 .. 255
      PROVE  IsTransfer(<< Start("si5351", FALSE, TRUE), Put(x, TRUE, TRUE),
                           Start("si5351", TRUE, TRUE), Get(TRUE) >>)
  <2>1. /\ IsPart(Start("si5351", FALSE, TRUE)) /\ IsPart(Put(x, TRUE, TRUE))
        /\ IsPart(Start("si5351", TRUE, TRUE)) /\ IsPart(Get(TRUE)) /\ Closes(Get(TRUE))
    BY Parts
  <2> QED
    BY <2>1, TransferOf
<1>4. ASSUME NEW k \in 1 .. c.blocks PROVE SoundList(lists[k], for)
  <2>1. k - 1 \in 0 .. DATA_SIZE - 1
    <3>1. DATA_SIZE \in Nat /\ c.blocks <= DATA_SIZE \div 2
      BY <1>2, CommandsAssumption DEF TooMany, Check_many_blocks
    <3> QED
      BY <1>2, <3>1
  <2>2. c.data[k - 1] \in 0 .. 255
    BY <2>1 DEF IsCall
  <2>3. IsTransfer(block(k - 1))
    BY <1>3, <2>2
  <2> QED
    BY <2>3, SoundTransfer
<1>5. AllSound(lists, c.blocks, for)
  BY <1>4 DEF AllSound
<1> QED
  <2> HIDE DEF lists
  <2> QED
    BY <1>1, <1>2, <1>5, SoundJoined

\* The temperature is read like that, other channels not at all.
LEMMA SoundAnalogRd ==
    ASSUME NEW c, c.blocks \in Nat, NEW for
    PROVE  SoundList(CMD_ANALOG_VAL_RD(c), for)
<1> DEFINE read == << Start("lm75", FALSE, FALSE), Put(0, TRUE, FALSE),
                      Start("lm75", TRUE, FALSE), Get(FALSE), Get(TRUE) >>
           lists == [k \in 1 .. c.blocks |-> IF c.data[k - 1] = 1 THEN read ELSE <<>>]
<1>1. CMD_ANALOG_VAL_RD(c) = Joined(lists, c.blocks)
  BY DEF CMD_ANALOG_VAL_RD, Blocks
<1>2. IsTransfer(read)
  <2>1. /\ IsPart(Start("lm75", FALSE, FALSE)) /\ IsPart(Put(0, TRUE, FALSE))
        /\ IsPart(Start("lm75", TRUE, FALSE)) /\ IsPart(Get(FALSE))
        /\ IsPart(Get(TRUE)) /\ Closes(Get(TRUE))
    <3>1. 0 \in 0 .. 255 /\ TRUE \in BOOLEAN /\ FALSE \in BOOLEAN
      OBVIOUS
    <3> QED
      BY <3>1, Parts
  <2> QED
    BY <2>1, TransferOf
<1>3. ASSUME NEW k \in 1 .. c.blocks PROVE SoundList(lists[k], for)
  <2> HIDE DEF read
  <2> QED
    BY <1>2, SoundTransfer, SoundEmpty
<1>4. AllSound(lists, c.blocks, for)
  BY <1>3 DEF AllSound
<1> QED
  <2> HIDE DEF lists
  <2> QED
    BY <1>1, <1>4, SoundJoined

\* The DAC gets the TCXO, once for each block.
LEMMA SoundAnalogWr ==
    ASSUME NEW c, c.blocks \in Nat
    PROVE  SoundList(CMD_ANALOG_VAL_WR(c), "dac")
<1> DEFINE on(v) == Control_TCXO_ADF(FALSE, <<>>) \o << SetDacVal(v) >>
                    \o Control_TCXO_DAC(TRUE, v)
           block(b) == IF DacBlock(c, b) THEN on(BlockByte(c, b, 4, 3)) ELSE <<>>
           lists == [k \in 1 .. c.blocks |-> block(k - 1)]
<1>1. CMD_ANALOG_VAL_WR(c) = Joined(lists, c.blocks)
  BY DEF CMD_ANALOG_VAL_WR, Blocks
<1>2. ASSUME NEW v PROVE SoundList(on(v), "dac")
  BY SoundDacSet
<1>3. ASSUME NEW k \in 1 .. c.blocks PROVE SoundList(lists[k], "dac")
  <2> HIDE DEF on
  <2> QED
    BY <1>2, SoundEmpty
<1>4. AllSound(lists, c.blocks, "dac")
  BY <1>3 DEF AllSound
<1> QED
  <2> HIDE DEF lists
  <2> QED
    BY <1>1, <1>4, SoundJoined

\* The bytes of a memory command go out in one transfer.
LEMMA EepromAddressItems ==
    ASSUME NEW c, IsCall(c)
    PROVE  /\ IsList(EepromAddress(c)) /\ Len(EepromAddress(c)) = 3
           /\ \A i \in 1 .. 3 : IsPart(EepromAddress(c)[i])
<1>1. c.data[8] \in 0 .. 255 /\ c.data[9] \in 0 .. 255
  BY CallFields, CommandsAssumption
<1>2. /\ IsPart(Start("eeprom", FALSE, TRUE))
      /\ IsPart(Put(c.data[8], FALSE, TRUE)) /\ IsPart(Put(c.data[9], FALSE, TRUE))
  BY <1>1, Parts
<1> DEFINE a == Start("eeprom", FALSE, TRUE)
           b == Put(c.data[8], FALSE, TRUE)
           d == Put(c.data[9], FALSE, TRUE)
<1>3. EepromAddress(c) = <<a, b, d>>
  BY DEF EepromAddress
<1> HIDE DEF a, b, d
<1>4. <<a, b, d>> \in Seq({a, b, d}) /\ Len(<<a, b, d>>) = 3
  OBVIOUS
<1>5. \A i \in 1 .. 3 : <<a, b, d>>[i] \in {a, b, d}
  BY <1>4
<1>6. IsPart(a) /\ IsPart(b) /\ IsPart(d)
  BY <1>2 DEF a, b, d
<1> QED
  BY <1>3, <1>4, <1>5, <1>6 DEF IsList

\* A memory command moves one byte at least (main.c lines 942-948 and 981-985).
LEMMA BytesPositive ==
    ASSUME NEW c, IsCall(c)
    PROVE  Bytes(c) \in Nat /\ Bytes(c) > 0
<1>1. c.data[5] \in 0 .. 255
  BY CallFields, CommandsAssumption
<1> QED
  BY <1>1 DEF Bytes, DataCount

\* The bytes that are written follow the address, the last one with the STOP.
LEMMA SoundMemoryWr ==
    ASSUME NEW c, IsCall(c), c.name = "MEMORY_WR", NEW for
    PROVE  SoundList(CMD_MEMORY_WR(c), for)
<1>1. CASE ~ForEeprom(c)
  BY <1>1, SoundEmpty DEF CMD_MEMORY_WR
<1>2. SUFFICES ASSUME ForEeprom(c) PROVE SoundList(CMD_MEMORY_WR(c), for)
  BY <1>1
<1> DEFINE n == Bytes(c)
           t == [k \in 1 .. n |-> Put(c.data[23 + k], k = n, TRUE)]
<1>3. n \in Nat /\ n > 0 /\ 23 + n < DATA_SIZE
  <2>1. 23 + n < DATA_SIZE
    BY <1>2 DEF IsCall
  <2> QED
    BY <2>1, BytesPositive
<1>4. \A k \in 1 .. n : c.data[23 + k] \in 0 .. 255
  <2> SUFFICES ASSUME NEW k \in 1 .. n PROVE c.data[23 + k] \in 0 .. 255
    OBVIOUS
  <2>1. 23 + k \in 0 .. DATA_SIZE - 1
    BY <1>3, CommandsAssumption
  <2> QED
    BY <2>1, CallFields
<1>5. CMD_MEMORY_WR(c) = EepromAddress(c) \o t
  BY <1>2 DEF CMD_MEMORY_WR
<1> HIDE DEF n
<1>6. IsList(t) /\ Len(t) = n
  <2>1. t = [k \in 1 .. n |-> t[k]]
    OBVIOUS
  <2> HIDE DEF t
  <2> QED
    BY <1>3, <2>1, ListOf
<1>7. ASSUME NEW k \in 1 .. n PROVE IsPart(t[k])
  <2>1. t[k] = Put(c.data[23 + k], k = n, TRUE)
    OBVIOUS
  <2>2. t[k].do = "write" /\ t[k].byte = c.data[23 + k]
    BY <2>1 DEF Put
  <2> QED
    BY <1>4, <2>2 DEF IsPart
<1>8. Closes(t[n])
  <2>1. n \in 1 .. n
    BY <1>3
  <2>2. t[n] = Put(c.data[23 + n], n = n, TRUE)
    BY <2>1, Zenon
  <2>3. Put(c.data[23 + n], n = n, TRUE) = Put(c.data[23 + n], TRUE, TRUE)
    BY Zenon DEF Put
  <2> HIDE DEF t
  <2>4. t[n] = Put(c.data[23 + n], TRUE, TRUE)
    BY <2>2, <2>3
  <2> QED
    BY <1>4, <2>1, <2>4, Parts
<1>9. IsTransfer(t)
  <2> HIDE DEF t
  <2> QED
    BY <1>3, <1>6, <1>7, <1>8 DEF IsTransfer, IsPart
<1>10. IsTransfer(EepromAddress(c) \o t)
  <2> HIDE DEF t
  <2> QED
    BY <1>9, EepromAddressItems, TransferConcat DEF IsPart
<1> QED
  BY <1>5, <1>10, SoundTransfer

\* After the address a second START, and the bytes are read.
LEMMA SoundMemoryRd ==
    ASSUME NEW c, IsCall(c), NEW for
    PROVE  SoundList(CMD_MEMORY_RD(c), for)
<1> DEFINE n == Bytes(c)
           t == [k \in 1 .. n |-> Get(k = n)]
           u == << Start("eeprom", TRUE, TRUE) >>
<1>1. n \in Nat /\ n > 0
  BY BytesPositive
<1>2. CMD_MEMORY_RD(c) = IF ForEeprom(c) THEN EepromAddress(c) \o u \o t ELSE <<>>
  BY DEF CMD_MEMORY_RD
<1> HIDE DEF n
<1>3. IsList(t) /\ Len(t) = n
  <2>1. t = [k \in 1 .. n |-> t[k]]
    OBVIOUS
  <2> HIDE DEF t
  <2> QED
    BY <1>1, <2>1, ListOf
<1>4. ASSUME NEW k \in 1 .. n PROVE t[k].do = "read"
  BY DEF Get
<1>5. Closes(t[n])
  <2>1. n \in 1 .. n
    BY <1>1
  <2>2. t[n] = Get(n = n)
    BY <2>1, Zenon
  <2>3. Get(n = n) = Get(TRUE)
    BY Zenon DEF Get
  <2> HIDE DEF t
  <2>4. t[n] = Get(TRUE)
    BY <2>2, <2>3
  <2> QED
    BY <2>4, Parts
<1>6. IsTransfer(t)
  <2> HIDE DEF t
  <2> QED
    BY <1>1, <1>3, <1>4, <1>5 DEF IsTransfer
<1>7. /\ IsList(EepromAddress(c) \o u)
      /\ \A i \in 1 .. Len(EepromAddress(c) \o u) : IsPart((EepromAddress(c) \o u)[i])
  <2>1. IsList(u) /\ Len(u) = 1 /\ u[1] = Start("eeprom", TRUE, TRUE)
    BY OneItem
  <2>2. IsPart(u[1])
    BY <2>1, Parts
  <2> HIDE DEF u
  <2> DEFINE s == EepromAddress(c)
  <2>3. IsList(s) /\ Len(s) = 3 /\ \A i \in 1 .. 3 : IsPart(s[i])
    BY EepromAddressItems
  <2> HIDE DEF s
  <2>4. /\ IsList(s \o u) /\ Len(s \o u) = Len(s) + Len(u)
        /\ \A i \in 1 .. Len(s) : (s \o u)[i] = s[i]
        /\ \A i \in 1 .. Len(u) : (s \o u)[Len(s) + i] = u[i]
    <3>1. IsList(s) /\ IsList(u)
      BY <2>1, <2>3
    <3> QED
      BY <3>1, ConcatItems
  <2>5. Len(s \o u) = 4 /\ (s \o u)[4] = u[1]
    <3>1. 1 \in 1 .. Len(u) /\ Len(s) + 1 = 4
      BY <2>1, <2>3
    <3> QED
      BY <2>1, <2>3, <2>4, <3>1
  <2>6. ASSUME NEW i \in 1 .. 4 PROVE IsPart((s \o u)[i])
    <3>1. CASE i \in 1 .. 3
      BY <2>3, <2>4, <3>1
    <3>2. CASE i = 4
      BY <2>2, <2>5, <3>2
    <3>3. i \in 1 .. 3 \/ i = 4
      OBVIOUS
    <3> QED
      BY <3>1, <3>2, <3>3
  <2> QED
    BY <2>4, <2>5, <2>6 DEF s
<1>8. IsTransfer(EepromAddress(c) \o u \o t)
  <2> HIDE DEF t, u
  <2> QED
    BY <1>6, <1>7, TransferConcat DEF IsPart
<1> QED
  BY <1>2, <1>8, SoundTransfer, SoundEmpty

\* The list of CMD_ADF4002_WR: the DAC off, and then only the ADF.
AdfList(s) ==
    /\ IsList(s) /\ Len(s) > 0 /\ FreesDac(s[1])
    /\ \A i \in 2 .. Len(s) : Sound(s, i, "adf")

\* The command hands the TCXO over in this order, once before all its blocks.
LEMMA AdfListOfCommand ==
    ASSUME NEW c, IsCall(c)
    PROVE  AdfList(CMD_ADF4002_WR(c))
<1> DEFINE lists == [k \in 1 .. c.blocks |->
               Control_TCXO_ADF(TRUE, [i \in 1 .. 3 |-> BlockByte(c, k - 1, 3, i - 1)])]
           s == Control_TCXO_DAC(FALSE, 0)
           t == Joined(lists, c.blocks)
<1>1. CMD_ADF4002_WR(c) = s \o t
  BY DEF CMD_ADF4002_WR, Blocks
<1>2. c.blocks \in Nat
  BY CallFields
<1>3. AllSound(lists, c.blocks, "adf")
  <2>1. ASSUME NEW bytes PROVE SoundList(Control_TCXO_ADF(TRUE, bytes), "adf")
    <3>1. SoundList(<< Spi("adf", bytes, 0) >>, "adf")
      BY SoundOne DEF Spi, IsDac
    <3> QED
      BY <3>1 DEF Control_TCXO_ADF
  <2> QED
    BY <2>1 DEF AllSound
<1>4. SoundList(t, "adf")
  <2> HIDE DEF lists
  <2> QED
    BY <1>2, <1>3, SoundJoined
<1>5. IsList(s) /\ Len(s) = 1 /\ s[1] = Spi("dac", <<192, 0>>, 0)
  BY OneItem DEF Control_TCXO_DAC
<1> HIDE DEF s, t
<1>6. FreesDac(s[1])
  <2>1. s[1].do = "spi" /\ s[1].to = "dac" /\ s[1].bytes = <<192, 0>>
    BY <1>5 DEF Spi
  <2>2. s[1].bytes[1] = 192
    BY <2>1
  <2> QED
    BY <2>1, <2>2 DEF FreesDac, IsDac
<1>7. IsList(t)
  BY <1>4 DEF SoundList
<1>8. /\ IsList(s \o t) /\ Len(t) \in Nat /\ Len(s \o t) = Len(s) + Len(t)
      /\ \A i \in 1 .. Len(s) : (s \o t)[i] = s[i]
      /\ \A i \in 1 .. Len(t) : (s \o t)[Len(s) + i] = t[i]
  <2>1. IsList(s)
    BY <1>5
  <2> QED
    BY <1>7, <2>1, ConcatItems
<1>9. Len(s \o t) = 1 + Len(t) /\ (s \o t)[1] = s[1]
  BY <1>5, <1>8
<1>10. ASSUME NEW i \in 2 .. Len(s \o t) PROVE Sound(s \o t, i, "adf")
  <2>1. 1 + Len(t) <= Len(s \o t) /\ 1 < i /\ i <= 1 + Len(t) /\ 1 \in Nat
    BY <1>8, <1>9
  <2>2. \A j \in 1 .. Len(t) : (s \o t)[1 + j] = t[j]
    BY <1>5, <1>8
  <2>3. Within(s \o t, t, i)
    BY <2>1, <2>2 DEF Within
  <2>4. Len(s \o t) \in Nat /\ i \in Nat
    BY <1>8, <1>9
  <2> QED
    BY <1>4, <2>3, <2>4, SoundWithin
<1> QED
  BY <1>1, <1>6, <1>8, <1>9, <1>10 DEF AdfList

\* Every command: its list keeps the bus and the TCXO in order.
LEMMA TransactionsSound ==
    ASSUME NEW c, IsCall(c)
    PROVE  SoundList(Transactions(c), "dac") \/ AdfList(Transactions(c))
<1>1. c.blocks \in Nat
  BY CallFields
<1>2. CASE TooMany(c)
  BY <1>2, SoundEmpty DEF Transactions
<1>3. CASE /\ ~TooMany(c)
           /\ c.name \in {"LMS7002_WR", "LMS7002_RD", "BRDSPI16_WR", "BRDSPI16_RD"}
  <2>1. /\ SoundList(RegisterWrites(c, "lms"), "dac")
        /\ SoundList(RegisterReads(c, "lms"), "dac")
        /\ SoundList(RegisterWrites(c, "fpga"), "dac")
        /\ SoundList(RegisterReads(c, "fpga"), "dac")
    BY <1>1, SoundRegisterWrites, SoundRegisterReads
  <2> QED
    BY <1>3, <2>1 DEF Transactions
<1>4. CASE ~TooMany(c) /\ c.name = "LMS_RST"
  BY <1>4, SoundLmsRst DEF Transactions
<1>5. CASE ~TooMany(c) /\ c.name = "ADF4002_WR"
  BY <1>5, AdfListOfCommand DEF Transactions
<1>6. CASE ~TooMany(c) /\ c.name \in {"ANALOG_VAL_RD", "ANALOG_VAL_WR"}
  BY <1>1, <1>6, SoundAnalogRd, SoundAnalogWr DEF Transactions
<1>7. CASE ~TooMany(c) /\ c.name \in {"SI5351_WR", "SI5351_RD"}
  BY <1>7, SoundSi5351Wr, SoundSi5351Rd DEF Transactions
<1>8. CASE ~TooMany(c) /\ c.name \in {"MEMORY_WR", "MEMORY_RD"}
  BY <1>8, SoundMemoryWr, SoundMemoryRd DEF Transactions
<1>9. CASE ~TooMany(c) /\ c.name \in {"GPIO_DIR_WR", "GPIO_DIR_RD", "GPIO_WR", "GPIO_RD"}
  BY <1>9, SoundGpio DEF Transactions
<1>10. CASE /\ ~TooMany(c)
            /\ c.name \notin {"LMS_RST", "LMS7002_WR", "LMS7002_RD", "BRDSPI16_WR",
                   "BRDSPI16_RD", "ADF4002_WR", "ANALOG_VAL_RD", "ANALOG_VAL_WR", "SI5351_WR",
                   "SI5351_RD", "MEMORY_WR", "MEMORY_RD", "GPIO_DIR_WR", "GPIO_DIR_RD",
                   "GPIO_WR", "GPIO_RD"}
  BY <1>10, SoundEmpty DEF Transactions
<1> QED
  BY <1>2, <1>3, <1>4, <1>5, <1>6, <1>7, <1>8, <1>9, <1>10

\* A list of n items.
ListLen(s, n) == IsList(s) /\ Len(s) = n

\* What s \o t is, for lists of m and of n items.
JoinsTo(u, s, t, m, n) ==
    /\ ListLen(u, m + n)
    /\ \A i \in 1 .. m : u[i] = s[i]
    /\ \A i \in 1 .. n : u[m + i] = t[i]

\* ConcatItems for lists whose lengths are known.
LEMMA ConcatOf ==
    ASSUME NEW s, NEW t, NEW m, NEW n, ListLen(s, m), ListLen(t, n)
    PROVE  JoinsTo(s \o t, s, t, m, n)
<1>1. IsList(s) /\ IsList(t) /\ Len(s) = m /\ Len(t) = n
  BY DEF ListLen
<1>2. /\ IsList(s \o t) /\ Len(s \o t) = Len(s) + Len(t)
      /\ \A i \in 1 .. Len(s) : (s \o t)[i] = s[i]
      /\ \A i \in 1 .. Len(t) : (s \o t)[Len(s) + i] = t[i]
  BY <1>1, ConcatItems
<1> QED
  BY <1>1, <1>2 DEF ListLen, JoinsTo

\* Start-up, transaction by transaction, up to the value in the EEPROM.
LEMMA Boot1Items ==
    /\ IsList(Boot1) /\ Len(Boot1) = 10
    /\ Boot1[1] = SetPin(6) /\ Boot1[2] = SetPin(7) /\ Boot1[3] = Step("i2c_init")
    /\ Boot1[4] = Start("eeprom", FALSE, FALSE) /\ Boot1[5] = Put(0, FALSE, FALSE)
    /\ Boot1[6] = Put(DAC_VAL_ADDR, FALSE, FALSE) /\ Boot1[7] = Start("eeprom", TRUE, FALSE)
    /\ Boot1[8] = Get(FALSE) /\ Boot1[9] = Get(TRUE) /\ Boot1[10] = Step("use")
<1> DEFINE x == << SetPin(6), SetPin(7), Step("i2c_init") >>
           y == rd_dac_val(DAC_VAL_ADDR)
           z == << Step("use") >>
<1>1. Boot1 = x \o y \o z
  BY DEF Boot1
<1>2. /\ IsList(x) /\ Len(x) = 3
      /\ x[1] = SetPin(6) /\ x[2] = SetPin(7) /\ x[3] = Step("i2c_init")
  <2>1. x \in Seq({SetPin(6), SetPin(7), Step("i2c_init")})
    OBVIOUS
  <2> QED
    BY <2>1 DEF IsList
<1>3. /\ IsList(y) /\ Len(y) = 6
      /\ y[1] = Start("eeprom", FALSE, FALSE) /\ y[2] = Put(0, FALSE, FALSE)
      /\ y[3] = Put(DAC_VAL_ADDR, FALSE, FALSE) /\ y[4] = Start("eeprom", TRUE, FALSE)
      /\ y[5] = Get(FALSE) /\ y[6] = Get(TRUE)
  <2> DEFINE a == Start("eeprom", FALSE, FALSE)
             b == Put(0, FALSE, FALSE)
             c == Put(DAC_VAL_ADDR, FALSE, FALSE)
             d == Start("eeprom", TRUE, FALSE)
             e == Get(FALSE)
             f == Get(TRUE)
  <2>1. y = <<a, b, c, d, e, f>>
    BY DEF rd_dac_val
  <2> HIDE DEF a, b, c, d, e, f, y
  <2>2. y \in Seq({a, b, c, d, e, f}) /\ Len(y) = 6
    BY <2>1
  <2>3. y[1] = a /\ y[2] = b /\ y[3] = c /\ y[4] = d /\ y[5] = e /\ y[6] = f
    BY <2>1
  <2> QED
    BY <2>2, <2>3 DEF IsList, a, b, c, d, e, f
<1>4. IsList(z) /\ Len(z) = 1 /\ z[1] = Step("use")
  BY OneItem
<1> HIDE DEF x, y, z
<1>5. /\ IsList(x \o y) /\ Len(x \o y) = 9
      /\ \A i \in 1 .. 3 : (x \o y)[i] = x[i]
      /\ \A i \in 1 .. 6 : (x \o y)[3 + i] = y[i]
  <2>1. ListLen(x, 3) /\ ListLen(y, 6)
    BY <1>2, <1>3 DEF ListLen
  <2>2. JoinsTo(x \o y, x, y, 3, 6)
    BY <2>1, ConcatOf
  <2>3. /\ ListLen(x \o y, 3 + 6)
        /\ \A i \in 1 .. 3 : (x \o y)[i] = x[i]
        /\ \A i \in 1 .. 6 : (x \o y)[3 + i] = y[i]
    BY <2>2, Zenon DEF JoinsTo
  <2>4. IsList(x \o y) /\ Len(x \o y) = 3 + 6
    BY <2>3, Zenon DEF ListLen
  <2>5. 3 + 6 = 9
    OBVIOUS
  <2> QED
    BY <2>3, <2>4, <2>5, Zenon
<1> DEFINE w == x \o y
<1>6. /\ IsList(w) /\ Len(w) = 9
      /\ w[1] = x[1] /\ w[2] = x[2] /\ w[3] = x[3] /\ w[4] = y[1] /\ w[5] = y[2]
      /\ w[6] = y[3] /\ w[7] = y[4] /\ w[8] = y[5] /\ w[9] = y[6]
  BY <1>5
<1>7. Boot1 = w \o z
  BY <1>1
<1> HIDE DEF w
<1>8. /\ IsList(w \o z) /\ Len(w \o z) = 10
      /\ \A i \in 1 .. 9 : (w \o z)[i] = w[i]
      /\ \A i \in 1 .. 1 : (w \o z)[9 + i] = z[i]
  <2>1. ListLen(w, 9) /\ ListLen(z, 1)
    BY <1>4, <1>6 DEF ListLen
  <2>2. JoinsTo(w \o z, w, z, 9, 1)
    BY <2>1, ConcatOf
  <2>3. /\ ListLen(w \o z, 9 + 1)
        /\ \A i \in 1 .. 9 : (w \o z)[i] = w[i]
        /\ \A i \in 1 .. 1 : (w \o z)[9 + i] = z[i]
    BY <2>2, Zenon DEF JoinsTo
  <2>4. IsList(w \o z) /\ Len(w \o z) = 9 + 1
    BY <2>3, Zenon DEF ListLen
  <2>5. 9 + 1 = 10
    OBVIOUS
  <2> QED
    BY <2>3, <2>4, <2>5, Zenon
<1>9. /\ Boot1[1] = w[1] /\ Boot1[2] = w[2] /\ Boot1[3] = w[3] /\ Boot1[4] = w[4]
      /\ Boot1[5] = w[5] /\ Boot1[6] = w[6] /\ Boot1[7] = w[7] /\ Boot1[8] = w[8]
      /\ Boot1[9] = w[9] /\ Boot1[10] = z[1]
  <2>1. (w \o z)[9 + 1] = z[1]
    BY <1>8
  <2>2. 1 \in 1 .. 9 /\ 2 \in 1 .. 9 /\ 3 \in 1 .. 9 /\ 4 \in 1 .. 9 /\ 5 \in 1 .. 9
        /\ 6 \in 1 .. 9 /\ 7 \in 1 .. 9 /\ 8 \in 1 .. 9 /\ 9 \in 1 .. 9 /\ 9 + 1 = 10
    OBVIOUS
  <2>3. \A i \in 1 .. 9 : Boot1[i] = w[i]
    BY <1>7, <1>8
  <2>4. Boot1[10] = z[1]
    BY <1>7, <2>1, <2>2
  <2> QED
    BY <2>2, <2>3, <2>4
<1> QED
  BY <1>2, <1>3, <1>4, <1>6, <1>7, <1>8, <1>9

\* Nothing to the EEPROM, and to the DAC the bytes for v.
Quiet(t, v) ==
    /\ t.do \in {"spi", "start", "write"}
    /\ t.do = "start" => t.to = "lm75"
    /\ IsDac(t) => t.bytes = <<v \div 4, (v * 64) % 256>>

\* A list for the second part of start-up.
BootList(s, v) == SoundList(s, "dac") /\ \A i \in 1 .. Len(s) : Quiet(s[i], v)

\* Two of them, one after the other.
LEMMA BootConcat ==
    ASSUME NEW s, NEW t, NEW v, BootList(s, v), BootList(t, v)
    PROVE  BootList(s \o t, v)
<1>1. SoundList(s, "dac") /\ SoundList(t, "dac") /\ IsList(s) /\ IsList(t)
  BY DEF BootList, SoundList
<1>2. SoundList(s \o t, "dac")
  BY <1>1, SoundConcat
<1>3. /\ Len(s) \in Nat /\ Len(t) \in Nat /\ Len(s \o t) = Len(s) + Len(t)
      /\ \A i \in 1 .. Len(s) : (s \o t)[i] = s[i]
      /\ \A i \in 1 .. Len(t) : (s \o t)[Len(s) + i] = t[i]
  BY <1>1, ConcatItems
<1>4. ASSUME NEW i \in 1 .. Len(s \o t) PROVE Quiet((s \o t)[i], v)
  <2>1. CASE i <= Len(s)
    <3>1. i \in 1 .. Len(s)
      BY <1>3, <2>1
    <3> QED
      BY <1>3, <3>1 DEF BootList
  <2>2. CASE ~(i <= Len(s))
    <3>1. i - Len(s) \in 1 .. Len(t) /\ Len(s) + (i - Len(s)) = i
      BY <1>3, <2>2
    <3>2. (s \o t)[i] = t[i - Len(s)]
      BY <1>3, <3>1
    <3> QED
      BY <3>1, <3>2 DEF BootList
  <2> QED
    BY <2>1, <2>2
<1> QED
  BY <1>2, <1>4 DEF BootList

\* One write to the LM75.
LEMMA Lm75List ==
    ASSUME NEW reg \in 0 .. 255, NEW bytes \in Seq(0 .. 255), Len(bytes) > 0, NEW v
    PROVE  BootList(Lm75Write(reg, bytes), v)
<1> DEFINE n == Len(bytes)
           a == Start("lm75", FALSE, FALSE)
           b == Put(reg, FALSE, FALSE)
           s == << a, b >>
           t == [i \in 1 .. n |-> Put(bytes[i], i = n, FALSE)]
<1>1. n \in Nat /\ n > 0 /\ \A i \in 1 .. n : bytes[i] \in 0 .. 255
  <2>1. Len(bytes) \in Nat /\ Len(bytes) > 0
    OBVIOUS
  <2>2. \A i \in 1 .. Len(bytes) : bytes[i] \in 0 .. 255
    <3> DEFINE T == 0 .. 255
    <3>1. bytes \in Seq(T)
      OBVIOUS
    <3> HIDE DEF T
    <3>2. \A i \in 1 .. Len(bytes) : bytes[i] \in T
      BY <3>1
    <3> QED
      BY <3>2 DEF T
  <2> QED
    BY <2>1, <2>2
<1>2. Lm75Write(reg, bytes) = s \o t
  BY DEF Lm75Write
<1>3. IsPart(a) /\ IsPart(b)
  BY Parts
<1>4. Quiet(a, v) /\ Quiet(b, v)
  BY DEF Quiet, IsDac, Start, Put
<1> HIDE DEF a, b, n
<1>5. IsList(s) /\ Len(s) = 2 /\ s[1] = a /\ s[2] = b
  <2>1. s \in Seq({a, b})
    OBVIOUS
  <2> QED
    BY <2>1 DEF IsList
<1>6. IsList(t) /\ Len(t) = n
  <2>1. t = [i \in 1 .. n |-> t[i]]
    OBVIOUS
  <2> HIDE DEF t
  <2> QED
    BY <1>1, <2>1, ListOf
<1>7. ASSUME NEW i \in 1 .. n PROVE t[i].do = "write" /\ t[i].byte = bytes[i]
  <2>1. t[i] = Put(bytes[i], i = n, FALSE)
    OBVIOUS
  <2> QED
    BY <2>1 DEF Put
<1>8. Closes(t[n])
  <2>1. n \in 1 .. n
    BY <1>1
  <2>2. t[n] = Put(bytes[n], n = n, FALSE)
    BY <2>1, Zenon
  <2>3. Put(bytes[n], n = n, FALSE) = Put(bytes[n], TRUE, FALSE)
    BY Zenon DEF Put
  <2> HIDE DEF t
  <2>4. t[n] = Put(bytes[n], TRUE, FALSE)
    BY <2>2, <2>3
  <2> QED
    BY <1>1, <2>1, <2>4, Parts
<1> HIDE DEF s, t
<1>9. IsTransfer(t)
  BY <1>1, <1>6, <1>7, <1>8 DEF IsTransfer
<1>10. \A i \in 1 .. Len(s) : IsPart(s[i]) /\ Quiet(s[i], v)
  <2>1. \A i \in 1 .. 2 : i = 1 \/ i = 2
    OBVIOUS
  <2> QED
    BY <1>3, <1>4, <1>5, <2>1
<1>11. IsTransfer(s \o t)
  BY <1>5, <1>9, <1>10, TransferConcat DEF IsPart
<1>12. SoundList(s \o t, "dac")
  BY <1>11, SoundTransfer
<1>13. /\ Len(t) \in Nat /\ Len(s \o t) = Len(s) + Len(t)
       /\ \A i \in 1 .. Len(s) : (s \o t)[i] = s[i]
       /\ \A i \in 1 .. Len(t) : (s \o t)[Len(s) + i] = t[i]
  <2>1. IsList(s) /\ IsList(t)
    BY <1>5, <1>6
  <2> QED
    BY <2>1, ConcatItems
<1>14. ASSUME NEW i \in 1 .. Len(s \o t) PROVE Quiet((s \o t)[i], v)
  <2>1. CASE i <= 2
    <3>1. i \in 1 .. Len(s)
      BY <1>5, <1>13, <2>1
    <3> QED
      BY <1>10, <1>13, <3>1
  <2>2. CASE ~(i <= 2)
    <3>1. i - 2 \in 1 .. Len(t) /\ 2 + (i - 2) = i
      BY <1>5, <1>13, <2>2
    <3>2. (s \o t)[i] = t[i - 2]
      BY <1>5, <1>13, <3>1
    <3>3. t[i - 2].do = "write"
      BY <1>6, <1>7, <3>1
    <3> QED
      BY <3>2, <3>3 DEF Quiet, IsDac
  <2> QED
    BY <2>1, <2>2
<1> QED
  BY <1>2, <1>12, <1>14 DEF BootList

\* The DAC gets the bytes for v.
LEMMA DacOnList ==
    ASSUME NEW v
    PROVE  /\ BootList(DacOn(v), v)
           /\ Len(DacOn(v)) = 5 /\ IsDac(DacOn(v)[5])
<1> DEFINE s == Control_TCXO_ADF(FALSE, <<>>)
           t == Control_TCXO_DAC(TRUE, v)
           d == Spi("dac", <<v \div 4, (v * 64) % 256>>, 0)
<1>1. IsList(s) /\ Len(s) = 4 /\ \A i \in 1 .. 4 : s[i] = Spi("adf", ADF_OFF[i], 0)
  BY AdfOffItems
<1>2. t = << d >>
  BY DEF Control_TCXO_DAC
<1>3. IsList(t) /\ Len(t) = 1 /\ t[1] = d
  BY <1>2, OneItem
<1>4. DacOn(v) = s \o t
  BY DEF DacOn
<1>5. Quiet(d, v) /\ IsDac(d)
  BY DEF Quiet, IsDac, Spi
<1> HIDE DEF s, t, d
<1>6. JoinsTo(s \o t, s, t, 4, 1)
  <2>1. ListLen(s, 4) /\ ListLen(t, 1)
    BY <1>1, <1>3 DEF ListLen
  <2> QED
    BY <2>1, ConcatOf
<1>7. Len(s \o t) = 5 /\ (s \o t)[5] = d /\ \A i \in 1 .. 4 : (s \o t)[i] = s[i]
  <2>1. (s \o t)[4 + 1] = t[1]
    <3>1. \A i \in 1 .. 1 : (s \o t)[4 + i] = t[i]
      BY <1>6 DEF JoinsTo
    <3>2. 1 \in 1 .. 1
      OBVIOUS
    <3> QED
      BY <3>1, <3>2
  <2> QED
    BY <1>3, <1>6, <2>1 DEF JoinsTo, ListLen
<1>8. \A i \in 1 .. 4 : Quiet(s[i], v)
  BY <1>1 DEF Quiet, IsDac, Spi
<1>9. \A i \in 1 .. 5 : Quiet((s \o t)[i], v)
  <2>1. \A i \in 1 .. 5 : i \in 1 .. 4 \/ i = 5
    OBVIOUS
  <2> QED
    BY <1>5, <1>7, <1>8, <2>1
<1> QED
  BY <1>4, <1>5, <1>7, <1>9, SoundDacOn DEF BootList

\* The second part of start-up.
LEMMA Boot2List ==
    ASSUME NEW v
    PROVE  BootList(Boot2(v), v) /\ \E i \in 1 .. Len(Boot2(v)) : IsDac(Boot2(v)[i])
<1> DEFINE a == DacOn(v)
           b == << Spi("flash", <<159>>, 3) >>
           c == Lm75Write(1, <<4>>)
           d == Lm75Write(2, <<45, 0>>)
           e == Lm75Write(3, <<55, 0>>)
<1>1. Boot2(v) = (a \o b) \o ((c \o d) \o e)
  BY DEF Boot2, Configure_LM75
<1>2. BootList(a, v) /\ Len(a) = 5 /\ IsDac(a[5])
  BY DacOnList
<1>3. BootList(b, v)
  <2> DEFINE t == Spi("flash", <<159>>, 3)
  <2>1. t.do = "spi" /\ ~IsDac(t) /\ ~IsAdf(t) /\ Quiet(t, v)
    BY DEF Spi, IsDac, IsAdf, Quiet
  <2> HIDE DEF t
  <2>2. SoundList(<<t>>, "dac")
    BY <2>1, SoundOne
  <2>3. Len(<<t>>) = 1 /\ <<t>>[1] = t
    BY OneItem
  <2>4. \A i \in 1 .. Len(<<t>>) : Quiet(<<t>>[i], v)
    BY <2>1, <2>3
  <2>5. BootList(<<t>>, v)
    BY <2>2, <2>4 DEF BootList
  <2> QED
    BY <2>5 DEF t
<1>4. BootList(c, v) /\ BootList(d, v) /\ BootList(e, v)
  <2>1. /\ <<4>> \in Seq(0 .. 255) /\ Len(<<4>>) > 0
        /\ <<45, 0>> \in Seq(0 .. 255) /\ Len(<<45, 0>>) > 0
        /\ <<55, 0>> \in Seq(0 .. 255) /\ Len(<<55, 0>>) > 0
    OBVIOUS
  <2>2. 1 \in 0 .. 255 /\ 2 \in 0 .. 255 /\ 3 \in 0 .. 255
    OBVIOUS
  <2> QED
    BY <2>1, <2>2, Lm75List
<1> HIDE DEF a, b, c, d, e
<1>5. BootList(a \o b, v) /\ BootList((c \o d) \o e, v)
  BY <1>2, <1>3, <1>4, BootConcat
<1>6. BootList((a \o b) \o ((c \o d) \o e), v)
  BY <1>5, BootConcat
<1>7. ASSUME NEW x, NEW y, BootList(x, v), BootList(y, v),
             Len(x) \in Nat, Len(x) > 4, IsDac(x[5])
      PROVE  Len(x \o y) \in Nat /\ Len(x \o y) > 4 /\ IsDac((x \o y)[5])
  <2>1. IsList(x) /\ IsList(y)
    BY <1>7 DEF BootList, SoundList
  <2>2. /\ Len(y) \in Nat /\ Len(x \o y) = Len(x) + Len(y)
        /\ \A i \in 1 .. Len(x) : (x \o y)[i] = x[i]
    BY <2>1, ConcatItems
  <2>3. 5 \in 1 .. Len(x)
    BY <1>7
  <2> QED
    BY <1>7, <2>2, <2>3
<1>8. Len(a \o b) \in Nat /\ Len(a \o b) > 4 /\ IsDac((a \o b)[5])
  BY <1>2, <1>3, <1>7
<1> DEFINE x == a \o b
           y == (c \o d) \o e
<1>9. Len(x \o y) \in Nat /\ Len(x \o y) > 4 /\ IsDac((x \o y)[5])
  <2>1. BootList(x, v) /\ BootList(y, v) /\ Len(x) \in Nat /\ Len(x) > 4 /\ IsDac(x[5])
    BY <1>5, <1>8
  <2> HIDE DEF x, y
  <2> QED
    BY <1>7, <2>1
<1>10. 5 \in 1 .. Len(x \o y)
  BY <1>9
<1> QED
  BY <1>1, <1>6, <1>9, <1>10

-----------------------------------------------------------------------------
(* What is left to do at every step of the command loop.                   *)

SomeCloses(s) == \E i \in 1 .. Len(s) : Closes(s[i])

\* Every START of s has its STOP later in s; after the end of the first part of
\* start-up comes nothing.
ListInOrder(s) ==
    /\ IsList(s)
    /\ \A i \in 1 .. Len(s) :
          /\ s[i].do = "use" => i = Len(s)
          /\ s[i].do = "write" => s[i].byte \in 0 .. 255
          /\ s[i].do = "start" => \E j \in i + 1 .. Len(s) : Closes(s[j])

\* The bus: if it is open now, a STOP is still to come.
BusPlan ==
    /\ ListInOrder(todo)
    /\ open => SomeCloses(todo)
    /\ answered => todo = <<>>

\* The list s gives the TCXO to the DAC, after the ADF is off, which drives now
\* or does not, ...
ToDac(s, driving) ==
    \A i \in 1 .. Len(s) :
        /\ IsAdf(s[i]) => FreesAdf(s[i]) \/ KeepsAdf(s[i])
        /\ IsDac(s[i]) => ~driving \/ \E j \in 1 .. i - 1 : FreesAdf(s[j])

\* ... or to the ADF, after the DAC is off.
ToAdf(s, driving) ==
    \A i \in 1 .. Len(s) :
        /\ IsDac(s[i]) => FreesDac(s[i])
        /\ IsAdf(s[i]) => ~driving \/ \E j \in 1 .. i - 1 : IsDac(s[j])

TcxoPlan == TcxoExclusive /\ (ToDac(todo, adf) \/ ToAdf(todo, dac # Off))

\* An item of Tail(s) is the next one of s.
LEMMA TailOf ==
    ASSUME NEW s, IsList(s), s # <<>>
    PROVE  /\ Len(s) \in Nat /\ Len(s) > 0 /\ IsList(Tail(s)) /\ Len(Tail(s)) = Len(s) - 1
           /\ Head(s) = s[1] /\ 1 \in 1 .. Len(s)
           /\ \A i \in 1 .. Len(Tail(s)) : i + 1 \in 1 .. Len(s) /\ Tail(s)[i] = s[i + 1]
           /\ \A i \in 2 .. Len(s) : i - 1 \in 1 .. Len(Tail(s)) /\ s[i] = Tail(s)[i - 1]
<1>1. /\ IsList(Tail(s)) /\ Len(s) \in Nat /\ Len(s) > 0 /\ Head(s) = s[1]
      /\ Len(Tail(s)) = Len(s) - 1
      /\ \A i \in 1 .. Len(Tail(s)) : Tail(s)[i] = s[i + 1]
  BY TailItems
<1>2. ASSUME NEW i \in 2 .. Len(s)
      PROVE  i - 1 \in 1 .. Len(Tail(s)) /\ s[i] = Tail(s)[i - 1]
  <2>1. i - 1 \in 1 .. Len(Tail(s)) /\ (i - 1) + 1 = i
    BY <1>1
  <2> QED
    BY <1>1, <2>1
<1> QED
  BY <1>1, <1>2

\* The rest of a list that is in order.
LEMMA InOrderTail ==
    ASSUME NEW s, ListInOrder(s), s # <<>>
    PROVE  /\ ListInOrder(Tail(s))
           /\ Head(s).do = "start" => SomeCloses(Tail(s))
           /\ SomeCloses(s) /\ ~Closes(Head(s)) => SomeCloses(Tail(s))
           /\ Head(s).do = "use" => Tail(s) = <<>>
           /\ Head(s).do = "write" => Head(s).byte \in 0 .. 255
<1> DEFINE t == Tail(s)
<1>1. IsList(s)
  BY DEF ListInOrder
<1>2. /\ Len(s) \in Nat /\ Len(s) > 0 /\ IsList(t) /\ Len(t) = Len(s) - 1
      /\ Head(s) = s[1] /\ 1 \in 1 .. Len(s)
      /\ \A i \in 1 .. Len(t) : i + 1 \in 1 .. Len(s) /\ t[i] = s[i + 1]
      /\ \A i \in 2 .. Len(s) : i - 1 \in 1 .. Len(t) /\ s[i] = t[i - 1]
  BY <1>1, TailOf
<1>3. Len(t) = 0 => t = <<>>
  <2>1. PICK S : s \in Seq(S)
    BY <1>1 DEF IsList
  <2>2. t \in Seq(S)
    BY <2>1
  <2> HIDE DEF t
  <2> QED
    BY <2>2
<1> HIDE DEF t
<1>4. ASSUME NEW i \in 1 .. Len(t)
      PROVE  /\ t[i].do = "use" => i = Len(t)
             /\ t[i].do = "write" => t[i].byte \in 0 .. 255
             /\ t[i].do = "start" => \E j \in i + 1 .. Len(t) : Closes(t[j])
  <2>1. i + 1 \in 1 .. Len(s) /\ t[i] = s[i + 1]
    BY <1>2
  <2>2. /\ s[i + 1].do = "use" => i + 1 = Len(s)
        /\ s[i + 1].do = "write" => s[i + 1].byte \in 0 .. 255
        /\ s[i + 1].do = "start" => \E j \in (i + 1) + 1 .. Len(s) : Closes(s[j])
    BY <2>1 DEF ListInOrder
  <2>3. ASSUME t[i].do = "start" PROVE \E j \in i + 1 .. Len(t) : Closes(t[j])
    <3>1. PICK j \in (i + 1) + 1 .. Len(s) : Closes(s[j])
      BY <2>1, <2>2, <2>3
    <3>2. j \in 2 .. Len(s) /\ j - 1 \in i + 1 .. Len(t)
      BY <1>2
    <3> QED
      BY <1>2, <3>1, <3>2
  <2>4. ASSUME t[i].do = "use" PROVE i = Len(t)
    <3>1. i + 1 = Len(s)
      BY <2>1, <2>2, <2>4
    <3> QED
      BY <1>2, <3>1
  <2>5. t[i].do = "write" => t[i].byte \in 0 .. 255
    BY <2>1, <2>2
  <2> QED
    BY <2>3, <2>4, <2>5
<1>5. ASSUME Head(s).do = "start" PROVE SomeCloses(t)
  <2>1. PICK j \in 1 + 1 .. Len(s) : Closes(s[j])
    BY <1>2, <1>5 DEF ListInOrder
  <2>2. j \in 2 .. Len(s)
    OBVIOUS
  <2> QED
    BY <1>2, <2>1, <2>2 DEF SomeCloses
<1>6. ASSUME SomeCloses(s), ~Closes(Head(s)) PROVE SomeCloses(t)
  <2>1. PICK j \in 1 .. Len(s) : Closes(s[j])
    BY <1>6 DEF SomeCloses
  <2>2. j \in 2 .. Len(s)
    BY <1>2, <1>6, <2>1
  <2> QED
    BY <1>2, <2>1, <2>2 DEF SomeCloses
<1>7. Head(s).do = "use" => t = <<>>
  BY <1>2, <1>3 DEF ListInOrder
<1>8. Head(s).do = "write" => Head(s).byte \in 0 .. 255
  BY <1>2 DEF ListInOrder
<1> QED
  BY <1>2, <1>4, <1>5, <1>6, <1>7, <1>8 DEF ListInOrder, t

\* The rest of a list for the DAC.
LEMMA ToDacTail ==
    ASSUME NEW s, IsList(s), s # <<>>, NEW now, NEW then, ToDac(s, now),
           then => now /\ ~FreesAdf(Head(s))
    PROVE  /\ ToDac(Tail(s), then)
           /\ IsDac(Head(s)) => ~now
           /\ IsAdf(Head(s)) => FreesAdf(Head(s)) \/ KeepsAdf(Head(s))
<1> DEFINE t == Tail(s)
<1>1. /\ Len(s) \in Nat /\ Len(t) = Len(s) - 1
      /\ Head(s) = s[1] /\ 1 \in 1 .. Len(s)
      /\ \A i \in 1 .. Len(t) : i + 1 \in 1 .. Len(s) /\ t[i] = s[i + 1]
      /\ \A i \in 2 .. Len(s) : i - 1 \in 1 .. Len(t) /\ s[i] = t[i - 1]
  BY TailOf
<1> HIDE DEF t
<1>2. ASSUME NEW i \in 1 .. Len(t)
      PROVE  /\ IsAdf(t[i]) => FreesAdf(t[i]) \/ KeepsAdf(t[i])
             /\ IsDac(t[i]) => ~then \/ \E j \in 1 .. i - 1 : FreesAdf(t[j])
  <2>1. i + 1 \in 1 .. Len(s) /\ t[i] = s[i + 1]
    BY <1>1
  <2>2. IsAdf(t[i]) => FreesAdf(t[i]) \/ KeepsAdf(t[i])
    BY <2>1 DEF ToDac
  <2>3. ASSUME IsDac(t[i]), then PROVE \E j \in 1 .. i - 1 : FreesAdf(t[j])
    <3>1. now /\ ~FreesAdf(s[1])
      BY <1>1, <2>3
    <3>2. PICK j \in 1 .. (i + 1) - 1 : FreesAdf(s[j])
      BY <2>1, <2>3, <3>1 DEF ToDac
    <3>3. j \in 2 .. Len(s) /\ j - 1 \in 1 .. i - 1
      BY <1>1, <2>1, <3>1, <3>2
    <3> QED
      BY <1>1, <3>2, <3>3
  <2> QED
    BY <2>2, <2>3
<1>3. IsDac(Head(s)) => ~now
  <2>1. ~\E j \in 1 .. 1 - 1 : FreesAdf(s[j])
    OBVIOUS
  <2> QED
    BY <1>1, <2>1 DEF ToDac
<1>4. IsAdf(Head(s)) => FreesAdf(Head(s)) \/ KeepsAdf(Head(s))
  BY <1>1 DEF ToDac
<1> QED
  BY <1>2, <1>3, <1>4 DEF ToDac, t

\* The rest of a list for the ADF.
LEMMA ToAdfTail ==
    ASSUME NEW s, IsList(s), s # <<>>, NEW now, NEW then, ToAdf(s, now),
           then => now /\ ~IsDac(Head(s))
    PROVE  /\ ToAdf(Tail(s), then)
           /\ IsDac(Head(s)) => FreesDac(Head(s))
           /\ IsAdf(Head(s)) => ~now
<1> DEFINE t == Tail(s)
<1>1. /\ Len(s) \in Nat /\ Len(t) = Len(s) - 1
      /\ Head(s) = s[1] /\ 1 \in 1 .. Len(s)
      /\ \A i \in 1 .. Len(t) : i + 1 \in 1 .. Len(s) /\ t[i] = s[i + 1]
      /\ \A i \in 2 .. Len(s) : i - 1 \in 1 .. Len(t) /\ s[i] = t[i - 1]
  BY TailOf
<1> HIDE DEF t
<1>2. ASSUME NEW i \in 1 .. Len(t)
      PROVE  /\ IsDac(t[i]) => FreesDac(t[i])
             /\ IsAdf(t[i]) => ~then \/ \E j \in 1 .. i - 1 : IsDac(t[j])
  <2>1. i + 1 \in 1 .. Len(s) /\ t[i] = s[i + 1]
    BY <1>1
  <2>2. IsDac(t[i]) => FreesDac(t[i])
    BY <2>1 DEF ToAdf
  <2>3. ASSUME IsAdf(t[i]), then PROVE \E j \in 1 .. i - 1 : IsDac(t[j])
    <3>1. now /\ ~IsDac(s[1])
      BY <1>1, <2>3
    <3>2. PICK j \in 1 .. (i + 1) - 1 : IsDac(s[j])
      BY <2>1, <2>3, <3>1 DEF ToAdf
    <3>3. j \in 2 .. Len(s) /\ j - 1 \in 1 .. i - 1
      BY <1>1, <2>1, <3>1, <3>2
    <3> QED
      BY <1>1, <3>2, <3>3
  <2> QED
    BY <2>2, <2>3
<1>3. IsAdf(Head(s)) => ~now
  <2>1. ~\E j \in 1 .. 1 - 1 : IsDac(s[j])
    OBVIOUS
  <2> QED
    BY <1>1, <2>1 DEF ToAdf
<1>4. IsDac(Head(s)) => FreesDac(Head(s))
  BY <1>1 DEF ToAdf
<1> QED
  BY <1>2, <1>3, <1>4 DEF ToAdf, t

\* Where a plan begins: the lists of the commands and of start-up.
LEMMA SoundInOrder ==
    ASSUME NEW s, NEW for, SoundList(s, for)
    PROVE  ListInOrder(s) /\ (for = "dac" => \A driving : ToDac(s, driving))
  BY DEF SoundList, Sound, ListInOrder, ToDac

\* The list of CMD_ADF4002_WR, whatever drives the TCXO before it.
LEMMA AdfInOrder ==
    ASSUME NEW s, AdfList(s)
    PROVE  ListInOrder(s) /\ \A driving : ToAdf(s, driving)
<1>1. IsList(s) /\ Len(s) > 0 /\ Len(s) \in Nat /\ FreesDac(s[1]) /\ IsDac(s[1])
  BY DEF AdfList, IsList, FreesDac
<1>2. \A i \in 1 .. Len(s) : i = 1 \/ i \in 2 .. Len(s)
  BY <1>1
<1>3. \A i \in 2 .. Len(s) : Sound(s, i, "adf")
  BY DEF AdfList
<1>4. ListInOrder(s)
  BY <1>1, <1>2, <1>3 DEF ListInOrder, Sound, IsDac
<1>5. ASSUME NEW driving, NEW i \in 1 .. Len(s)
      PROVE  /\ IsDac(s[i]) => FreesDac(s[i])
             /\ IsAdf(s[i]) => ~driving \/ \E j \in 1 .. i - 1 : IsDac(s[j])
  <2>1. CASE i = 1
    BY <1>1, <2>1 DEF IsAdf, IsDac
  <2>2. CASE i \in 2 .. Len(s)
    <3>1. ~IsDac(s[i])
      BY <1>3, <2>2 DEF Sound
    <3>2. 1 \in 1 .. i - 1
      BY <1>1, <2>2
    <3> QED
      BY <1>1, <3>1, <3>2
  <2> QED
    BY <1>2, <2>1, <2>2
<1> QED
  BY <1>4, <1>5 DEF ToAdf

\* Start-up, too; it does not touch the TCXO before it has read the EEPROM.
LEMMA Boot1InOrder ==
    ListInOrder(Boot1) /\ SomeCloses(Boot1) /\ \A driving : ToDac(Boot1, driving)
<1>1. /\ Boot1[1].do = "pin" /\ Boot1[2].do = "pin" /\ Boot1[3].do = "i2c_init"
      /\ Boot1[4].do = "start" /\ Boot1[5].do = "write" /\ Boot1[6].do = "write"
      /\ Boot1[7].do = "start" /\ Boot1[8].do = "read" /\ Boot1[9].do = "read"
      /\ Boot1[10].do = "use"
      /\ Boot1[5].byte = 0 /\ Boot1[6].byte = DAC_VAL_ADDR
  BY Boot1Items DEF SetPin, Step, Start, Put, Get
<1>2. Closes(Boot1[9])
  BY Boot1Items, Parts
<1>3. \A i \in 1 .. 10 : i = 1 \/ i = 2 \/ i = 3 \/ i = 4 \/ i = 5 \/ i = 6 \/ i = 7 \/ i = 8
                         \/ i = 9 \/ i = 10
  OBVIOUS
<1>4. DAC_VAL_ADDR \in 0 .. 255
  BY CommandsAssumption, I2cAssumption DEF Addresses
<1>5. IsList(Boot1) /\ Len(Boot1) = 10
  BY Boot1Items
<1>6. ASSUME NEW i \in 1 .. 10
      PROVE  /\ Boot1[i].do = "use" => i = 10
             /\ Boot1[i].do = "write" => Boot1[i].byte \in 0 .. 255
             /\ Boot1[i].do = "start" => \E j \in i + 1 .. 10 : Closes(Boot1[j])
             /\ ~IsAdf(Boot1[i]) /\ ~IsDac(Boot1[i])
  <2>1. Boot1[i].do = "start" => 9 \in i + 1 .. 10
    BY <1>1, <1>3
  <2>2. Boot1[i].do = "use" => i = 10
    BY <1>1, <1>3
  <2>3. Boot1[i].do = "write" => Boot1[i].byte \in 0 .. 255
    BY <1>1, <1>3, <1>4
  <2>4. Boot1[i].do # "spi"
    BY <1>1, <1>3
  <2> QED
    BY <1>2, <2>1, <2>2, <2>3, <2>4 DEF IsAdf, IsDac
<1>7. ListInOrder(Boot1) /\ SomeCloses(Boot1)
  BY <1>2, <1>5, <1>6 DEF ListInOrder, SomeCloses
<1>8. \A driving : ToDac(Boot1, driving)
  BY <1>5, <1>6 DEF ToDac
<1> QED
  BY <1>7, <1>8

-----------------------------------------------------------------------------
(* The plans hold at every step.                                           *)

\* A step of the command loop, of the EEPROM or of the host, or a restart.
CmdStep ==
    CmdFirmware \/ DoPin \/ EepromDone \/ CmdRestart \/ \E c : IsCall(c) /\ Call(c)

\* The bus is in order when the FPGA starts.
LEMMA BusPlanInit == CmdInit => BusPlan
  BY Boot1InOrder DEF CmdInit, I2cInit, BusPlan

\* The bus is in order after every step.
LEMMA BusPlanStep ==
    ASSUME BusPlan, CmdStep
    PROVE  BusPlan'
<1> USE DEF BusPlan
<1>1. ASSUME todo # <<>>
      PROVE  /\ ListInOrder(Tail(todo))
             /\ Head(todo).do = "start" => SomeCloses(Tail(todo))
             /\ SomeCloses(todo) /\ ~Closes(Head(todo)) => SomeCloses(Tail(todo))
             /\ Head(todo).do = "use" => Tail(todo) = <<>>
  BY <1>1, InOrderTail
<1>2. ASSUME ~answered, answered' = answered, todo # <<>>, todo' = Tail(todo),
             open' => open /\ ~Closes(Head(todo))
      PROVE  BusPlan'
  BY <1>1, <1>2
<1>3. ASSUME Head(todo).do \in {"spi", "pin", "dac_val"} PROVE ~Closes(Head(todo))
  BY <1>3 DEF Closes
<1>4. ASSUME DoSpi PROVE BusPlan'
  BY <1>2, <1>3, <1>4 DEF DoSpi, NextIs, i2cVars, masterVars
<1>5. ASSUME DoStart PROVE BusPlan'
  BY <1>1, <1>5 DEF DoStart, NextIs, I2C_start
<1>6. ASSUME Head(todo).do \in {"write", "read"}, open' = (open /\ ~Head(todo).last), open'
      PROVE  open /\ ~Closes(Head(todo))
  BY <1>6 DEF Closes
<1>7. ASSUME DoWrite PROVE BusPlan'
  BY <1>2, <1>6, <1>7 DEF DoWrite, NextIs, I2C_write, WithStop
<1>8. ASSUME DoRead PROVE BusPlan'
  BY <1>2, <1>6, <1>8 DEF DoRead, NextIs, I2C_read, WithStop
<1>9. ASSUME DoPin PROVE BusPlan'
  BY <1>2, <1>3, <1>9 DEF DoPin, NextIs, i2cVars, masterVars
<1>10. ASSUME DoDacVal PROVE BusPlan'
  BY <1>2, <1>3, <1>10 DEF DoDacVal, NextIs, i2cVars, masterVars
<1>11. ASSUME DoI2cInit PROVE BusPlan'
  BY <1>1, <1>11 DEF DoI2cInit, NextIs, I2C_init
<1>12. ASSUME UseEeprom PROVE BusPlan'
  <2>1. ~SomeCloses(todo)
    <3>1. Head(todo).do = "use" /\ ~Closes(Head(todo)) /\ todo # <<>>
      BY <1>12 DEF UseEeprom, Closes
    <3>2. ~SomeCloses(<<>>)
      BY DEF SomeCloses
    <3> QED
      BY <1>1, <3>1, <3>2
  <2>2. \A v : ListInOrder(Boot2(v))
    BY Boot2List, SoundInOrder DEF BootList
  <2> QED
    BY <1>12, <2>1, <2>2 DEF UseEeprom, i2cVars, masterVars
<1>13. ASSUME Respond PROVE BusPlan'
  BY <1>13 DEF Respond, i2cVars, masterVars
<1>14. ASSUME EepromDone PROVE BusPlan'
  BY <1>14 DEF EepromDone, StoreDone, cpuVars, masterVars
<1>15. ASSUME CmdRestart PROVE BusPlan'
  BY <1>15, Boot1InOrder DEF CmdRestart, i2cVars, masterVars
<1>16. ASSUME NEW c, IsCall(c), Call(c) PROVE BusPlan'
  <2>1. ListInOrder(Transactions(c))
    BY <1>16, TransactionsSound, SoundInOrder, AdfInOrder
  <2>2. ~open
    BY <1>16 DEF Call, SomeCloses
  <2> QED
    BY <1>16, <2>1, <2>2 DEF Call, i2cVars, masterVars
<1> QED
  BY <1>4, <1>5, <1>7, <1>8, <1>9, <1>10, <1>11, <1>12, <1>13, <1>14, <1>15, <1>16
     DEF CmdStep, CmdFirmware

\* The DAC drives when the board is switched on, and the ADF does not.
LEMMA TcxoPlanInit == CmdInit => TcxoPlan
  BY Boot1InOrder DEF CmdInit, TcxoPlan, TcxoExclusive

\* The TCXO has at most one driver after every step.
LEMMA TcxoPlanStep ==
    ASSUME BusPlan, TcxoPlan, CmdStep
    PROVE  TcxoPlan'
<1> USE DEF TcxoPlan, TcxoExclusive
<1>1. IsList(todo)
  BY DEF BusPlan, ListInOrder
<1>2. ASSUME todo # <<>>, todo' = Tail(todo), dac' = dac, adf' = adf,
             ~IsDac(Head(todo)), ~IsAdf(Head(todo))
      PROVE  TcxoPlan'
  <2>1. CASE ToDac(todo, adf)
    <3>1. ToDac(Tail(todo), adf)
      BY <1>1, <1>2, <2>1, ToDacTail DEF FreesAdf
    <3> QED
      BY <1>2, <3>1
  <2>2. CASE ToAdf(todo, dac # Off)
    <3>1. ToAdf(Tail(todo), dac # Off)
      BY <1>1, <1>2, <2>2, ToAdfTail
    <3> QED
      BY <1>2, <3>1
  <2> QED
    BY <2>1, <2>2
<1>3. ASSUME Head(todo).do # "spi" PROVE ~IsDac(Head(todo)) /\ ~IsAdf(Head(todo))
  BY <1>3 DEF IsDac, IsAdf
<1>4. ASSUME DoSpi PROVE TcxoPlan'
  <2> DEFINE t == Head(todo)
  <2>1. /\ todo # <<>> /\ todo' = Tail(todo) /\ t.do = "spi"
        /\ dac' = (IF t.to = "dac" THEN DacAfter(t.bytes) ELSE dac)
        /\ adf' = (IF t.to = "adf" THEN AdfAfter(t.bytes) ELSE adf)
    BY <1>4 DEF DoSpi, NextIs
  <2> HIDE DEF t
  <2>2. CASE t.to \notin {"dac", "adf"}
    BY <1>2, <2>1, <2>2 DEF IsDac, IsAdf, t
  <2>3. CASE t.to = "dac"
    <3>1. IsDac(t) /\ ~IsAdf(t) /\ ~FreesAdf(t) /\ adf' = adf /\ dac' = DacAfter(t.bytes)
      BY <2>1, <2>3 DEF IsDac, IsAdf, FreesAdf
    <3>2. CASE ToDac(todo, adf)
      <4>1. ToDac(Tail(todo), adf) /\ ~adf
        BY <1>1, <2>1, <3>1, <3>2, ToDacTail DEF t
      <4> QED
        BY <2>1, <3>1, <4>1
    <3>3. CASE ToAdf(todo, dac # Off)
      <4>1. ToAdf(Tail(todo), FALSE) /\ FreesDac(t)
        BY <1>1, <2>1, <3>1, <3>3, ToAdfTail DEF t
      <4>2. dac' = Off
        BY <3>1, <4>1 DEF FreesDac, DacAfter
      <4>3. ToAdf(todo', dac' # Off)
        <5>1. (dac' # Off) = FALSE
          BY <4>2
        <5> QED
          BY <2>1, <4>1, <5>1
      <4> QED
        BY <4>2, <4>3
    <3> QED
      BY <3>2, <3>3
  <2>4. CASE t.to = "adf"
    <3>1. IsAdf(t) /\ ~IsDac(t) /\ adf' = AdfAfter(t.bytes) /\ dac' = dac
      BY <2>1, <2>4 DEF IsDac, IsAdf
    <3>2. CASE ToDac(todo, adf)
      <4>1. FreesAdf(t) \/ KeepsAdf(t)
        BY <1>1, <2>1, <3>1, <3>2, ToDacTail DEF t
      <4>2. adf' => adf /\ ~FreesAdf(t)
        BY <3>1, <4>1 DEF FreesAdf, KeepsAdf, AdfAfter
      <4>3. ToDac(Tail(todo), adf')
        BY <1>1, <2>1, <3>2, <4>2, ToDacTail DEF t
      <4> QED
        BY <2>1, <3>1, <4>2, <4>3
    <3>3. CASE ToAdf(todo, dac # Off)
      <4>1. ToAdf(Tail(todo), dac # Off) /\ dac = Off
        BY <1>1, <2>1, <3>1, <3>3, ToAdfTail DEF t
      <4> QED
        BY <2>1, <3>1, <4>1
    <3> QED
      BY <3>2, <3>3
  <2> QED
    BY <2>2, <2>3, <2>4
<1>5. ASSUME DoStart PROVE TcxoPlan'
  BY <1>2, <1>3, <1>5 DEF DoStart, NextIs, boardVars
<1>6. ASSUME DoWrite PROVE TcxoPlan'
  BY <1>2, <1>3, <1>6 DEF DoWrite, NextIs, boardVars
<1>7. ASSUME DoRead PROVE TcxoPlan'
  BY <1>2, <1>3, <1>7 DEF DoRead, NextIs, boardVars
<1>8. ASSUME DoPin PROVE TcxoPlan'
  BY <1>2, <1>3, <1>8 DEF DoPin, NextIs
<1>9. ASSUME DoDacVal PROVE TcxoPlan'
  BY <1>2, <1>3, <1>9 DEF DoDacVal, NextIs, boardVars
<1>10. ASSUME DoI2cInit PROVE TcxoPlan'
  BY <1>2, <1>3, <1>10 DEF DoI2cInit, NextIs, boardVars
<1>11. ASSUME UseEeprom PROVE TcxoPlan'
  <2>1. \A v, driving : ToDac(Boot2(v), driving)
    BY Boot2List, SoundInOrder DEF BootList
  <2> QED
    BY <1>11, <2>1 DEF UseEeprom, boardVars
<1>12. ASSUME Respond PROVE TcxoPlan'
  BY <1>12 DEF Respond, boardVars
<1>13. ASSUME EepromDone PROVE TcxoPlan'
  BY <1>13 DEF EepromDone, cpuVars, boardVars
<1>14. ASSUME CmdRestart PROVE TcxoPlan'
  BY <1>14, Boot1InOrder DEF CmdRestart
<1>15. ASSUME NEW c, IsCall(c), Call(c) PROVE TcxoPlan'
  <2>1. ToDac(Transactions(c), adf) \/ ToAdf(Transactions(c), dac # Off)
    BY <1>15, TransactionsSound, SoundInOrder, AdfInOrder
  <2> QED
    BY <1>15, <2>1 DEF Call, boardVars
<1> QED
  BY <1>4, <1>5, <1>6, <1>7, <1>8, <1>9, <1>10, <1>11, <1>12, <1>13, <1>14, <1>15
     DEF CmdStep, CmdFirmware

-----------------------------------------------------------------------------
(* Start-up and the value in the EEPROM.                                   *)

\* The chips' bytes.
Octets == 0 .. 255
ChipTypes ==
    /\ eeprom \in [Addresses -> Octets] /\ written \in Seq(Octets)
    /\ pointer \in [Chips -> Nat] /\ storing \in BOOLEAN

\* The EEPROM stores bytes.
LEMMA StoredType ==
    ASSUME ChipTypes
    PROVE  Stored \in [Addresses -> Octets]
<1> DEFINE last(a) == CHOOSE n \in BytesFor(a) : \A m \in BytesFor(a) : m <= n
<1>1. ASSUME NEW a \in Addresses, BytesFor(a) # {} PROVE last(a) \in DOMAIN written
  <2>1. BytesFor(a) \subseteq 1 .. Len(written) /\ Len(written) \in Nat
    <3>1. DOMAIN written = 1 .. Len(written) /\ Len(written) \in Nat
      BY DEF ChipTypes
    <3> QED
      BY <3>1 DEF BytesFor
  <2> DEFINE B == BytesFor(a)
             S == {Len(written) - n : n \in B}
  <2> HIDE DEF B
  <2>2. B # {} /\ B \subseteq 1 .. Len(written)
    BY <1>1, <2>1 DEF B
  <2>3. S \in SUBSET Nat /\ S # {}
    <3>1. ASSUME NEW n \in B PROVE Len(written) - n \in Nat
      BY <2>1, <2>2
    <3>2. PICK n \in B : TRUE
      BY <2>2
    <3> QED
      BY <3>1, <3>2
  <2>4. PICK x \in S : \A y \in S : x <= y
    <3> HIDE DEF S
    <3> QED
      BY <2>3, LeastNatural
  <2>5. PICK n \in B : x = Len(written) - n
    BY <2>4
  <2>6. ASSUME NEW m \in B PROVE m <= n
    <3>1. Len(written) - m \in S
      OBVIOUS
    <3>2. Len(written) - n <= Len(written) - m
      BY <2>4, <2>5, <3>1
    <3>3. Len(written) \in Nat /\ m \in Nat /\ n \in Nat
      BY <2>1, <2>2
    <3> HIDE DEF B, S
    <3> QED
      BY <3>2, <3>3
  <2>7. \E k \in B : \A m \in B : m <= k
    BY <2>6
  <2>8. last(a) \in B
    BY <2>7 DEF B
  <2> QED
    BY <2>8 DEF B, BytesFor
<1>2. \A n \in DOMAIN written : written[n] \in Octets
  BY DEF ChipTypes
<1>3. ASSUME NEW a \in Addresses
      PROVE  (IF BytesFor(a) = {} THEN eeprom[a] ELSE written[last(a)]) \in Octets
  <2> HIDE DEF last
  <2> QED
    BY <1>1, <1>2 DEF ChipTypes
<1>4. Stored = [a \in Addresses |-> IF BytesFor(a) = {} THEN eeprom[a] ELSE written[last(a)]]
  BY DEF Stored
<1> HIDE DEF last
<1> QED
  BY <1>3, <1>4

\* A new board holds blank bytes.
LEMMA ChipTypesInit == CmdInit => ChipTypes
<1>1. ASSUME CmdInit PROVE ChipTypes
  <2>1. eeprom \in [Addresses -> Octets]
    BY <1>1, I2cAssumption DEF CmdInit, I2cInit, Octets
  <2>2. pointer \in [Chips -> Nat] /\ written = <<>> /\ storing \in BOOLEAN
    BY <1>1 DEF CmdInit, I2cInit
  <2> QED
    BY <2>1, <2>2 DEF ChipTypes
<1> QED
  BY <1>1

\* The chips hold bytes after every step.
LEMMA ChipTypesStep ==
    ASSUME BusPlan, ChipTypes, CmdStep
    PROVE  ChipTypes'
<1>1. ASSUME UNCHANGED <<eeprom, written, pointer, storing>> PROVE ChipTypes'
  BY <1>1 DEF ChipTypes
<1>2. ASSUME DoStart PROVE ChipTypes'
  <2>1. (written' = written \/ written' = <<>>) /\ UNCHANGED <<eeprom, pointer, storing>>
    BY <1>2 DEF DoStart, I2C_start
  <2>2. written' \in Seq(Octets)
    <3>1. written \in Seq(Octets) /\ <<>> \in Seq(Octets)
      BY DEF ChipTypes
    <3> QED
      BY <2>1, <3>1
  <2> QED
    BY <2>1, <2>2 DEF ChipTypes
<1>3. ASSUME DoWrite PROVE ChipTypes'
  <2> DEFINE b == Head(todo).byte
  <2>1. b \in Octets
    BY <1>3, InOrderTail DEF BusPlan, DoWrite, NextIs, Octets
  <2>2. /\ eeprom' = eeprom
        /\ pointer' = pointer \/ pointer' = [pointer EXCEPT ![chip] = b]
        /\ written' = written \/ written' = Append(written, b)
        /\ storing' \in BOOLEAN
    BY <1>3 DEF DoWrite, I2C_write, TakeByte
  <2>3. b \in Nat
    BY <2>1 DEF Octets
  <2>4. pointer' \in [Chips -> Nat]
    <3> HIDE DEF b
    <3> QED
      BY <2>2, <2>3 DEF ChipTypes
  <2>5. written' \in Seq(Octets)
    <3>1. written \in Seq(Octets)
      BY DEF ChipTypes
    <3> HIDE DEF b
    <3> QED
      BY <2>1, <2>2, <3>1
  <2> QED
    BY <2>2, <2>4, <2>5 DEF ChipTypes
<1>4. ASSUME DoRead PROVE ChipTypes'
  <2>1. /\ UNCHANGED <<eeprom, written, storing>>
        /\ pointer' = IF chip = "eeprom"
                      THEN [pointer EXCEPT ![chip] = (@ + 1) % EEPROM_SIZE] ELSE pointer
    BY <1>4 DEF DoRead, I2C_read
  <2>2. CASE chip = "eeprom"
    <3>1. pointer["eeprom"] \in Nat /\ "eeprom" \in Chips
      BY DEF ChipTypes, Chips
    <3>2. (pointer["eeprom"] + 1) % EEPROM_SIZE \in Nat
      BY <3>1, I2cAssumption
    <3>3. pointer' = [pointer EXCEPT !["eeprom"] = (pointer["eeprom"] + 1) % EEPROM_SIZE]
      BY <2>1, <2>2
    <3>4. pointer' \in [Chips -> Nat]
      BY <3>2, <3>3 DEF ChipTypes
    <3> QED
      BY <2>1, <3>4 DEF ChipTypes
  <2>3. CASE chip # "eeprom"
    BY <2>1, <2>3 DEF ChipTypes
  <2> QED
    BY <2>2, <2>3
<1>5. ASSUME DoI2cInit PROVE ChipTypes'
  BY <1>1, <1>5 DEF DoI2cInit, I2C_init, chipVars
<1>6. ASSUME DoSpi \/ DoPin \/ DoDacVal \/ UseEeprom \/ Respond PROVE ChipTypes'
  BY <1>1, <1>6 DEF DoSpi, DoPin, DoDacVal, UseEeprom, Respond, i2cVars, chipVars
<1>7. ASSUME EepromDone PROVE ChipTypes'
  <2>1. eeprom' = Stored /\ written' = <<>> /\ storing' = FALSE /\ pointer' = pointer
    BY <1>7 DEF EepromDone, StoreDone
  <2>2. <<>> \in Seq(Octets)
    OBVIOUS
  <2> QED
    BY <2>1, <2>2, StoredType DEF ChipTypes
<1>8. ASSUME CmdRestart \/ \E c : Call(c) PROVE ChipTypes'
  BY <1>1, <1>8 DEF CmdRestart, Call, i2cVars, chipVars
<1> QED
  BY <1>2, <1>3, <1>4, <1>5, <1>6, <1>7, <1>8 DEF CmdStep, CmdFirmware

\* The AD5601 takes the value it was sent.
LEMMA DacTakes ==
    ASSUME NEW v \in 0 .. 255
    PROVE  DacAfter(<<v \div 4, (v * 64) % 256>>) = v
<1>1. PICK q \in 0 .. 63, r \in 0 .. 3 : v = 4 * q + r
  BY Z3T(60)
<1>2. v \div 4 = q
  BY <1>1, Z3T(60)
<1>3. v * 64 = 256 * q + 64 * r
  BY <1>1
<1>4. (v * 64) % 256 = 64 * r
  BY <1>1, <1>3, Z3T(60)
<1>5. (64 * r) \div 64 = r
  BY <1>1, Z3T(60)
<1> QED
  BY <1>1, <1>2, <1>4, <1>5 DEF DacAfter

\* What start-up takes from the EEPROM.
StoredValue == StartValue(eeprom[DAC_VAL_ADDR], eeprom[DAC_VAL_ADDR + 1])

\* What is left of the first part of start-up before its transaction k.
FromItem(s, k) == Len(s) = 11 - k /\ \A i \in 1 .. 11 - k : s[i] = Boot1[k - 1 + i]

\* Start-up before transaction k of its first part.
BeforeItem(k) ==
    /\ FromItem(todo, k)
    /\ k = 2 => lms_reset = TRUE
    /\ k > 2 => lms_reset = FALSE
    /\ k \in 5 .. 9 => chip = "eeprom"
    /\ k = 5 => count = 0
    /\ k = 6 => count = 1
    /\ k \in 7 .. 8 => pointer["eeprom"] = DAC_VAL_ADDR
    /\ k < 9 => got = <<>>
    /\ k = 9 => pointer["eeprom"] = DAC_VAL_ADDR + 1 /\ got = <<eeprom[DAC_VAL_ADDR]>>
    /\ k = 10 => /\ chip = NoChip
                 /\ got[1] = eeprom[DAC_VAL_ADDR] /\ got[2] = eeprom[DAC_VAL_ADDR + 1]

Reading == ~answered /\ \E k \in 1 .. 10 : BeforeItem(k)

\* Start-up in its second part, and after it until a command comes.
ValueTaken ==
    /\ dac_val = StoredValue /\ lms_reset = FALSE /\ chip # "eeprom"
    /\ \A i \in 1 .. Len(todo) : Quiet(todo[i], dac_val)
    /\ dac = dac_val \/ \E i \in 1 .. Len(todo) : IsDac(todo[i])

BootPlan == cmd = StartUp => ~storing /\ (Reading \/ ValueTaken)

\* The first start-up begins.
LEMMA BootPlanInit == CmdInit => BootPlan
<1>1. ASSUME CmdInit PROVE BeforeItem(1) /\ ~answered /\ ~storing
  <2>1. todo = Boot1 /\ got = <<>> /\ answered = FALSE /\ storing = FALSE
    BY <1>1 DEF CmdInit, I2cInit
  <2>2. FromItem(todo, 1)
    BY <2>1, Boot1Items DEF FromItem
  <2> QED
    BY <2>1, <2>2 DEF BeforeItem
<1> QED
  BY <1>1 DEF BootPlan, Reading

\* The next transaction, and what is left then.
LEMMA FromItemTail ==
    ASSUME NEW s, IsList(s), NEW k \in 1 .. 10, FromItem(s, k)
    PROVE  s # <<>> /\ Head(s) = Boot1[k] /\ FromItem(Tail(s), k + 1)
<1>1. Len(s) = 11 - k /\ Len(s) > 0 /\ \A i \in 1 .. 11 - k : s[i] = Boot1[k - 1 + i]
  BY DEF FromItem
<1>2. s # <<>>
  BY <1>1
<1>3. /\ Head(s) = s[1] /\ Len(Tail(s)) = Len(s) - 1
      /\ \A i \in 1 .. Len(Tail(s)) : Tail(s)[i] = s[i + 1]
  BY <1>2, TailOf
<1>4. Head(s) = Boot1[k]
  <2>1. 1 \in 1 .. 11 - k /\ k - 1 + 1 = k
    OBVIOUS
  <2>2. s[1] = Boot1[k - 1 + 1]
    BY <1>1, <2>1
  <2> QED
    BY <1>3, <2>1, <2>2
<1>5. Len(Tail(s)) = 11 - (k + 1)
  BY <1>1, <1>3
<1>6. ASSUME NEW i \in 1 .. 11 - (k + 1) PROVE Tail(s)[i] = Boot1[(k + 1) - 1 + i]
  <2>1. i + 1 \in 1 .. 11 - k /\ k - 1 + (i + 1) = (k + 1) - 1 + i
    OBVIOUS
  <2>2. Tail(s)[i] = s[i + 1]
    BY <1>3, <1>5
  <2>3. s[i + 1] = Boot1[k - 1 + (i + 1)]
    BY <1>1, <2>1
  <2> QED
    BY <2>1, <2>2, <2>3
<1> QED
  BY <1>2, <1>4, <1>5, <1>6 DEF FromItem

\* Which transaction it is tells how far start-up is.
LEMMA Boot1Kinds ==
    /\ Boot1[1].do = "pin" /\ Boot1[2].do = "pin" /\ Boot1[3].do = "i2c_init"
    /\ Boot1[4].do = "start" /\ Boot1[5].do = "write" /\ Boot1[6].do = "write"
    /\ Boot1[7].do = "start" /\ Boot1[8].do = "read" /\ Boot1[9].do = "read"
    /\ Boot1[10].do = "use"
    /\ Boot1[1].v = 6 /\ Boot1[2].v = 7
    /\ Boot1[4].to = "eeprom" /\ Boot1[4].read = FALSE
    /\ Boot1[7].to = "eeprom" /\ Boot1[7].read = TRUE
    /\ Boot1[5].byte = 0 /\ Boot1[6].byte = DAC_VAL_ADDR
    /\ Boot1[5].last = FALSE /\ Boot1[6].last = FALSE
    /\ Boot1[8].last = FALSE /\ Boot1[9].last = TRUE
  BY Boot1Items DEF SetPin, Step, Start, Put, Get

\* A step of the first part.
LEMMA ReadingStep ==
    ASSUME BusPlan, ChipTypes, ~storing, Reading, CmdFirmware \/ DoPin
    PROVE  ~storing' /\ (Reading' \/ ValueTaken')
<1>1. PICK k \in 1 .. 10 : BeforeItem(k)
  BY DEF Reading
<1>2. todo # <<>> /\ Head(todo) = Boot1[k] /\ FromItem(Tail(todo), k + 1)
  BY <1>1, FromItemTail DEF BusPlan, ListInOrder, BeforeItem
<1>3. k = 1 \/ k = 2 \/ k = 3 \/ k = 4 \/ k = 5 \/ k = 6 \/ k = 7 \/ k = 8 \/ k = 9 \/ k = 10
  OBVIOUS
<1>4. ~answered
  BY DEF Reading
<1>5. ASSUME NEW l \in 1 .. 10, BeforeItem(l)', ~answered' PROVE Reading'
  BY <1>5 DEF Reading
<1>6. pointer["eeprom"] \in Nat /\ DOMAIN pointer = Chips /\ "eeprom" \in Chips
  BY DEF ChipTypes, Chips
<1>7. CASE DoPin
  <2>1. k = 1 \/ k = 2
    BY <1>2, <1>3, <1>7, Boot1Kinds DEF DoPin, NextIs
  <2>2. /\ todo' = Tail(todo) /\ lms_reset' = (Head(todo).v = 6)
        /\ UNCHANGED <<answered, got, storing>>
    BY <1>7 DEF DoPin, NextIs, i2cVars, chipVars
  <2>3. k = 1 => lms_reset' = TRUE
    BY <1>2, <2>2, Boot1Kinds
  <2>4. k = 2 => lms_reset' = FALSE
    <3>1. k = 2 => Head(todo).v = 7
      BY <1>2, Boot1Kinds
    <3>2. Head(todo).v = 7 => (Head(todo).v = 6) = FALSE
      OBVIOUS
    <3> QED
      BY <2>2, <3>1, <3>2
  <2>5. FromItem(todo', k + 1) /\ got' = <<>>
    BY <1>1, <1>2, <2>1, <2>2 DEF BeforeItem
  <2>6. k = 1 => BeforeItem(2)'
    BY <2>3, <2>5 DEF BeforeItem
  <2>7. k = 2 => BeforeItem(3)'
    BY <2>4, <2>5 DEF BeforeItem
  <2> QED
    BY <1>4, <1>5, <2>1, <2>2, <2>6, <2>7
<1>8. CASE DoI2cInit
  <2>1. k = 3
    BY <1>2, <1>3, <1>8, Boot1Kinds DEF DoI2cInit, NextIs
  <2>2. /\ todo' = Tail(todo) /\ UNCHANGED <<answered, got, storing, lms_reset>>
    BY <1>8 DEF DoI2cInit, NextIs, I2C_init, chipVars, boardVars
  <2>3. FromItem(todo', 4) /\ got' = <<>> /\ lms_reset' = FALSE
    BY <1>1, <1>2, <2>1, <2>2 DEF BeforeItem
  <2>4. BeforeItem(4)'
    BY <2>3 DEF BeforeItem
  <2> QED
    BY <1>4, <1>5, <2>2, <2>4
<1>9. CASE DoStart
  <2>1. k = 4 \/ k = 7
    BY <1>2, <1>3, <1>9, Boot1Kinds DEF DoStart, NextIs
  <2>2. /\ todo' = Tail(todo) /\ Head(todo).to = "eeprom"
        /\ UNCHANGED <<answered, got, lms_reset, storing, pointer>>
    BY <1>2, <1>9, <2>1, Boot1Kinds DEF DoStart, NextIs, I2C_start, boardVars
  <2>3. chip' = "eeprom" /\ count' = 0
    BY <1>9, <2>2 DEF DoStart, I2C_start, MayAck
  <2>4. FromItem(todo', k + 1) /\ got' = <<>> /\ lms_reset' = FALSE
    BY <1>1, <1>2, <2>1, <2>2 DEF BeforeItem
  <2>5. k = 4 => BeforeItem(5)'
    BY <2>3, <2>4 DEF BeforeItem
  <2>6. k = 7 => BeforeItem(8)'
    <3>1. k = 7 => pointer'["eeprom"] = DAC_VAL_ADDR
      BY <1>1, <2>2 DEF BeforeItem
    <3> QED
      BY <2>3, <2>4, <3>1 DEF BeforeItem
  <2> QED
    BY <1>4, <1>5, <2>1, <2>2, <2>5, <2>6
<1>10. CASE DoWrite
  <2>1. k = 5 \/ k = 6
    BY <1>2, <1>3, <1>10, Boot1Kinds DEF DoWrite, NextIs
  <2>2. chip = "eeprom" /\ Head(todo).last = FALSE /\ got = <<>> /\ lms_reset = FALSE
    BY <1>1, <1>2, <2>1, Boot1Kinds DEF BeforeItem
  <2>3. /\ todo' = Tail(todo) /\ UNCHANGED <<answered, got, lms_reset>>
        /\ chip' = "eeprom" /\ count' = count + 1 /\ ~storing'
    BY <1>10, <2>2 DEF DoWrite, NextIs, I2C_write, WithStop, boardVars
  <2>4. count = 1 => pointer' = [pointer EXCEPT !["eeprom"] = Head(todo).byte]
    BY <1>10, <2>2 DEF DoWrite, I2C_write, TakeByte
  <2>5. FromItem(todo', k + 1)
    BY <1>2, <2>3
  <2>6. k = 5 => BeforeItem(6)'
    <3>1. k = 5 => count' = 1
      BY <1>1, <2>3 DEF BeforeItem
    <3> QED
      BY <2>2, <2>3, <2>5, <3>1 DEF BeforeItem
  <2>7. k = 6 => BeforeItem(7)'
    <3>1. k = 6 => pointer'["eeprom"] = DAC_VAL_ADDR
      BY <1>1, <1>2, <1>6, <2>4, Boot1Kinds DEF BeforeItem
    <3> QED
      BY <2>2, <2>3, <2>5, <3>1 DEF BeforeItem
  <2> QED
    BY <1>4, <1>5, <2>1, <2>3, <2>6, <2>7
<1>11. CASE DoRead
  <2>1. k = 8 \/ k = 9
    BY <1>2, <1>3, <1>11, Boot1Kinds DEF DoRead, NextIs
  <2>2. chip = "eeprom" /\ lms_reset = FALSE
    BY <1>1, <2>1 DEF BeforeItem
  <2>3. /\ todo' = Tail(todo) /\ UNCHANGED <<answered, lms_reset, storing, eeprom>>
        /\ chip' = (IF Head(todo).last THEN NoChip ELSE chip)
        /\ pointer' = [pointer EXCEPT !["eeprom"] = (pointer["eeprom"] + 1) % EEPROM_SIZE]
        /\ got' = Append(got, eeprom[pointer["eeprom"]])
    BY <1>11, <2>2 DEF DoRead, NextIs, I2C_read, WithStop, SentByte, boardVars
  <2>4. FromItem(todo', k + 1)
    BY <1>2, <2>3
  <2>5. k = 8 => BeforeItem(9)'
    <3>1. SUFFICES ASSUME k = 8 PROVE BeforeItem(9)'
      OBVIOUS
    <3>2. pointer["eeprom"] = DAC_VAL_ADDR /\ got = <<>> /\ Head(todo).last = FALSE
      BY <1>1, <1>2, <3>1, Boot1Kinds DEF BeforeItem
    <3>3. got' = <<eeprom'[DAC_VAL_ADDR]>> /\ chip' = "eeprom"
      BY <2>2, <2>3, <3>2
    <3>4. pointer'["eeprom"] = DAC_VAL_ADDR + 1
      <4>1. (DAC_VAL_ADDR + 1) % EEPROM_SIZE = DAC_VAL_ADDR + 1
        BY I2cAssumption, CommandsAssumption DEF Addresses
      <4> QED
        BY <1>6, <2>3, <3>2, <4>1
    <3> QED
      BY <2>2, <2>3, <2>4, <3>1, <3>3, <3>4 DEF BeforeItem
  <2>6. k = 9 => BeforeItem(10)'
    <3>1. SUFFICES ASSUME k = 9 PROVE BeforeItem(10)'
      OBVIOUS
    <3>2. /\ pointer["eeprom"] = DAC_VAL_ADDR + 1 /\ got = <<eeprom[DAC_VAL_ADDR]>>
          /\ Head(todo).last = TRUE
      BY <1>1, <1>2, <3>1, Boot1Kinds DEF BeforeItem
    <3>3. got'[1] = eeprom'[DAC_VAL_ADDR] /\ got'[2] = eeprom'[DAC_VAL_ADDR + 1]
      <4>1. ASSUME NEW x, NEW y PROVE Append(<<x>>, y)[1] = x /\ Append(<<x>>, y)[2] = y
        <5>1. <<x>> \in Seq({x, y}) /\ Len(<<x>>) = 1 /\ <<x>>[1] = x
          OBVIOUS
        <5> QED
          BY <5>1
      <4>2. /\ got' = Append(<<eeprom[DAC_VAL_ADDR]>>, eeprom[DAC_VAL_ADDR + 1])
            /\ eeprom' = eeprom
        BY <2>3, <3>2
      <4> QED
        BY <4>1, <4>2
    <3>4. chip' = NoChip
      BY <2>3, <3>2
    <3> QED
      BY <2>2, <2>3, <2>4, <3>1, <3>3, <3>4 DEF BeforeItem
  <2> QED
    BY <1>4, <1>5, <2>1, <2>3, <2>5, <2>6
<1>12. CASE UseEeprom
  <2>1. k = 10
    BY <1>2, <1>3, <1>12, Boot1Kinds DEF UseEeprom
  <2>2. /\ chip = NoChip /\ lms_reset = FALSE
        /\ got[1] = eeprom[DAC_VAL_ADDR] /\ got[2] = eeprom[DAC_VAL_ADDR + 1]
    BY <1>1, <2>1 DEF BeforeItem
  <2>3. /\ dac_val' = StartValue(got[1], got[2]) /\ todo' = Boot2(StartValue(got[1], got[2]))
        /\ UNCHANGED <<eeprom, chip, storing, lms_reset>>
    BY <1>12 DEF UseEeprom, i2cVars, masterVars, chipVars, boardVars
  <2>4. StoredValue' = StoredValue /\ dac_val' = StoredValue /\ todo' = Boot2(dac_val')
    BY <2>2, <2>3 DEF StoredValue, StartValue
  <2>5. /\ \A i \in 1 .. Len(todo') : Quiet(todo'[i], dac_val')
        /\ \E i \in 1 .. Len(todo') : IsDac(todo'[i])
    BY <2>4, Boot2List DEF BootList
  <2>6. ValueTaken'
    BY <2>2, <2>3, <2>4, <2>5 DEF ValueTaken, NoChip
  <2> QED
    BY <2>3, <2>6
<1>13. CASE DoSpi \/ DoDacVal \/ Respond
  BY <1>2, <1>3, <1>13, Boot1Kinds DEF DoSpi, DoDacVal, Respond, NextIs
<1> QED
  BY <1>7, <1>8, <1>9, <1>10, <1>11, <1>12, <1>13 DEF CmdFirmware

\* A step of the second part.
LEMMA ValueTakenStep ==
    ASSUME BusPlan, ChipTypes, ~storing, ValueTaken, CmdFirmware \/ DoPin
    PROVE  ~storing' /\ ValueTaken'
<1>1. IsList(todo)
  BY DEF BusPlan, ListInOrder
<1>2. ASSUME todo # <<>>
      PROVE  /\ Quiet(Head(todo), dac_val)
             /\ \A i \in 1 .. Len(Tail(todo)) : Quiet(Tail(todo)[i], dac_val)
             /\ (\E i \in 1 .. Len(todo) : IsDac(todo[i])) =>
                   IsDac(Head(todo)) \/ \E i \in 1 .. Len(Tail(todo)) : IsDac(Tail(todo)[i])
  <2>1. /\ Len(todo) \in Nat /\ Head(todo) = todo[1] /\ 1 \in 1 .. Len(todo)
        /\ \A i \in 1 .. Len(Tail(todo)) :
              i + 1 \in 1 .. Len(todo) /\ Tail(todo)[i] = todo[i + 1]
        /\ \A i \in 2 .. Len(todo) :
              i - 1 \in 1 .. Len(Tail(todo)) /\ todo[i] = Tail(todo)[i - 1]
    BY <1>1, <1>2, TailOf
  <2>2. \A i \in 1 .. Len(todo) : i = 1 \/ i \in 2 .. Len(todo)
    BY <2>1
  <2>3. \A i \in 1 .. Len(todo) : Quiet(todo[i], dac_val)
    BY DEF ValueTaken
  <2> QED
    BY <2>1, <2>2, <2>3
<1>3. ASSUME todo # <<>>, todo' = Tail(todo), UNCHANGED <<eeprom, dac_val, lms_reset>>,
             chip' # "eeprom",
             IF IsDac(Head(todo)) THEN dac' = dac_val ELSE dac' = dac
      PROVE  ValueTaken'
  <2>1. dac_val' = StoredValue' /\ lms_reset' = FALSE
    BY <1>3 DEF ValueTaken, StoredValue, StartValue
  <2>2. \A i \in 1 .. Len(todo') : Quiet(todo'[i], dac_val')
    BY <1>2, <1>3
  <2>3. dac' = dac_val' \/ \E i \in 1 .. Len(todo') : IsDac(todo'[i])
    BY <1>2, <1>3 DEF ValueTaken
  <2> QED
    BY <1>3, <2>1, <2>2, <2>3 DEF ValueTaken
<1>4. CASE DoSpi
  <2>1. /\ todo # <<>> /\ todo' = Tail(todo) /\ Head(todo).do = "spi"
        /\ dac' = (IF Head(todo).to = "dac" THEN DacAfter(Head(todo).bytes) ELSE dac)
        /\ UNCHANGED <<eeprom, dac_val, lms_reset, chip, storing>>
    BY <1>4 DEF DoSpi, NextIs, i2cVars, masterVars, chipVars
  <2>2. dac_val \in 0 .. 255
    <3>1. eeprom[DAC_VAL_ADDR] \in 0 .. 255
      BY CommandsAssumption DEF ChipTypes, Octets
    <3> QED
      BY <3>1, CommandsAssumption DEF ValueTaken, StoredValue, StartValue
  <2>3. IF IsDac(Head(todo)) THEN dac' = dac_val ELSE dac' = dac
    <3>1. CASE IsDac(Head(todo))
      <4>1. Head(todo).bytes = <<dac_val \div 4, (dac_val * 64) % 256>>
        BY <1>2, <2>1, <3>1 DEF Quiet
      <4>2. DacAfter(Head(todo).bytes) = dac_val
        BY <2>2, <4>1, DacTakes
      <4> QED
        BY <2>1, <3>1, <4>2 DEF IsDac
    <3>2. CASE ~IsDac(Head(todo))
      BY <2>1, <3>2 DEF IsDac
    <3> QED
      BY <3>1, <3>2
  <2> QED
    BY <1>3, <2>1, <2>3 DEF ValueTaken
<1>5. CASE DoStart
  <2>1. /\ todo # <<>> /\ todo' = Tail(todo) /\ Head(todo).do = "start"
        /\ chip' = Head(todo).to \/ chip' = NoChip
        /\ UNCHANGED <<eeprom, dac_val, lms_reset, dac, storing>>
    BY <1>5 DEF DoStart, NextIs, I2C_start, boardVars
  <2>2. Head(todo).to = "lm75" /\ ~IsDac(Head(todo))
    BY <1>2, <2>1 DEF Quiet, IsDac
  <2>3. chip' # "eeprom"
    BY <2>1, <2>2 DEF NoChip
  <2> QED
    BY <1>3, <2>1, <2>2, <2>3
<1>6. CASE DoWrite
  <2>1. /\ todo # <<>> /\ todo' = Tail(todo) /\ Head(todo).do = "write"
        /\ chip' = chip \/ chip' = NoChip
        /\ UNCHANGED <<eeprom, dac_val, lms_reset, dac>>
    BY <1>6 DEF DoWrite, NextIs, I2C_write, boardVars
  <2>2. ~storing' /\ chip' # "eeprom"
    BY <1>6, <2>1 DEF DoWrite, I2C_write, ValueTaken, NoChip
  <2>3. ~IsDac(Head(todo))
    BY <2>1 DEF IsDac
  <2> QED
    BY <1>3, <2>1, <2>2, <2>3
<1>7. CASE Respond
  <2>1. UNCHANGED <<eeprom, chip, storing, todo, dac_val, lms_reset, dac>>
    BY <1>7 DEF Respond, i2cVars, masterVars, chipVars, boardVars
  <2> QED
    BY <2>1 DEF ValueTaken, StoredValue, StartValue
<1>8. CASE DoRead \/ DoPin \/ DoDacVal \/ DoI2cInit \/ UseEeprom
  <2>1. todo # <<>> /\ Head(todo).do \notin {"spi", "start", "write"}
    BY <1>8 DEF DoRead, DoPin, DoDacVal, DoI2cInit, UseEeprom, NextIs
  <2> QED
    BY <1>2, <2>1 DEF Quiet
<1> QED
  BY <1>4, <1>5, <1>6, <1>7, <1>8 DEF CmdFirmware

\* The value of the EEPROM is on its way after every step.
LEMMA BootPlanStep ==
    ASSUME BusPlan, ChipTypes, BootPlan, CmdStep
    PROVE  BootPlan'
<1>1. CASE CmdFirmware \/ DoPin
  <2>1. cmd' = cmd
    BY <1>1 DEF CmdFirmware, DoSpi, DoStart, DoWrite, DoRead, DoPin, DoDacVal, DoI2cInit,
                UseEeprom, Respond
  <2>2. StartUp' = StartUp
    BY DEF StartUp, NoAnswer
  <2>3. CASE cmd = StartUp
    <3>1. ~storing /\ (Reading \/ ValueTaken)
      BY <2>3 DEF BootPlan
    <3> QED
      BY <1>1, <3>1, ReadingStep, ValueTakenStep DEF BootPlan
  <2>4. CASE cmd # StartUp
    BY <2>1, <2>2, <2>4 DEF BootPlan
  <2> QED
    BY <2>3, <2>4
<1>2. CASE EepromDone
  <2>1. storing /\ cmd' = cmd
    BY <1>2 DEF EepromDone, StoreDone, cpuVars
  <2>2. cmd # StartUp
    BY <2>1 DEF BootPlan
  <2> QED
    BY <2>1, <2>2 DEF BootPlan, StartUp, NoAnswer
<1>3. CASE CmdRestart
  <2>1. todo' = Boot1 /\ got' = <<>> /\ answered' = FALSE /\ storing' = storing /\ ~storing
    BY <1>3 DEF CmdRestart, i2cVars, chipVars
  <2>2. FromItem(todo', 1)
    BY <2>1, Boot1Items DEF FromItem
  <2>3. BeforeItem(1)'
    BY <2>1, <2>2 DEF BeforeItem
  <2> QED
    BY <2>1, <2>3 DEF BootPlan, Reading
<1>4. ASSUME NEW c, IsCall(c), Call(c) PROVE BootPlan'
  <2>1. cmd' = c /\ c # StartUp
    BY <1>4 DEF IsCall, Call, StartUp
  <2> QED
    BY <2>1 DEF BootPlan, StartUp, NoAnswer
<1> QED
  BY <1>1, <1>2, <1>3, <1>4 DEF CmdStep

\* All of it.
CmdInv == BusPlan /\ TcxoPlan /\ ChipTypes /\ BootPlan

\* It holds when the board is switched on ...
LEMMA CmdInvInit == CmdInit => CmdInv
  BY BusPlanInit, TcxoPlanInit, ChipTypesInit, BootPlanInit DEF CmdInv

\* ... and after every step of a command, of start-up, of the EEPROM or of the
\* host, and after a restart.
LEMMA CmdInvStep == CmdInv /\ CmdStep => CmdInv'
  BY BusPlanStep, TcxoPlanStep, ChipTypesStep, BootPlanStep DEF CmdInv

-----------------------------------------------------------------------------
(* The commands in the program.                                            *)

\* Every step of the program is one of the command loop or leaves it alone.
LEMMA FirmCmdStep ==
    ASSUME [FirmNext]_allVars
    PROVE  CmdStep \/ UNCHANGED cmdVars
<1>1. CASE UNCHANGED allVars
  BY <1>1 DEF allVars
<1>2. CASE LoopStep
  BY <1>2 DEF LoopStep, Pin, CmdStep
<1>3. CASE McuStep \/ UpdateStep \/ HostPortion \/ HostUpdate
  BY <1>3 DEF McuStep, UpdateStep, HostPortion, HostUpdate
<1>4. CASE ChipStep
  BY <1>4 DEF ChipStep, CmdStep
<1>5. CASE HostCall
  <2>1. PICK c \in CALLS : Call(c)
    BY <1>5 DEF HostCall
  <2>2. IsCall(c)
    BY CallsAssumption DEF IsCall
  <2> QED
    BY <2>1, <2>2 DEF CmdStep
<1>6. CASE Restart
  BY <1>6 DEF Restart, CmdStep
<1> QED
  BY <1>1, <1>2, <1>3, <1>4, <1>5, <1>6 DEF FirmNext

\* Nothing else touches what CmdInv is about.
LEMMA CmdInvStutter ==
    ASSUME CmdInv, UNCHANGED cmdVars
    PROVE  CmdInv'
<1>1. /\ cmd' = cmd /\ todo' = todo /\ got' = got /\ answered' = answered
      /\ dac_val' = dac_val /\ lms_reset' = lms_reset /\ dac' = dac /\ adf' = adf
      /\ open' = open /\ chip' = chip /\ count' = count /\ eeprom' = eeprom
      /\ pointer' = pointer /\ written' = written /\ storing' = storing
  BY DEF cmdVars, cpuVars, boardVars, i2cVars, masterVars, chipVars
<1>2. BusPlan'
  BY <1>1 DEF CmdInv, BusPlan
<1>3. TcxoPlan'
  BY <1>1 DEF CmdInv, TcxoPlan, TcxoExclusive
<1>4. ChipTypes'
  BY <1>1 DEF CmdInv, ChipTypes
<1>5. BootPlan'
  <2>1. Reading' = Reading
    BY <1>1 DEF Reading, BeforeItem
  <2>2. ValueTaken' = ValueTaken
    BY <1>1 DEF ValueTaken, StoredValue, StartValue
  <2> QED
    BY <1>1, <2>1, <2>2 DEF CmdInv, BootPlan, StartUp, NoAnswer
<1> QED
  BY <1>2, <1>3, <1>4, <1>5 DEF CmdInv

\* The plans hold in the program.
THEOREM FirmCmdInvariant == FirmSpec => []CmdInv
<1>1. FirmInit => CmdInv
  BY CmdInvInit DEF FirmInit
<1>2. CmdInv /\ [FirmNext]_allVars => CmdInv'
  BY FirmCmdStep, CmdInvStep, CmdInvStutter
<1> QED
  BY <1>1, <1>2, PTL DEF FirmSpec

\* The DAC and the ADF never drive the TCXO together, whatever the host sends, also
\* when a restart cuts a command between them (main.c lines 173-231, 296-297,
\* 576-581 and 678-682).
THEOREM TcxoHasOneDriver == FirmSpec => []TcxoExclusive
<1>1. CmdInv => TcxoExclusive
  BY DEF CmdInv, TcxoPlan
<1> QED
  BY <1>1, FirmCmdInvariant, PTL

\* When a command is answered its last transfer was closed, also a transfer that a
\* restart had cut (i2c_opencores.c lines 105-183).
THEOREM BusIsReleased == FirmSpec => []BusReleased
<1>1. CmdInv => BusReleased
  BY DEF CmdInv, BusPlan, BusReleased, SomeCloses
<1> QED
  BY <1>1, FirmCmdInvariant, PTL

\* After start-up the DAC drives what the EEPROM holds, also when start-up is the
\* second one and a command wrote the value before (main.c lines 284-297).
THEOREM DacStartsStored == FirmSpec => []StartsWithStored
<1>1. ASSUME CmdInv PROVE StartsWithStored
  <2>1. SUFFICES ASSUME answered, cmd = StartUp
                 PROVE  /\ lms_reset = FALSE /\ dac = dac_val
                        /\ dac = IF eeprom[DAC_VAL_ADDR] = BLANK
                                    /\ eeprom[DAC_VAL_ADDR + 1] = BLANK
                                 THEN DAC_DEFF_VAL ELSE eeprom[DAC_VAL_ADDR]
    BY DEF StartsWithStored
  <2>2. ValueTaken /\ todo = <<>>
    BY <1>1, <2>1 DEF CmdInv, BootPlan, BusPlan, Reading
  <2>3. lms_reset = FALSE /\ dac = dac_val /\ dac_val = StoredValue
    BY <2>2 DEF ValueTaken
  <2> DEFINE lo == eeprom[DAC_VAL_ADDR]
             hi == eeprom[DAC_VAL_ADDR + 1]
  <2>4. <<lo, hi>> = <<BLANK, BLANK>> <=> lo = BLANK /\ hi = BLANK
    <3> HIDE DEF lo, hi
    <3> QED
      OBVIOUS
  <2> QED
    BY <2>3, <2>4 DEF StoredValue, StartValue
<1> QED
  BY <1>1, FirmCmdInvariant, PTL
=============================================================================
