----------------------------- MODULE FlashProg ------------------------------
(***************************************************************************)
(* Writing a bitstream to flash: CMD_ALTERA_FPGA_GW_WR, programming mode 1,*)
(* in main.c with FlashSpiEraseSector, FlashSpiTransfer and                *)
(* CyFxSpiWaitForStatus of spi_flash_lib.c (src/software/lms_ctr_app).     *)
(* The host sends the bitstream in portions and an empty one at the end,   *)
(* repeats a portion that was answered with an error, and may start again  *)
(* with another bitstream at any time.  A step of the firmware is one SPI  *)
(* command to the flash and what the code does up to the next one.         *)
(***************************************************************************)
EXTENDS Integers

-----------------------------------------------------------------------------
(* The SPI flash that holds the bitstream, external, as far as the code    *)
(* relies on it.  A program or an erase needs the write enable latch and   *)
(* keeps the flash busy for a time it does not tell; a busy flash answers  *)
(* status reads and ignores all else.  Programming can only write erased   *)
(* bytes.                                                                  *)

CONSTANTS PAGE, SECTOR, PAGES   \* bytes of a page, pages of a sector, pages

ASSUME FlashAssumption ==
    PAGE \in Nat \ {0} /\ SECTOR \in Nat \ {0} /\ PAGES \in Nat \ {0}

VARIABLES
    mem,        \* bytes of each page
    busy,       \* what the flash is busy with
    wel         \* write enable latch

flashVars == <<mem, busy, wel>>

Offsets == 0 .. PAGE - 1

\* Bytes are pairs; these three belong to no bitstream.
OldByte == <<0, 0>>
ErasedByte == <<0, 1>>
GarbageByte == <<0, 2>>

PageOf(byte) == [o \in Offsets |-> byte]

FlashInit == mem = [p \in 0 .. PAGES - 1 |-> PageOf(OldByte)] /\ busy = "no" /\ wel = FALSE

WriteEnable == /\ wel' = (wel \/ busy = "no")
               /\ UNCHANGED <<mem, busy>>

Overwrite(page, data) ==
    [o \in Offsets |-> IF page[o] \in {ErasedByte, data[o]} THEN data[o] ELSE GarbageByte]

PageProgram(p, data) ==
    IF busy = "no" /\ wel
    THEN /\ mem' = [mem EXCEPT ![p] = Overwrite(@, data)]
         /\ busy' = "program" /\ wel' = FALSE
    ELSE UNCHANGED flashVars

SectorErase(s) ==
    IF busy = "no" /\ wel
    THEN /\ mem' = [p \in DOMAIN mem |-> IF p \div SECTOR = s THEN PageOf(ErasedByte) ELSE mem[p]]
         /\ busy' = "erase" /\ wel' = FALSE
    ELSE UNCHANGED flashVars

FlashFinish == busy # "no" /\ busy' = "no" /\ UNCHANGED <<mem, wel>>

-----------------------------------------------------------------------------
(* The firmware and the host.                                              *)

CONSTANTS
    PORTION,            \* bytes of a portion
    SIZES,              \* bytes of the bitstreams
    FPGA_SIZE,          \* largest bitstream the firmware accepts
    STATUS_RETRIES, STATUS_RETRIES_ERASE,
    SLOW_HOST,          \* the host sends no portion while a page is programmed,
                        \* and starts no bitstream while a sector is erased
    MAX_IMAGES          \* bound: bitstreams the host starts to send

ASSUME ProgAssumption ==
    /\ PORTION \in 1 .. PAGE /\ SIZES \subseteq Nat \ {0} /\ FPGA_SIZE \in Nat
    /\ \A n \in SIZES : PAGE * PAGES >= n + PAGE
    /\ STATUS_RETRIES \in Nat /\ STATUS_RETRIES_ERASE \in Nat
    /\ SLOW_HOST \in BOOLEAN /\ MAX_IMAGES \in Nat

VARIABLES
    step,               \* the SPI command that is next, or "idle"
    flash_page, flash_page_data_cnt, flash_data_counter_to_copy, fpga_byte,
    flash_page_data,    \* the page under construction
    retries, status,    \* of the flash functions
    flash_reply,        \* status field of the last answer
    image, size,        \* host: which bitstream, and its bytes
    portion, sent       \* host: the last portion, bytes sent with it and before

deviceVars == <<step, flash_page, flash_page_data_cnt, flash_data_counter_to_copy,
                fpga_byte, flash_page_data, retries, status, flash_reply>>
hostVars == <<image, size, portion, sent>>
progVars == <<flashVars, deviceVars, hostVars>>

Least(a, b) == IF a < b THEN a ELSE b

\* A byte is named by its bitstream, from 1, and its place in it.
Byte(img, i) == <<img, i>>

\* A portion of k bytes ends at byte n.
Portion(img, n, k) == [j \in 0 .. k - 1 |-> Byte(img, n - k + j)]

\* Bytes of portion p: the portion after the last byte is empty.
Size(n, p) == IF p * PORTION < n THEN Least(PORTION, n - p * PORTION) ELSE 0
DataCnt == Size(size, portion)
DataField == Portion(image, sent, DataCnt)

\* memcpy of k bytes from the start of the data field
Copy(page, at, data, k) ==
    [o \in Offsets |-> IF o \in at .. at + k - 1 THEN data[o - at] ELSE page[o]]

ProgInit ==
    /\ FlashInit
    /\ step = "idle" /\ flash_page = 0 /\ flash_page_data_cnt = 0
    /\ flash_data_counter_to_copy = 0 /\ fpga_byte = 0
    /\ flash_page_data = PageOf(OldByte) /\ retries = 0 /\ status = 0
    /\ flash_reply = "completed"
    /\ image = 0 /\ size = 0 /\ portion = 0 /\ sent = 0

-----------------------------------------------------------------------------
(* The firmware.                                                           *)

\* bytes on the page after it was written
Kept(cnt) == 0

\* The end of the handler: the rest of a portion that did not fit, the count
\* of bytes and the answer.  cnt is flash_page_data_cnt so far.  The size and the
\* autoload flag that the code then leaves at the start of the page (lines 818-819)
\* are left out: what is sent next fills the page from there.
EndPortion(page, cnt, copied, total, data, k) ==
    LET rest == k - copied
    IN /\ IF k > copied
          THEN /\ flash_page_data' = Copy(page, cnt, data, Least(k, PAGE - cnt))
               /\ flash_page_data_cnt' = cnt + rest
               /\ flash_data_counter_to_copy' = rest
          ELSE /\ flash_page_data' = page
               /\ flash_page_data_cnt' = cnt
               /\ flash_data_counter_to_copy' = copied
       /\ fpga_byte' = total + k
       /\ flash_reply' = IF total + k <= FPGA_SIZE THEN "completed" ELSE "error"
       /\ step' = "idle"

\* Fault: the unfinished last page is not written.
Finished_Not(n, k) == n

\* The bytes that count as on the page after a portion of k bytes: the empty
\* portion finishes the page.
Finished(n, k) == IF k = 0 /\ n > 0 THEN PAGE ELSE n

\* A portion p of k bytes arrives: it fills the page, and a full page, or the
\* last one, is written.
Receive(p, data, k) ==
    LET cnt == IF p = 0 THEN 0 ELSE flash_page_data_cnt
        free == PAGE - cnt
        copied == IF free > 0 THEN Least(free, k)
                  ELSE IF p = 0 THEN 0 ELSE flash_data_counter_to_copy
        filled == IF free > 0 THEN Copy(flash_page_data, cnt, data, copied)
                  ELSE flash_page_data
        now == IF free > 0 THEN cnt + copied ELSE cnt
        full == Finished(now, k)
        fp == IF p = 0 THEN 0 ELSE flash_page
        total == IF p = 0 THEN 0 ELSE fpga_byte
    IN /\ flash_page' = fp
       /\ status' = 0 /\ retries' = 0
       /\ IF full >= PAGE
          THEN /\ step' = IF fp % SECTOR = 0 THEN "erase_enable" ELSE "enable"
               /\ flash_page_data' = filled /\ flash_page_data_cnt' = full
               /\ flash_data_counter_to_copy' = copied
               /\ fpga_byte' = total
               /\ UNCHANGED flash_reply
          ELSE EndPortion(filled, full, copied, total, data, k)
       /\ UNCHANGED flashVars

\* FlashSpiEraseSector
EraseEnable ==
    /\ step = "erase_enable" /\ step' = "erase"
    /\ WriteEnable
    /\ UNCHANGED <<hostVars, flash_page, flash_page_data_cnt, flash_data_counter_to_copy,
                   fpga_byte, flash_page_data, retries, status, flash_reply>>

Erase ==
    /\ step = "erase" /\ step' = "erase_status"
    /\ SectorErase(flash_page \div SECTOR)
    /\ UNCHANGED <<hostVars, flash_page, flash_page_data_cnt, flash_data_counter_to_copy,
                   fpga_byte, flash_page_data, retries, status, flash_reply>>

EraseStatus ==
    /\ step = "erase_status"
    /\ \/ /\ retries >= STATUS_RETRIES_ERASE
          /\ status' = 1 /\ step' = "enable" /\ retries' = 0
       \/ /\ retries < STATUS_RETRIES_ERASE /\ busy = "no"
          /\ status' = 0 /\ step' = "enable" /\ retries' = 0
       \/ /\ retries < STATUS_RETRIES_ERASE /\ busy # "no"
          /\ retries' = retries + 1 /\ UNCHANGED <<status, step>>
    /\ UNCHANGED <<flashVars, hostVars, flash_page, flash_page_data_cnt,
                   flash_data_counter_to_copy, fpga_byte, flash_page_data, flash_reply>>

\* Fault: the tries are not counted while the flash is busy.
Retry_Forever == IF busy = "no" THEN retries + 1 ELSE retries

\* one more try of CyFxSpiWaitForStatus
Retry == retries + 1

\* CyFxSpiWaitForStatus, the write enable and the status read
Enable ==
    /\ step = "enable" /\ step' = "status"
    /\ WriteEnable
    /\ UNCHANGED <<hostVars, flash_page, flash_page_data_cnt, flash_data_counter_to_copy,
                   fpga_byte, flash_page_data, retries, status, flash_reply>>

\* Fault: an error of the flash functions does not reach the answer.
Failed_Ignored == "completed"

\* the answer when an erase or program command went wrong
Failed == "error"

Status ==
    /\ step = "status"
    /\ \/ /\ retries >= STATUS_RETRIES
          /\ flash_reply' = Failed /\ status' = status + 1 /\ step' = "idle" /\ UNCHANGED retries
       \/ /\ retries < STATUS_RETRIES
          /\ retries' = Retry
          /\ step' = IF busy = "no" /\ wel THEN "program" ELSE "enable"
          /\ UNCHANGED <<flash_reply, status>>
    /\ UNCHANGED <<flashVars, hostVars, flash_page, flash_page_data_cnt,
                   flash_data_counter_to_copy, fpga_byte, flash_page_data>>

\* The page program command of FlashSpiTransfer, and the rest of the handler.
Program ==
    /\ step = "program"
    /\ PageProgram(flash_page, flash_page_data)
    /\ IF status # 0
       THEN /\ flash_reply' = Failed /\ step' = "idle"
            /\ UNCHANGED <<flash_page, flash_page_data_cnt, flash_data_counter_to_copy,
                           fpga_byte, flash_page_data>>
       ELSE /\ flash_page' = flash_page + 1
            /\ EndPortion(flash_page_data, Kept(flash_page_data_cnt),
                      flash_data_counter_to_copy, fpga_byte, DataField, DataCnt)
    /\ UNCHANGED <<hostVars, retries, status>>

-----------------------------------------------------------------------------
(* The host.                                                               *)

Ready == step = "idle" /\ (SLOW_HOST => busy # "program")

AtEnd == DataCnt = 0 /\ image > 0

\* the next portion, after a completed one
Continue ==
    /\ Ready /\ flash_reply = "completed" /\ image > 0 /\ ~AtEnd
    /\ LET k == Size(size, portion + 1)
       IN /\ Receive(portion + 1, Portion(image, sent + k, k), k)
          /\ portion' = portion + 1 /\ sent' = sent + k /\ UNCHANGED <<image, size>>

\* the same portion once more, after an error; bound: not once the bitstream
\* is too large, when no portion is ever completed again
Repeat ==
    /\ Ready /\ flash_reply = "error" /\ fpga_byte <= FPGA_SIZE
    /\ Receive(portion, DataField, DataCnt)
    /\ UNCHANGED hostVars

\* a bitstream from its beginning
Begin ==
    /\ Ready /\ (SLOW_HOST => busy = "no") /\ image < MAX_IMAGES
    /\ \E n \in SIZES :
          /\ Receive(0, Portion(image + 1, Size(n, 0), Size(n, 0)), Size(n, 0))
          /\ portion' = 0 /\ sent' = Size(n, 0) /\ image' = image + 1 /\ size' = n

FlashReady == FlashFinish /\ UNCHANGED <<deviceVars, hostVars>>

FlashFirmware == EraseEnable \/ Erase \/ EraseStatus \/ Enable \/ Status \/ Program

ProgNext == FlashFirmware \/ Continue \/ Repeat \/ Begin \/ FlashReady

ProgSpec == ProgInit /\ [][ProgNext]_progVars

-----------------------------------------------------------------------------

InFlash(i) == mem[i \div PAGE][i % PAGE] = Byte(image, i)
OnPage(i) == flash_page_data[i % PAGE] = Byte(image, i)

\* A portion answered with "completed" is kept, with all before it: the pages
\* written so far are in flash, unharmed by the erase of later sectors, and the
\* bytes after them are on the page under construction (lines 757-810).
Confirmed ==
    step = "idle" /\ flash_reply = "completed" /\ image > 0 =>
        \A i \in 0 .. sent - 1 : IF i < flash_page * PAGE THEN InFlash(i) ELSE OnPage(i)

\* Once the empty portion is answered with "completed" the flash holds the
\* whole bitstream, its unfinished last page too, and it is none of more than
\* FPGA_SIZE bytes (lines 769-773 and 812-827).
ImageStored ==
    step = "idle" /\ flash_reply = "completed" /\ AtEnd =>
        size <= FPGA_SIZE /\ \A i \in 0 .. size - 1 : InFlash(i)
=============================================================================
