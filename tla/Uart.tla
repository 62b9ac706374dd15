-------------------------------- MODULE Uart --------------------------------
(***************************************************************************)
(* The interrupt driven driver of the UART (altera_avalon_uart_*.c, fast   *)
(* version) on its core (lms_ctr_uart.v).  A program calls read, write and *)
(* close; the interrupt handler runs between any two of its steps, and     *)
(* characters come and go on the line at any time.  Sections with          *)
(* interrupts disabled are one step.  The core has no flow control         *)
(* (UART_USE_CTS_RTS 0): CTS and DCTS read 0, and what the driver does for *)
(* them is left out.                                                       *)
(***************************************************************************)
EXTENDS Integers, Sequences

CONSTANTS
    BUF_LEN,            \* ALT_AVALON_UART_BUF_LEN, a power of two
    MAX_RX, MAX_BAD,    \* bounds: characters that come, and come with a framing error
    MAX_TX,             \* bound: characters written
    MAX_UART_CALLS      \* bound: calls

ASSUME UartAssumption == BUF_LEN \in {2, 4, 8, 16, 32, 64}

VARIABLES
    rx_start, rx_end, rx_buf, tx_start, tx_end, tx_buf, ctrl,   \* altera_avalon_uart_state
    control, rx_char_ready, rx_data, framing_error,             \* the core
    tx_ready, tx_data, tx_shift,
    isr, status,        \* handler: its next step, the status it has read
    call, at, count, len, nonblock, next,       \* program: call, next step, its variables
    came, bad,      \* characters that came, those with a framing error
    got, written, out, uart_calls,  \* history: characters, by number
    lost            \* history: the handler has run over characters in the buffer

ringVars == <<rx_start, rx_end, rx_buf, tx_start, tx_end, tx_buf>>
rxCore == <<rx_char_ready, rx_data, framing_error>>
txCore == <<tx_ready, tx_data, tx_shift>>
isrVars == <<isr, status>>
callVars == <<call, at, count, len, nonblock, next, uart_calls>>
uartVars == <<ringVars, ctrl, control, rxCore, txCore, isrVars, callVars, came, bad, got, written, out, lost>>

Slot(i) == i % BUF_LEN

\* altera_avalon_uart_init
UartInit ==
    /\ rx_start = 0 /\ rx_end = 0 /\ tx_start = 0 /\ tx_end = 0
    /\ rx_buf = [i \in 0 .. BUF_LEN |-> 0] /\ tx_buf = [i \in 0 .. BUF_LEN |-> 0]
    /\ ctrl = {"RRDY"} /\ control = {"RRDY"}
    /\ rx_char_ready = FALSE /\ rx_data = 0 /\ framing_error = FALSE
    /\ tx_ready = TRUE /\ tx_data = 0 /\ tx_shift = 0
    /\ isr = "none" /\ status = {}
    /\ call = "none" /\ at = "none" /\ count = 0 /\ len = 0 /\ nonblock = FALSE /\ next = 0
    /\ came = 0 /\ bad = 0 /\ got = <<>> /\ written = 0 /\ out = <<>> /\ uart_calls = 0 /\ lost = FALSE

-----------------------------------------------------------------------------
(* The core.                                                               *)

\* a character comes: one that was not read is overwritten, an error is kept
Arrive(broken) ==
    /\ came < MAX_RX /\ came' = came + 1
    /\ rx_data' = came' /\ rx_char_ready' = TRUE /\ framing_error' = (framing_error \/ broken)
    /\ bad' = IF broken THEN bad + 1 ELSE bad
    /\ UNCHANGED <<lost, ringVars, ctrl, control, txCore, isrVars, callVars, got, written, out>>

\* the transmit register goes to the shift register, 0 when that is empty
LoadShifter ==
    /\ ~tx_ready /\ tx_shift = 0
    /\ tx_shift' = tx_data /\ tx_ready' = TRUE
    /\ UNCHANGED <<lost, ringVars, ctrl, control, rxCore, tx_data, isrVars, callVars, came, bad, got, written, out>>

SentOut ==
    /\ tx_shift # 0
    /\ out' = Append(out, tx_shift) /\ tx_shift' = 0
    /\ UNCHANGED <<lost, ringVars, ctrl, control, rxCore, tx_ready, tx_data, isrVars, callVars,
                   came, bad, got, written>>

Irq == ("RRDY" \in control /\ rx_char_ready) \/ ("TRDY" \in control /\ tx_ready)

-----------------------------------------------------------------------------
(* The handler, altera_avalon_uart_irq: the program waits while it runs.   *)

Interrupt ==
    /\ isr = "none" /\ Irq /\ isr' = "clear"
    /\ status' = (IF rx_char_ready THEN {"RRDY"} ELSE {}) \cup (IF tx_ready THEN {"TRDY"} ELSE {})
                 \cup (IF framing_error THEN {"FE"} ELSE {})
    /\ UNCHANGED <<lost, ringVars, ctrl, control, rxCore, txCore, callVars, came, bad, got, written, out>>

ClearStatus ==
    /\ isr = "clear" /\ framing_error' = FALSE
    /\ isr' = IF "RRDY" \in status THEN "rx" ELSE IF "TRDY" \in status THEN "tx" ELSE "none"
    /\ UNCHANGED <<lost, ringVars, ctrl, control, rx_char_ready, rx_data, txCore, status, callVars,
                   came, bad, got, written, out>>

\* altera_avalon_uart_rxirq
ReceiveIrq ==
    /\ isr = "rx" /\ isr' = IF "TRDY" \in status THEN "tx" ELSE "none"
    /\ IF "FE" \in status
       THEN UNCHANGED <<lost, rx_buf, rx_end, rx_char_ready, ctrl, control>>
       ELSE /\ rx_buf' = [rx_buf EXCEPT ![rx_end] = rx_data] /\ rx_char_ready' = FALSE
            /\ rx_end' = Slot(rx_end + 1) /\ lost' = (lost \/ rx_end' = rx_start)
            /\ IF Slot(rx_end' + 1) = rx_start
               THEN ctrl' = ctrl \ {"RRDY"} /\ control' = ctrl'
               ELSE UNCHANGED <<ctrl, control>>
    /\ UNCHANGED <<rx_start, tx_start, tx_end, tx_buf, rx_data, framing_error, txCore, status,
                   callVars, came, bad, got, written, out>>

\* altera_avalon_uart_txirq: a character, if there is one, to the core
TransmitIrq ==
    /\ isr = "tx" /\ isr' = "control"
    /\ IF tx_start # tx_end
       THEN /\ tx_data' = tx_buf[tx_start] /\ tx_ready' = FALSE
            /\ tx_start' = Slot(tx_start + 1)
            /\ ctrl' = IF tx_start' = tx_end THEN ctrl \ {"TRDY"} ELSE ctrl \cup {"TRDY"}
       ELSE ctrl' = ctrl \ {"TRDY"} /\ UNCHANGED <<tx_data, tx_ready, tx_start>>
    /\ UNCHANGED <<lost, rx_start, rx_end, rx_buf, tx_end, tx_buf, control, rxCore, tx_shift, status,
                   callVars, came, bad, got, written, out>>

TransmitControl ==
    /\ isr = "control" /\ isr' = "none" /\ control' = ctrl
    /\ UNCHANGED <<lost, ringVars, ctrl, rxCore, txCore, status, callVars, came, bad, got, written, out>>

Handler == Interrupt \/ ClearStatus \/ ReceiveIrq \/ TransmitIrq \/ TransmitControl

-----------------------------------------------------------------------------
(* The program.                                                            *)

Foreground == isr = "none"

\* with interrupts disabled
Enable(irqs) == ctrl' = ctrl \cup irqs /\ control' = ctrl'

Call(what, n, nb) ==
    /\ Foreground /\ call = "none" /\ uart_calls < MAX_UART_CALLS /\ uart_calls' = uart_calls + 1
    /\ call' = what /\ nonblock' = nb /\ len' = n
    /\ at' = CASE what = "read" -> "rtest" [] what = "write" -> "wnext" [] what = "close" -> "ctest"
    /\ count' = IF what = "write" THEN n ELSE 0
    /\ UNCHANGED <<lost, ringVars, ctrl, control, rxCore, txCore, isrVars, next, came, bad, got, written, out>>

Step(from, to) == Foreground /\ at = from /\ at' = to

RxPending == rx_start # rx_end

\* altera_avalon_uart_read
ReadTest ==
    /\ Foreground /\ at = "rtest"
    /\ at' = IF count < len /\ RxPending THEN "rcopy"
             ELSE IF count = 0 /\ ~RxPending /\ ~nonblock THEN "rwait"
             ELSE "rdone"
    /\ UNCHANGED <<lost, ringVars, ctrl, control, rxCore, txCore, isrVars, call, count, len, nonblock, next,
                   uart_calls, came, bad, got, written, out>>

ReadCopy ==
    /\ Step("rcopy", "radvance")
    /\ count' = count + 1 /\ got' = Append(got, rx_buf[rx_start])
    /\ UNCHANGED <<lost, ringVars, ctrl, control, rxCore, txCore, isrVars, call, len, nonblock, next,
                   uart_calls, came, bad, written, out>>

ReadAdvance ==
    /\ Step("radvance", "rtest")
    /\ rx_start' = Slot(rx_start + 1)
    /\ UNCHANGED <<lost, rx_end, rx_buf, tx_start, tx_end, tx_buf, ctrl, control, rxCore, txCore, isrVars,
                   call, count, len, nonblock, next, uart_calls, came, bad, got, written, out>>

\* read interrupts are enabled "to avoid deadlock", then the ring looked at again
ReadWait ==
    /\ Step("rwait", IF len = 0 THEN "rdone" ELSE "rtest") /\ Enable({"RRDY"})
    /\ UNCHANGED <<lost, ringVars, rxCore, txCore, isrVars, call, count, len, nonblock, next,
                   uart_calls, came, bad, got, written, out>>

ReadDone ==
    /\ Step("rdone", "none") /\ call' = "none" /\ Enable({"RRDY"})
    /\ UNCHANGED <<lost, ringVars, rxCore, txCore, isrVars, count, len, nonblock, next,
                   uart_calls, came, bad, got, written, out>>

\* Fault: the last slot is filled too, and the buffer looks empty.
TxRoom_Always(slot) == TRUE

TxRoom(slot) == slot # tx_start

\* Fault: a write leaves the transmit interrupt as it is.
WriteEnables_Not == {}

\* "so that the circular buffer can drain"
WriteEnables == {"TRDY"}

\* altera_avalon_uart_write
WriteNext ==
    /\ Foreground /\ at = "wnext"
    /\ next' = Slot(tx_end + 1)
    /\ at' = IF count = 0 THEN "wdone"
             ELSE IF TxRoom(next') THEN "wput"
             ELSE IF nonblock THEN "wdone" ELSE "wwait"
    /\ UNCHANGED <<lost, ringVars, ctrl, control, rxCore, txCore, isrVars, call, count, len, nonblock,
                   uart_calls, came, bad, got, written, out>>

WriteWait ==
    /\ Step("wwait", "wspin") /\ Enable({"TRDY"})
    /\ UNCHANGED <<lost, ringVars, rxCore, txCore, isrVars, call, count, len, nonblock, next,
                   uart_calls, came, bad, got, written, out>>

\* wait for space to come free
WriteSpin ==
    /\ Step("wspin", "wput") /\ TxRoom(next)
    /\ UNCHANGED <<lost, ringVars, ctrl, control, rxCore, txCore, isrVars, call, count, len, nonblock, next,
                   uart_calls, came, bad, got, written, out>>

WritePut ==
    /\ Step("wput", "wadvance")
    /\ count' = count - 1 /\ written' = written + 1
    /\ tx_buf' = [tx_buf EXCEPT ![tx_end] = written']
    /\ UNCHANGED <<lost, rx_start, rx_end, rx_buf, tx_start, tx_end, ctrl, control, rxCore, txCore, isrVars,
                   call, len, nonblock, next, uart_calls, came, bad, got, out>>

WriteAdvance ==
    /\ Step("wadvance", "wnext") /\ tx_end' = next
    /\ UNCHANGED <<lost, rx_start, rx_end, rx_buf, tx_start, tx_buf, ctrl, control, rxCore, txCore, isrVars,
                   call, count, len, nonblock, next, uart_calls, came, bad, got, written, out>>

WriteDone ==
    /\ Step("wdone", "none") /\ call' = "none" /\ Enable(WriteEnables)
    /\ UNCHANGED <<lost, ringVars, rxCore, txCore, isrVars, count, len, nonblock, next,
                   uart_calls, came, bad, got, written, out>>

\* altera_avalon_uart_close
CloseTest ==
    /\ Step("ctest", "none") /\ (nonblock \/ tx_start = tx_end) /\ call' = "none"
    /\ UNCHANGED <<lost, ringVars, ctrl, control, rxCore, txCore, isrVars, count, len, nonblock, next,
                   uart_calls, came, bad, got, written, out>>

Program ==
    \/ ReadTest \/ ReadCopy \/ ReadAdvance \/ ReadWait \/ ReadDone
    \/ WriteNext \/ WriteWait \/ WriteSpin \/ WritePut \/ WriteAdvance \/ WriteDone
    \/ CloseTest

-----------------------------------------------------------------------------

UartCaller ==
    \E nb \in BOOLEAN :
       \/ \E n \in {0, 2} : Call("read", n, nb)
       \/ \E n \in 0 .. MAX_TX - written : Call("write", n, nb)
       \/ Call("close", 0, nb)

Line == \/ \E broken \in BOOLEAN : (broken => bad < MAX_BAD) /\ Arrive(broken)
        \/ LoadShifter \/ SentOut

UartNext == Line \/ Handler \/ Program \/ UartCaller

\* The processor runs, and what is in the core is sent.
UartFairness ==
    WF_uartVars(Handler) /\ WF_uartVars(Program) /\ WF_uartVars(LoadShifter) /\ WF_uartVars(SentOut)

UartSpec == UartInit /\ [][UartNext]_uartVars /\ UartFairness
-----------------------------------------------------------------------------

Buffered(buf, start, end) ==
    [i \in 1 .. (end + BUF_LEN - start) % BUF_LEN |-> buf[(start + i - 1) % BUF_LEN]]

InFlight ==
    (IF tx_shift = 0 THEN <<>> ELSE <<tx_shift>>) \o (IF tx_ready THEN <<>> ELSE <<tx_data>>)
    \o Buffered(tx_buf, tx_start, tx_end) \o (IF at = "wadvance" THEN <<written>> ELSE <<>>)

\* What is written goes out once and in order, however the handler, the program
\* and the core interleave (altera_avalon_uart_write.c lines 123-230,
\* altera_avalon_uart_init.c lines 206-283).
TxInOrder == out \o InFlight = [i \in 1 .. written |-> i]

\* What is read has come in that order, and none of it twice
\* (altera_avalon_uart_read.c lines 123-238, altera_avalon_uart_init.c lines 152-198).
RxInOrder == \A i \in 1 .. Len(got) - 1 : got[i] < got[i + 1]

\* The driver is a pair of queues (altera_avalon_uart_init.c lines 152-283).
CharactersInOrder == TxInOrder /\ RxInOrder

\* A write and a close may not wait for ever, nor a read when there is something to
\* read (waits of altera_avalon_uart_read.c line 200, altera_avalon_uart_write.c
\* line 186, altera_avalon_uart_init.c line 303).
UartCallWaits ==
    call \in {"write", "close"} \/ (call = "read" /\ (rx_char_ready \/ rx_start # rx_end))
=============================================================================
