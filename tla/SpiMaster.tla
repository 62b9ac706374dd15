----------------------------- MODULE SpiMaster ------------------------------
(***************************************************************************)
(* alt_avalon_spi_command (lms_ctr_bsp/drivers/src/altera_avalon_spi.c),   *)
(* by which the control processor does all its SPI transfers, with the SPI *)
(* core (lms_ctr_spi_lms.v): a transmit, a shift and a receive register of *)
(* one byte.  A step is one register access; the core shifts at any time   *)
(* between.  The clock it takes to load the shift register is shorter than *)
(* an access and part of it.  Commands is built on what is shown here,     *)
(* that a call is one exchange of bytes with one chip.                     *)
(***************************************************************************)
EXTENDS Integers, Sequences

CONSTANTS
    MAX_LENGTH,         \* bytes written and bytes read by a call
    MAX_SPI_CALLS       \* bound: calls

ASSUME SpiAssumption == MAX_LENGTH \in Nat /\ MAX_SPI_CALLS \in Nat

VARIABLES
    spi_at,             \* register access that is next, or "done"
    slave, write_length, read_length, flags,        \* arguments
    sent, read_ignore, write_zeros, credits, trdy, rrdy,
    read_data,          \* what the caller gets
    txdata, shifting, rxdata,                       \* the core's registers
    overrun,            \* a byte came before the one before it was read
    slave_hold, slave_sel, sso,     \* chip selects: written, in use, forced
    wire,               \* history: bytes shifted since the select went low
    spi_calls

spiCodeVars == <<spi_at, slave, write_length, read_length, flags, sent, read_ignore,
                 write_zeros, credits, trdy, rrdy, read_data, spi_calls>>
spiCoreVars == <<txdata, shifting, rxdata, overrun, slave_hold, slave_sel, sso, wire>>
spiVars == <<spiCodeVars, spiCoreVars>>

Empty == <<>>
Slaves == {0, 1}
SpiFlags == SUBSET {"toggle", "merge"}

\* Bytes written are numbered in a call; the reply to a byte is its position
\* on the wire since the chip was selected.
Byte(call, i) == <<call, i>>
Zero == <<0, 0>>

SpiInit ==
    /\ spi_at = "done" /\ slave = 0 /\ write_length = 0 /\ read_length = 0 /\ flags = {}
    /\ sent = 0 /\ read_ignore = 0 /\ write_zeros = 0 /\ credits = 0
    /\ trdy = FALSE /\ rrdy = FALSE /\ read_data = <<>>
    /\ txdata = Empty /\ shifting = Empty
    /\ rxdata \in {Empty, <<99>>}
    /\ overrun = FALSE /\ slave_hold = 0 /\ slave_sel = 0 /\ sso = FALSE /\ wire = <<>>
    /\ spi_calls = 0

-----------------------------------------------------------------------------
(* The core.                                                               *)

Trdy == txdata = Empty \/ shifting = Empty

\* A byte written goes on to the shift register when that is free.  With it the
\* select that was written takes effect.
Load(byte) ==
    /\ shifting' = byte /\ slave_sel' = slave_hold
    /\ wire' = IF slave_sel' = slave_sel THEN wire ELSE <<>>

WriteTxData(byte) ==
    IF shifting = Empty THEN Load(byte) /\ UNCHANGED txdata
    ELSE txdata' = byte /\ UNCHANGED <<shifting, slave_sel, wire>>

\* A byte is through.  The select is low while the core shifts, or while it is
\* forced; between bytes it goes high when it is not.
Shifted ==
    /\ shifting # Empty
    /\ shifting' = txdata /\ txdata' = Empty
    /\ slave_sel' = IF txdata = Empty THEN slave_sel ELSE slave_hold
    /\ wire' = IF sso THEN Append(wire, Head(shifting)) ELSE <<Head(shifting)>>
    /\ rxdata' = <<Len(wire')>> /\ overrun' = (overrun \/ rxdata # Empty)
    /\ UNCHANGED <<spiCodeVars, slave_hold, sso>>

-----------------------------------------------------------------------------
(* The driver.                                                             *)

\* A call: the select register is written first.
SpiCall(s, w, r, f) ==
    /\ spi_at = "done" /\ spi_calls < MAX_SPI_CALLS /\ spi_calls' = spi_calls + 1
    /\ slave' = s /\ write_length' = w /\ read_length' = r /\ flags' = f
    /\ sent' = 0 /\ write_zeros' = r /\ read_ignore' = w /\ credits' = 1
    /\ read_data' = <<>> /\ spi_at' = "sso"
    /\ slave_hold' = s
    /\ UNCHANGED <<trdy, rrdy, txdata, shifting, rxdata, overrun, slave_sel, sso, wire>>

ForceSelect ==
    /\ spi_at = "sso" /\ spi_at' = "discard"
    /\ sso' = (sso \/ "toggle" \notin flags)
    /\ IF sso' /\ ~sso THEN slave_sel' = slave_hold /\ wire' = <<>>
       ELSE UNCHANGED <<slave_sel, wire>>
    /\ UNCHANGED <<slave, write_length, read_length, flags, sent, read_ignore, write_zeros,
                   credits, trdy, rrdy, read_data, spi_calls,
                   txdata, shifting, rxdata, overrun, slave_hold>>

DiscardStale ==
    /\ spi_at = "discard" /\ spi_at' = "status"
    /\ rxdata' = Empty
    /\ UNCHANGED <<slave, write_length, read_length, flags, sent, read_ignore, write_zeros,
                   credits, trdy, rrdy, read_data, spi_calls,
                   txdata, shifting, overrun, slave_hold, slave_sel, sso, wire>>

\* Fault: any number of bytes may be under way.
MayTransmit_Always == Trdy

\* room in the transmit register, and no byte under way
MayTransmit == Trdy /\ credits > 0

\* the status is read until there is something to do
ReadStatus ==
    /\ spi_at = "status"
    /\ trdy' = MayTransmit /\ rrdy' = (rxdata # Empty)
    /\ spi_at' = IF trdy' \/ rrdy' THEN "transmit" ELSE "status"
    /\ UNCHANGED <<slave, write_length, read_length, flags, sent, read_ignore, write_zeros,
                   credits, read_data, spi_calls, spiCoreVars>>

\* the caller's bytes, then zeros to read by
Transmit ==
    /\ spi_at = "transmit" /\ spi_at' = "receive"
    /\ IF ~trdy
       THEN UNCHANGED <<sent, write_zeros, credits, shifting, txdata, slave_sel, wire>>
       ELSE IF sent < write_length
       THEN /\ sent' = sent + 1 /\ credits' = credits - 1
            /\ WriteTxData(<<Byte(spi_calls, sent + 1)>>) /\ UNCHANGED write_zeros
       ELSE IF write_zeros > 0
       THEN /\ write_zeros' = write_zeros - 1 /\ credits' = credits - 1
            /\ WriteTxData(<<Zero>>) /\ UNCHANGED sent
       ELSE credits' = -1024 /\ UNCHANGED <<sent, write_zeros, shifting, txdata, slave_sel, wire>>
    /\ UNCHANGED <<slave, write_length, read_length, flags, read_ignore, trdy, rrdy, read_data,
                   spi_calls, rxdata, overrun, slave_hold, sso>>

\* bytes that came while the caller's were written are ignored
Received ==
    /\ spi_at = "receive"
    /\ IF rrdy
       THEN /\ rxdata' = Empty /\ credits' = credits + 1
            /\ IF read_ignore > 0
               THEN read_ignore' = read_ignore - 1 /\ UNCHANGED read_data
               ELSE read_data' = read_data \o rxdata /\ UNCHANGED read_ignore
            /\ spi_at' = IF read_ignore' = 0 /\ Len(read_data') = read_length
                         THEN "drain" ELSE "status"
       ELSE UNCHANGED <<rxdata, credits, read_ignore, read_data>> /\ spi_at' = "status"
    /\ UNCHANGED <<slave, write_length, read_length, flags, sent, write_zeros, trdy, rrdy,
                   spi_calls, txdata, shifting, overrun, slave_hold, slave_sel, sso, wire>>

\* the select is released once the last byte is out, but for a merged call
Release ==
    /\ spi_at = "drain" /\ txdata = Empty /\ shifting = Empty
    /\ spi_at' = "done" /\ sso' = (sso /\ "merge" \in flags)
    /\ UNCHANGED <<slave, write_length, read_length, flags, sent, read_ignore, write_zeros,
                   credits, trdy, rrdy, read_data, spi_calls,
                   txdata, shifting, rxdata, overrun, slave_hold, slave_sel, wire>>

-----------------------------------------------------------------------------

SpiCode == ForceSelect \/ DiscardStale \/ ReadStatus \/ Transmit \/ Received \/ Release

SpiCaller ==
    \E s \in Slaves, w, r \in 0 .. MAX_LENGTH, f \in SpiFlags : w + r > 0 /\ SpiCall(s, w, r, f)

SpiNext == SpiCode \/ Shifted \/ SpiCaller

\* The processor runs and the core shifts.
SpiFairness == WF_spiVars(SpiCode) /\ WF_spiVars(Shifted)

SpiSpec == SpiInit /\ [][SpiNext]_spiVars /\ SpiFairness

-----------------------------------------------------------------------------

\* The bytes of a call, in order.
Exchange == [i \in 1 .. write_length |-> Byte(spi_calls, i)] \o [i \in 1 .. read_length |-> Zero]

\* A call with the select forced is one exchange: the chip sees the caller's
\* bytes and a zero for each byte to read, in one piece, the caller gets the
\* replies to the zeros, none of a call before, and none is lost (lines 41-134).
OneExchange ==
    /\ ~overrun
    /\ spi_at = "done" /\ spi_calls > 0 /\ flags \subseteq {"merge"} =>
        LET n == write_length + read_length
            m == Len(wire) - n
        IN /\ m >= 0 /\ SubSeq(wire, m + 1, Len(wire)) = Exchange
           /\ read_data = [i \in 1 .. read_length |-> m + write_length + i]
           /\ sso <=> "merge" \in flags
=============================================================================
