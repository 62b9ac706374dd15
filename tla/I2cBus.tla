------------------------------- MODULE I2cBus -------------------------------
(***************************************************************************)
(* The I2C bus of the control processor: the functions of i2c_opencores.c  *)
(* (src/software/lms_ctr_app) and, external, the three chips on the bus,   *)
(* the EEPROM, the temperature sensor LM75 and the clock generator Si5351. *)
(* A function writes a byte and a command to the core, waits until the     *)
(* transfer is over and looks at the acknowledge bit: it is one step.      *)
(***************************************************************************)
EXTENDS Integers, Sequences

CONSTANTS
    EEPROM_SIZE,        \* bytes of the EEPROM
    BLANK,              \* value of an erased byte, and of a bus nobody drives
    TEMPERATURES        \* what the LM75 may measure, in half degrees

ASSUME I2cAssumption ==
    /\ EEPROM_SIZE \in Nat \ {0} /\ BLANK \in 0 .. 255
    /\ TEMPERATURES \subseteq -256 .. 255

Chips == {"eeprom", "lm75", "si5351"}
NoChip == "none"

VARIABLES
    prescale,           \* clock divider of the core
    open,               \* a START was sent and no STOP since
    chip, reading,      \* chip that acknowledged its address, direction
    count,              \* bytes since the START
    eeprom,             \* contents
    pointer,            \* register or address pointer of each chip
    written,            \* bytes the EEPROM took, to be stored at the STOP
    storing,            \* EEPROM: a write cycle is under way
    temperature,        \* LM75: the measurement being read
    lm75, si5351        \* registers

masterVars == <<prescale, open, chip, reading, count>>
chipVars == <<eeprom, pointer, written, storing, temperature, lm75, si5351>>
i2cVars == <<masterVars, chipVars>>

Addresses == 0 .. EEPROM_SIZE - 1

I2cInit ==
    /\ prescale = 0 /\ open = FALSE /\ chip = NoChip /\ reading = FALSE /\ count = 0
    /\ eeprom = [a \in Addresses |-> BLANK] /\ pointer = [c \in Chips |-> 0]
    /\ written = <<>> /\ storing = FALSE /\ temperature = 0
    /\ lm75 = [r \in 1 .. 3 |-> 0] /\ si5351 = [r \in 0 .. 1 |-> 0]

-----------------------------------------------------------------------------
(* The chips.                                                              *)

\* A chip acknowledges its address, the EEPROM not while it stores bytes.  The
\* clock generator may have no power.
MayAck(c) == CASE c = "eeprom" -> {~storing}
               [] c = "lm75"   -> {TRUE}
               [] OTHER        -> BOOLEAN

\* The EEPROM stores byte after byte from the address it was given, round to its
\* start: the last byte that came for an address stays.
BytesFor(a) == {n \in DOMAIN written : (pointer["eeprom"] + n - 1) % EEPROM_SIZE = a}
Stored == [a \in Addresses |->
             IF BytesFor(a) = {} THEN eeprom[a]
             ELSE written[CHOOSE n \in BytesFor(a) : \A m \in BytesFor(a) : m <= n]]

\* the end of the write cycle
StoreDone ==
    /\ storing /\ storing' = FALSE /\ written' = <<>> /\ eeprom' = Stored
    /\ UNCHANGED <<masterVars, pointer, temperature, lm75, si5351>>

\* The addressed chip takes byte b: an address or register number first (two
\* bytes of address for the EEPROM, the upper one 0 here), then data.
TakeByte(b) ==
    LET pointing == \/ chip = "eeprom" /\ count = 1
                    \/ chip \in {"lm75", "si5351"} /\ count = 0
    IN /\ pointer' = IF pointing THEN [pointer EXCEPT ![chip] = b] ELSE pointer
       /\ written' = IF chip = "eeprom" /\ count > 1 THEN Append(written, b) ELSE written
       /\ lm75' = IF chip = "lm75" /\ count = 1 THEN [lm75 EXCEPT ![pointer[chip]] = b] ELSE lm75
       /\ si5351' = IF chip = "si5351" /\ count = 1
                    THEN [si5351 EXCEPT ![pointer[chip]] = b] ELSE si5351

\* The byte the addressed chip sends.
SentByte ==
    CASE chip = "eeprom" -> eeprom[pointer[chip]]
      [] chip = "lm75"   -> IF count = 0 THEN (temperature % 512) \div 2
                                         ELSE 128 * (temperature % 2)
      [] chip = "si5351" -> si5351[pointer[chip]]
      [] OTHER           -> BLANK

-----------------------------------------------------------------------------
(* The driver.  A result of 1 says that a byte was not acknowledged.       *)

\* I2C_init, at start-up: the core is off while its divider is set.
I2C_init(clk, speed) ==
    /\ prescale' = clk \div (5 * speed) - 1
    /\ open' = FALSE /\ chip' = NoChip /\ reading' = FALSE /\ count' = 0
    /\ UNCHANGED chipVars

\* A START without a STOP before it drops what the EEPROM took.
I2C_start(c, read, ack) ==
    /\ ack \in MayAck(c)
    /\ open' = TRUE /\ chip' = (IF ack THEN c ELSE NoChip) /\ reading' = read /\ count' = 0
    /\ written' = IF storing THEN written ELSE <<>>
    /\ IF c = "lm75" /\ read THEN temperature' \in TEMPERATURES ELSE UNCHANGED temperature
    /\ UNCHANGED <<prescale, eeprom, pointer, storing, lm75, si5351>>

StartResult(ack) == IF ack THEN 0 ELSE 1

\* Fault: the last byte of a write does not send the STOP.
WithStop_Not(last) == FALSE

\* the STO bit of the command
WithStop(last) == last

I2C_write(b, last) ==
    /\ TakeByte(b)
    /\ count' = count + 1
    /\ open' = (open /\ ~WithStop(last))
    /\ chip' = IF WithStop(last) THEN NoChip ELSE chip
    /\ storing' = (storing \/ (WithStop(last) /\ chip = "eeprom" /\ Len(written') > 0))
    /\ UNCHANGED <<prescale, reading, eeprom, temperature>>

WriteResult == IF chip = NoChip THEN 1 ELSE 0

\* The byte read is SentByte.
I2C_read(last) ==
    /\ count' = count + 1
    /\ pointer' = IF chip = "eeprom"
                  THEN [pointer EXCEPT ![chip] = (@ + 1) % EEPROM_SIZE] ELSE pointer
    /\ open' = (open /\ ~WithStop(last))
    /\ chip' = IF WithStop(last) THEN NoChip ELSE chip
    /\ UNCHANGED <<prescale, reading, eeprom, written, storing, temperature, lm75, si5351>>
=============================================================================
