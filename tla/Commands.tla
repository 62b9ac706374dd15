------------------------------ MODULE Commands ------------------------------
(***************************************************************************)
(* The control processor: start-up and command loop of main.c              *)
(* (src/software/lms_ctr_app), with all commands but the two that write a  *)
(* bitstream or an MCU program, which are FlashProg and McuFw.  A command  *)
(* of the host becomes a list of transactions on the SPI and I2C buses; a  *)
(* step is one transaction, and after the last one the answer is sent.     *)
(* The chips behind the buses are external.                                *)
(***************************************************************************)
EXTENDS I2cBus, FiniteSets

CONSTANTS
    DATA_SIZE,          \* bytes of the data field of a packet, 56 in the code
    DAC_VAL_ADDR,       \* where the EEPROM holds the value of the TCXO DAC
    DAC_DEFF_VAL,       \* its default, 134 in the code
    MAX_CALLS,          \* bound: commands
    MAX_RESTARTS        \* bound: restarts of the FPGA

ASSUME CommandsAssumption ==
    \* the data of a memory command start at byte 24
    /\ DATA_SIZE \in Nat /\ DATA_SIZE > 24 /\ DAC_DEFF_VAL \in 0 .. 255
    \* rd_dac_val sends the low byte of the address
    /\ DAC_VAL_ADDR \in Addresses /\ DAC_VAL_ADDR + 1 \in Addresses /\ DAC_VAL_ADDR < 256
    /\ MAX_CALLS \in Nat /\ MAX_RESTARTS \in Nat

VARIABLES
    cmd,                \* command being executed, or the last one
    todo,               \* transactions left
    got,                \* bytes read so far
    cmd_errors,
    answered,           \* the answer was sent and the next command is awaited
    answer,             \* the last answer
    dac_val,
    lms, lms_reset,     \* LMS7002M: registers, reset pin
    brd,                \* configuration registers of the FPGA
    dac, adf,           \* TCXO: value the DAC drives, or Off; the ADF drives
    before,             \* history: the EEPROM when the command came
    calls, restarts

cpuVars == <<cmd, todo, got, cmd_errors, answered, answer, dac_val>>
boardVars == <<lms, lms_reset, brd, dac, adf>>
boundVars == <<before, calls, restarts>>
cmdVars == <<cpuVars, boardVars, boundVars, i2cVars>>

Off == -1
Registers == 0 .. 1
BOARD_GPIO_RD == 194
BOARD_GPIO_DIR == 196
BOARD_GPIO_VAL == 198
BoardRegisters == Registers \cup {BOARD_GPIO_RD, BOARD_GPIO_DIR, BOARD_GPIO_VAL}
Defaults(regs) == [r \in regs |-> <<0, 0>>]

-----------------------------------------------------------------------------
(* Transactions.                                                           *)

Spi(to, bytes, n) == [do |-> "spi", to |-> to, bytes |-> bytes, n |-> n]
Start(c, read, counts) == [do |-> "start", to |-> c, read |-> read, counts |-> counts]
Put(b, last, counts) == [do |-> "write", byte |-> b, last |-> last, counts |-> counts]
Get(last) == [do |-> "read", last |-> last]
SetPin(v) == [do |-> "pin", v |-> v]
SetDacVal(v) == [do |-> "dac_val", v |-> v]
Step(what) == [do |-> what]

ADF_OFF == << <<31, 129, 243>>, <<31, 129, 242>>, <<0, 1, 244>>, <<1, 128, 1>> >>

\* AD5601: two bits of mode, eight of value; mode 3 is three-state.
Control_TCXO_DAC(oe, data) ==
    << Spi("dac", IF oe THEN <<data \div 4, (data * 64) % 256>> ELSE <<192, 0>>, 0) >>

\* The charge pump of the ADF4002 off, or the host's three bytes.
Control_TCXO_ADF(oe, data) ==
    IF oe THEN << Spi("adf", data, 0) >> ELSE [i \in 1 .. 4 |-> Spi("adf", ADF_OFF[i], 0)]

\* One write to a register of the LM75.
Lm75Write(reg, bytes) ==
    << Start("lm75", FALSE, FALSE), Put(reg, FALSE, FALSE) >>
    \o [i \in 1 .. Len(bytes) |-> Put(bytes[i], i = Len(bytes), FALSE)]

Configure_LM75 == Lm75Write(1, <<4>>) \o Lm75Write(2, <<45, 0>>) \o Lm75Write(3, <<55, 0>>)

rd_dac_val(addr) ==
    << Start("eeprom", FALSE, FALSE), Put(0, FALSE, FALSE), Put(addr, FALSE, FALSE),
       Start("eeprom", TRUE, FALSE), Get(FALSE), Get(TRUE) >>

\* Fault: the ADF is switched off after the DAC is on.
DacOn_First(v) == Control_TCXO_DAC(TRUE, v) \o Control_TCXO_ADF(FALSE, <<>>)

\* The DAC drives v, the ADF does not.
DacOn(v) == Control_TCXO_ADF(FALSE, <<>>) \o Control_TCXO_DAC(TRUE, v)

\* main up to the value in the EEPROM, and from there to the loop
Boot1 == << SetPin(6), SetPin(7), Step("i2c_init") >> \o rd_dac_val(DAC_VAL_ADDR)
         \o << Step("use") >>
Boot2(v) == DacOn(v) \o << Spi("flash", <<159>>, 3) >> \o Configure_LM75

-----------------------------------------------------------------------------
(* What each command does.  BlockByte(c, b, size, i): byte i of its block b. *)

BlockByte(c, b, size, i) == c.data[b * size + i]

\* The lists 1 .. n, one after the other.
Joined(lists, n) ==
    LET upto[k \in 0 .. n] == IF k = 0 THEN <<>> ELSE upto[k - 1] \o lists[k]
    IN upto[n]

\* The transactions of all blocks, one block after the other.
Blocks(c, f(_)) == Joined([k \in 1 .. c.blocks |-> f(k - 1)], c.blocks)

WriteBit(byte) == IF byte < 128 THEN byte + 128 ELSE byte
ReadBit(byte) == byte % 128

\* CMD_LMS7002_WR and CMD_BRDSPI16_WR
RegisterWrites(c, to) ==
    LET block(b) == << Spi(to, <<WriteBit(BlockByte(c, b, 4, 0)), BlockByte(c, b, 4, 1),
                                 BlockByte(c, b, 4, 2), BlockByte(c, b, 4, 3)>>, 0) >>
    IN Blocks(c, block)

\* CMD_LMS7002_RD and CMD_BRDSPI16_RD
RegisterReads(c, to) ==
    LET block(b) == << Spi(to, <<ReadBit(BlockByte(c, b, 2, 0)), BlockByte(c, b, 2, 1)>>, 2) >>
    IN Blocks(c, block)

CMD_LMS_RST(c) ==
    CASE c.data[0] = 0 -> << SetPin(7) >>
      [] c.data[0] = 1 -> << SetPin(6) >>
      [] c.data[0] = 2 -> << SetPin(6), SetPin(7) >>
      [] OTHER         -> <<>>

CMD_ADF4002_WR(c) ==
    LET block(b) == Control_TCXO_ADF(TRUE, [i \in 1 .. 3 |-> BlockByte(c, b, 3, i - 1)])
    IN Control_TCXO_DAC(FALSE, 0) \o Blocks(c, block)

CMD_ANALOG_VAL_RD(c) ==
    LET block(b) == IF c.data[b] = 1
                    THEN << Start("lm75", FALSE, FALSE), Put(0, TRUE, FALSE),
                            Start("lm75", TRUE, FALSE), Get(FALSE), Get(TRUE) >>
                    ELSE <<>>
    IN Blocks(c, block)

\* A block of CMD_ANALOG_VAL_WR that is for the DAC, in raw units of one byte
DacBlock(c, b) == \A i \in 0 .. 2 : BlockByte(c, b, 4, i) = 0

CMD_ANALOG_VAL_WR(c) ==
    LET value(b) == BlockByte(c, b, 4, 3)
        block(b) == IF DacBlock(c, b)
                    THEN Control_TCXO_ADF(FALSE, <<>>) \o << SetDacVal(value(b)) >>
                         \o Control_TCXO_DAC(TRUE, value(b))
                    ELSE <<>>
    IN Blocks(c, block)

CMD_SI5351_WR(c) ==
    LET block(b) == << Start("si5351", FALSE, TRUE), Put(BlockByte(c, b, 2, 0), FALSE, TRUE),
                       Put(BlockByte(c, b, 2, 1), TRUE, TRUE) >>
    IN Blocks(c, block)

CMD_SI5351_RD(c) ==
    LET block(b) == << Start("si5351", FALSE, TRUE), Put(c.data[b], TRUE, TRUE),
                       Start("si5351", TRUE, TRUE), Get(TRUE) >>
    IN Blocks(c, block)

\* Fields of CMD_MEMORY_WR and CMD_MEMORY_RD.  A count of 0 is one byte, too.
DataCount(c) == c.data[5]
Bytes(c) == IF DataCount(c) = 0 THEN 1 ELSE DataCount(c)
ForEeprom(c) == c.data[10] = 0 /\ c.data[11] = 3 /\ c.data[0] = 0
EepromAddress(c) ==
    << Start("eeprom", FALSE, TRUE), Put(c.data[8], FALSE, TRUE), Put(c.data[9], FALSE, TRUE) >>

CMD_MEMORY_WR(c) ==
    IF ForEeprom(c)
    THEN EepromAddress(c)
         \o [k \in 1 .. Bytes(c) |-> Put(c.data[23 + k], k = Bytes(c), TRUE)]
    ELSE <<>>

CMD_MEMORY_RD(c) ==
    IF ForEeprom(c)
    THEN EepromAddress(c) \o << Start("eeprom", TRUE, TRUE) >>
         \o [k \in 1 .. Bytes(c) |-> Get(k = Bytes(c))]
    ELSE <<>>

\* The data field has the low byte first, the register the high one.
GpioBytes(c) == <<c.data[1], c.data[0]>>

CMD_GPIO_DIR_WR(c) == << Spi("fpga", <<128, BOARD_GPIO_DIR>> \o GpioBytes(c), 0) >>
CMD_GPIO_DIR_RD(c) == << Spi("fpga", <<0, BOARD_GPIO_DIR>>, 2) >>
CMD_GPIO_WR(c) == << Spi("fpga", <<128, BOARD_GPIO_VAL>> \o GpioBytes(c), 0) >>
CMD_GPIO_RD(c) == << Spi("fpga", <<0, BOARD_GPIO_RD>>, 2) >>

\* The blocks do not fit in the data field.
Check_many_blocks(c, size) == c.blocks > DATA_SIZE \div size

\* Bytes of a block, of the commands that check the number of blocks.
BlockSize(name) ==
    CASE name \in {"LMS7002_WR", "LMS7002_RD", "BRDSPI16_WR", "BRDSPI16_RD", "ANALOG_VAL_WR"} -> 4
      [] name = "ADF4002_WR" -> 3
      [] name \in {"SI5351_WR", "SI5351_RD"} -> 2
      [] OTHER -> 1

TooMany(c) == BlockSize(c.name) > 1 /\ Check_many_blocks(c, BlockSize(c.name))

Transactions(c) ==
    IF TooMany(c) THEN <<>>
    ELSE CASE c.name = "LMS_RST"       -> CMD_LMS_RST(c)
           [] c.name = "LMS7002_WR"    -> RegisterWrites(c, "lms")
           [] c.name = "LMS7002_RD"    -> RegisterReads(c, "lms")
           [] c.name = "BRDSPI16_WR"   -> RegisterWrites(c, "fpga")
           [] c.name = "BRDSPI16_RD"   -> RegisterReads(c, "fpga")
           [] c.name = "ADF4002_WR"    -> CMD_ADF4002_WR(c)
           [] c.name = "ANALOG_VAL_RD" -> CMD_ANALOG_VAL_RD(c)
           [] c.name = "ANALOG_VAL_WR" -> CMD_ANALOG_VAL_WR(c)
           [] c.name = "SI5351_WR"     -> CMD_SI5351_WR(c)
           [] c.name = "SI5351_RD"     -> CMD_SI5351_RD(c)
           [] c.name = "MEMORY_WR"     -> CMD_MEMORY_WR(c)
           [] c.name = "MEMORY_RD"     -> CMD_MEMORY_RD(c)
           [] c.name = "GPIO_DIR_WR"   -> CMD_GPIO_DIR_WR(c)
           [] c.name = "GPIO_DIR_RD"   -> CMD_GPIO_DIR_RD(c)
           [] c.name = "GPIO_WR"       -> CMD_GPIO_WR(c)
           [] c.name = "GPIO_RD"       -> CMD_GPIO_RD(c)
           [] OTHER                    -> <<>>

\* Errors found without a transaction: channels and units that do not exist.
FieldErrors(c) ==
    LET n == CASE c.name = "ANALOG_VAL_WR" ->
                     Cardinality({b \in 0 .. c.blocks - 1 : ~DacBlock(c, b)})
               [] c.name = "ANALOG_VAL_RD" ->
                     Cardinality({b \in 0 .. c.blocks - 1 : c.data[b] > 1})
               [] c.name = "LMS_RST" /\ c.data[0] > 2 -> 1
               [] OTHER -> 0
    IN IF TooMany(c) THEN 0 ELSE n

-----------------------------------------------------------------------------
(* The answer.                                                             *)

GetInfo == <<7, 17, 1, 3, 0>>

\* A byte as the upper half of a signed short, shifted back.
Signed(byte) == IF byte < 128 THEN byte ELSE byte - 256

\* The two bytes of the LM75 in tenths of a degree, as two bytes of a short.
Converted(msb, lsb) == (10 * Signed(msb) + (IF lsb >= 128 THEN 5 ELSE 0)) % 65536

\* Blocks before b that read the temperature.
Measured(c, b) == Cardinality({i \in 0 .. b - 1 : c.data[i] = 1})

\* The four bytes of block b of CMD_ANALOG_VAL_RD: channel, unit, value.
AnalogBlock(c, g, b) ==
    LET at == 2 * Measured(c, b)
        value == Converted(g[at + 1], g[at + 2])
    IN CASE c.data[b] = 0 -> <<0, 0, 0, dac_val>>
         [] c.data[b] = 1 -> <<1, 80, value \div 256, value % 256>>
         [] OTHER         -> <<0, 0, 0, 0>>

\* Block b of a register read: the place of the number stays empty.
ReadBlock(g, b) == <<0, 0, g[2 * b + 1], g[2 * b + 2]>>

\* What stands in the data field from byte `from' on: blocks of `size' bytes.
Field(from, n, size, f(_)) ==
    [i \in 0 .. DATA_SIZE - 1 |->
       IF i >= from /\ i < from + n * size
       THEN f((i - from) \div size)[((i - from) % size) + 1] ELSE 0]

\* The field ends with DATA_SIZE: more than 32 bytes of MEMORY_RD, or 14 blocks of
\* ANALOG_VAL_RD, go on behind the buffer in the code, which is left out.
AnswerData(c, g) ==
    LET info(b) == <<GetInfo[b + 1]>>
        register(b) == ReadBlock(g, b)
        analog(b) == AnalogBlock(c, g, b)
        clock(b) == <<c.data[b], g[b + 1]>>
        byte(b) == <<g[b + 1]>>
        gpio(b) == <<g[2], g[1]>>
        none(b) == <<0>>
    IN IF TooMany(c) THEN Field(0, 0, 1, none)
       ELSE CASE c.name = "GET_INFO" -> Field(0, 5, 1, info)
              [] c.name \in {"LMS7002_RD", "BRDSPI16_RD"} -> Field(0, c.blocks, 4, register)
              [] c.name = "ANALOG_VAL_RD" -> Field(0, c.blocks, 4, analog)
              [] c.name = "SI5351_RD" -> Field(0, c.blocks, 2, clock)
              [] c.name = "MEMORY_RD" /\ ForEeprom(c) -> Field(24, Bytes(c), 1, byte)
              [] c.name \in {"GPIO_DIR_RD", "GPIO_RD"} -> Field(0, 1, 2, gpio)
              [] OTHER -> Field(0, 0, 1, none)

AnswerStatus(c, errors) ==
    IF TooMany(c) THEN "blocks_error"
    ELSE CASE c.name = "UNKNOWN" -> "unknown"
           [] c.name \in {"MEMORY_WR", "MEMORY_RD"} /\ ~ForEeprom(c) -> "error"
           [] c.name = "ADF4002_WR" /\ errors > 0 -> "invalid_periph_id"
           [] c.name \in {"ANALOG_VAL_WR", "SI5351_WR", "SI5351_RD", "MEMORY_WR", "MEMORY_RD"}
                 /\ errors > 0 -> "error"
           [] OTHER -> "completed"

NoAnswer == [status |-> "none", data |-> [i \in 0 .. DATA_SIZE - 1 |-> 0]]
StartUp == [name |-> "START_UP", blocks |-> 0, data |-> NoAnswer.data]

-----------------------------------------------------------------------------
(* One transaction.                                                        *)

\* A register slave: the first bit says write, the second byte which register.
RegisterAfter(regs, bytes) ==
    IF bytes[1] >= 128 THEN [regs EXCEPT ![bytes[2]] = <<bytes[3], bytes[4]>>] ELSE regs

\* Nothing writes the inputs.
BoardAfter(bytes) ==
    [RegisterAfter(brd, bytes) EXCEPT ![BOARD_GPIO_RD] = brd[BOARD_GPIO_RD]]

\* AD5601 and ADF4002: mode bits, and the three-state bit of latches 2 and 3.
DacAfter(bytes) ==
    IF bytes[1] >= 64 THEN Off ELSE 4 * bytes[1] + bytes[2] \div 64
AdfAfter(bytes) == IF bytes[3] % 4 \in {2, 3} THEN bytes[2] % 2 = 0 ELSE adf

NextIs(what) == ~answered /\ todo # <<>> /\ Head(todo).do = what /\ todo' = Tail(todo)

DoSpi ==
    /\ NextIs("spi")
    /\ LET t == Head(todo)
       IN /\ lms' = IF t.to = "lms" /\ ~lms_reset THEN RegisterAfter(lms, t.bytes) ELSE lms
          /\ brd' = IF t.to = "fpga" THEN BoardAfter(t.bytes) ELSE brd
          /\ dac' = IF t.to = "dac" THEN DacAfter(t.bytes) ELSE dac
          /\ adf' = IF t.to = "adf" THEN AdfAfter(t.bytes) ELSE adf
          /\ got' = CASE t.to = "lms" /\ t.n > 0 -> got \o lms[t.bytes[2]]
                      [] t.to = "fpga" /\ t.n > 0 -> got \o brd[t.bytes[2]]
                      [] OTHER -> got
    /\ UNCHANGED <<cmd, cmd_errors, answered, answer, dac_val, lms_reset, boundVars, i2cVars>>

\* Fault: a byte that was not acknowledged does not count.
Add_Blind(counts, result) == cmd_errors

\* The results that a command adds up are in a byte.
Add(counts, result) == IF counts THEN (cmd_errors + result) % 256 ELSE cmd_errors

DoStart ==
    /\ NextIs("start")
    /\ \E ack \in BOOLEAN :
          /\ I2C_start(Head(todo).to, Head(todo).read, ack)
          /\ cmd_errors' = Add(Head(todo).counts, StartResult(ack))
    /\ UNCHANGED <<cmd, got, answered, answer, dac_val, boardVars, boundVars>>

DoWrite ==
    /\ NextIs("write")
    /\ I2C_write(Head(todo).byte, Head(todo).last)
    /\ cmd_errors' = Add(Head(todo).counts, WriteResult)
    /\ UNCHANGED <<cmd, got, answered, answer, dac_val, boardVars, boundVars>>

DoRead ==
    /\ NextIs("read")
    /\ I2C_read(Head(todo).last)
    /\ got' = Append(got, SentByte)
    /\ UNCHANGED <<cmd, cmd_errors, answered, answer, dac_val, boardVars, boundVars>>

\* The reset pin of the LMS7002M, low at 6.
DoPin ==
    /\ NextIs("pin")
    /\ lms_reset' = (Head(todo).v = 6)
    /\ lms' = IF lms_reset' THEN Defaults(Registers) ELSE lms
    /\ UNCHANGED <<cmd, got, cmd_errors, answered, answer, dac_val, brd, dac, adf,
                   boundVars, i2cVars>>

DoDacVal ==
    /\ NextIs("dac_val")
    /\ dac_val' = Head(todo).v
    /\ UNCHANGED <<cmd, got, cmd_errors, answered, answer, boardVars, boundVars, i2cVars>>

DoI2cInit ==
    /\ NextIs("i2c_init")
    /\ I2C_init(100000000, 400000)
    /\ UNCHANGED <<cmd, got, cmd_errors, answered, answer, dac_val, boardVars, boundVars>>

\* Fault: a blank EEPROM is taken for a value.
StartValue_Blank(lo, hi) == lo

\* The DAC's value from the EEPROM, low byte first, unless it is blank.
StartValue(lo, hi) == IF <<lo, hi>> = <<BLANK, BLANK>> THEN DAC_DEFF_VAL ELSE lo

UseEeprom ==
    /\ ~answered /\ todo # <<>> /\ Head(todo).do = "use"
    /\ LET v == StartValue(got[1], got[2])
       IN dac_val' = v /\ todo' = Boot2(v)
    /\ UNCHANGED <<cmd, got, cmd_errors, answered, answer, boardVars, boundVars, i2cVars>>

\* The end of a command, or of start-up, which has no answer.
Respond ==
    /\ ~answered /\ todo = <<>> /\ answered' = TRUE
    /\ answer' = IF cmd = StartUp THEN NoAnswer
                 ELSE [status |-> AnswerStatus(cmd, cmd_errors), data |-> AnswerData(cmd, got)]
    /\ UNCHANGED <<cmd, todo, got, cmd_errors, dac_val, boardVars, boundVars, i2cVars>>

-----------------------------------------------------------------------------

\* The EEPROM once it has stored what it took.
Contents == IF storing THEN Stored ELSE eeprom

\* A command c of the host.
Call(c) ==
    /\ answered /\ calls < MAX_CALLS /\ calls' = calls + 1
    /\ cmd' = c /\ todo' = Transactions(c) /\ got' = <<>> /\ cmd_errors' = FieldErrors(c)
    /\ answered' = FALSE /\ before' = Contents
    /\ UNCHANGED <<answer, dac_val, boardVars, restarts, i2cVars>>

CmdInit ==
    /\ I2cInit
    /\ cmd = StartUp /\ todo = Boot1 /\ got = <<>> /\ cmd_errors = 0
    /\ answered = FALSE /\ answer = NoAnswer /\ dac_val = 134
    /\ lms = Defaults(Registers) /\ lms_reset = FALSE
    /\ brd = [Defaults(BoardRegisters) EXCEPT ![BOARD_GPIO_RD] = <<1, 2>>]
    /\ dac = 0 /\ adf = FALSE
    /\ before = eeprom /\ calls = 0 /\ restarts = 0

\* The FPGA is configured again: the processor starts over, the chips around
\* it keep what they have.  It takes longer than a write cycle of the EEPROM.
CmdRestart ==
    /\ restarts < MAX_RESTARTS /\ restarts' = restarts + 1
    /\ ~storing
    /\ cmd' = StartUp /\ todo' = Boot1 /\ got' = <<>> /\ cmd_errors' = 0
    /\ answered' = FALSE /\ answer' = NoAnswer /\ dac_val' = 134
    /\ brd' = [Defaults(BoardRegisters) EXCEPT ![BOARD_GPIO_RD] = <<1, 2>>]
    /\ UNCHANGED <<lms, lms_reset, dac, adf, before, calls, i2cVars>>

CmdFirmware == DoSpi \/ DoStart \/ DoWrite \/ DoRead \/ DoDacVal \/ DoI2cInit
               \/ UseEeprom \/ Respond

EepromDone == StoreDone /\ UNCHANGED <<cpuVars, boardVars, boundVars>>

-----------------------------------------------------------------------------
(* Properties.                                                             *)

\* DAC and ADF never drive the tuning input of the TCXO together, whatever
\* commands come and wherever a restart cuts them (lines 173-231, 296-297,
\* 576-581 and 678-682).
TcxoExclusive == ~(dac # Off /\ adf)

\* Between commands the bus is free: every transfer was closed with a STOP,
\* also after bytes that were not acknowledged (i2c_opencores.c 105-183).
BusReleased == answered => ~open

Completed(name) == answered /\ cmd.name = name /\ answer.status = "completed"

\* Block b is the last one for its register, whose number ends the first half.
LastOf(b, size) ==
    LET register(k) == BlockByte(cmd, k, size, size \div 2 - 1)
    IN ~\E k \in b + 1 .. cmd.blocks - 1 : register(k) = register(b)

Holds(regs, b) ==
    regs[BlockByte(cmd, b, 4, 1)] = <<BlockByte(cmd, b, 4, 2), BlockByte(cmd, b, 4, 3)>>

WritesTookEffect ==
    /\ Completed("LMS7002_WR") /\ ~lms_reset =>
          \A b \in 0 .. cmd.blocks - 1 : LastOf(b, 4) => Holds(lms, b)
    /\ Completed("BRDSPI16_WR") =>
          \A b \in 0 .. cmd.blocks - 1 : LastOf(b, 4) => Holds(brd, b)
    /\ Completed("SI5351_WR") =>
          \A b \in 0 .. cmd.blocks - 1 :
              LastOf(b, 2) => si5351[BlockByte(cmd, b, 2, 0)] = BlockByte(cmd, b, 2, 1)
    /\ Completed("MEMORY_WR") =>
          \A a \in Addresses :
              LET i == (a - cmd.data[9]) % EEPROM_SIZE
              IN Contents[a] = IF i < Bytes(cmd) THEN cmd.data[24 + i] ELSE before[a]
    /\ Completed("ANALOG_VAL_WR") /\ cmd.blocks > 0 =>
          dac = BlockByte(cmd, cmd.blocks - 1, 4, 3) /\ dac_val = dac /\ ~adf
    /\ Completed("ADF4002_WR") => dac = Off
    /\ Completed("GPIO_DIR_WR") => brd[BOARD_GPIO_DIR] = <<cmd.data[1], cmd.data[0]>>
    /\ Completed("GPIO_WR") => brd[BOARD_GPIO_VAL] = <<cmd.data[1], cmd.data[0]>>

\* The value of a short in bytes hi and lo
Short(hi, lo) == Signed(hi) * 256 + lo

ReadsAreTrue ==
    /\ Completed("LMS7002_RD") =>
          \A b \in 0 .. cmd.blocks - 1 :
              <<answer.data[4 * b + 2], answer.data[4 * b + 3]>> = lms[cmd.data[2 * b + 1]]
    /\ Completed("BRDSPI16_RD") =>
          \A b \in 0 .. cmd.blocks - 1 :
              <<answer.data[4 * b + 2], answer.data[4 * b + 3]>> = brd[cmd.data[2 * b + 1]]
    /\ Completed("GPIO_DIR_RD") =>
          <<answer.data[1], answer.data[0]>> = brd[BOARD_GPIO_DIR]
    /\ Completed("SI5351_RD") =>
          \A b \in 0 .. cmd.blocks - 1 : answer.data[2 * b + 1] = si5351[cmd.data[b]]
    /\ Completed("MEMORY_RD") =>
          \A k \in 0 .. Bytes(cmd) - 1 :
              answer.data[24 + k] = eeprom[(cmd.data[9] + k) % EEPROM_SIZE]
    /\ Completed("ANALOG_VAL_RD") =>
          \A b \in 0 .. cmd.blocks - 1 :
              /\ cmd.data[b] = 0 /\ dac # Off => answer.data[4 * b + 3] = dac
              /\ cmd.data[b] = 1 /\ Measured(cmd, cmd.blocks) = 1 =>
                    Short(answer.data[4 * b + 2], answer.data[4 * b + 3]) = 5 * temperature

\* A write answered with "completed" is in the chip, all of its blocks, and in the
\* EEPROM nothing else has changed; what a read returned is what the chip holds, in
\* the host's byte order, although chips may not acknowledge (lines 403-709,
\* 860-998 and 1182-1237).  Nothing is said of LMS_RST and of unknown channels of
\* ANALOG_VAL_RD, which are answered so whatever happened (lines 427, 662).
AnswersAreTrue == WritesTookEffect /\ ReadsAreTrue

\* After start-up, the first or a later one, the DAC drives what the EEPROM
\* holds for it, or the default when it is blank (lines 284-297).
StartsWithStored ==
    answered /\ cmd = StartUp =>
        /\ lms_reset = FALSE /\ dac = dac_val
        /\ dac = IF eeprom[DAC_VAL_ADDR] = BLANK /\ eeprom[DAC_VAL_ADDR + 1] = BLANK
                 THEN DAC_DEFF_VAL ELSE eeprom[DAC_VAL_ADDR]
=============================================================================
