------------------------------ MODULE Firmware ------------------------------
(***************************************************************************)
(* The program of the control processor as a whole: start-up, the command  *)
(* loop with all commands (Commands), writing a bitstream (FlashProg) and  *)
(* loading the MCU (McuFw), of which one runs at a time, and restarts of   *)
(* the FPGA at any moment.  A restart clears the processor; flash, EEPROM, *)
(* DAC, ADF and LMS7002M are other chips and keep what they have, until    *)
(* start-up resets the LMS7002M, and with it its MCU.  The commands share  *)
(* current_portion, data_cnt and sc_brdg_data, but each assigns them before*)
(* it reads them: they carry nothing from one command to the next.         *)
(***************************************************************************)
EXTENDS McuFw, FlashProg, Commands

CONSTANT CALLS          \* commands the host sends besides portions

\* Packets are bytes.  A host writes as many bytes to the EEPROM as it sends, which
\* the program does not check.
ASSUME CallsAssumption ==
    \A c \in CALLS :
        /\ c.name # StartUp.name /\ c.blocks \in 0 .. 255
        /\ c.data \in [0 .. DATA_SIZE - 1 -> 0 .. 255]
        /\ c.name = "MEMORY_WR" /\ ForEeprom(c) => 23 + Bytes(c) < DATA_SIZE

VARIABLE tool           \* what the host does

allVars == <<vars, progVars, cmdVars, tool>>

Tools == {"update", "mcu", "board"}

FirmInit == Init /\ ProgInit /\ CmdInit /\ tool \in Tools

\* The processor waits for a command.
Waiting == answered /\ pc = "idle" /\ step = "idle"

\* Fault: the reset of the LMS7002M leaves its MCU running.
PinResets_Not == FALSE

\* What the reset pin does to the MCU.
PinResets == lms_reset'

Pin ==
    /\ DoPin
    /\ IF PinResets
       THEN /\ fifo' = NoPortion /\ loaded' = <<>>
            /\ programmed' = FALSE /\ running' = FALSE
       ELSE UNCHANGED mcuVars

\* A step of the command loop; the answer to an MCU command is the last no more.
LoopStep ==
    \/ /\ CmdFirmware
       /\ UNCHANGED <<vars, progVars, tool>>
    \/ /\ Pin
       /\ UNCHANGED <<fwVars, cmds, progVars, tool>>

HostCall ==
    /\ Waiting /\ tool \in {"board", "mcu"}
    /\ \E c \in CALLS : (tool = "mcu" => c.name = "LMS_RST") /\ Call(c)
    /\ reply' = "none"
    /\ UNCHANGED <<pc, last_portion, current_portion, mode, MCU_retries, mcuVars, cmds,
                   progVars, tool>>

HostPortion ==
    /\ Waiting /\ tool = "mcu" /\ Host /\ UNCHANGED <<progVars, cmdVars, tool>>

HostUpdate ==
    /\ Waiting /\ tool = "update" /\ (Continue \/ Repeat \/ Begin)
    /\ UNCHANGED <<vars, cmdVars, tool>>

McuStep == (Firmware \/ Take \/ Finish) /\ UNCHANGED <<progVars, cmdVars, tool>>

UpdateStep == FlashFirmware /\ UNCHANGED <<vars, cmdVars, tool>>

ChipStep ==
    \/ FlashReady /\ UNCHANGED <<vars, cmdVars, tool>>
    \/ EepromDone /\ UNCHANGED <<vars, progVars, tool>>

\* The variables of the processor start over; a host that updates the flash has
\* to begin again.  With half a bitstream in flash the FPGA is configured from
\* elsewhere, over JTAG.
Restart ==
    /\ CmdRestart
    /\ pc' = "idle" /\ last_portion' = 0 /\ current_portion' = 0 /\ mode' = "prog"
    /\ MCU_retries' = 0 /\ reply' = "none"
    /\ step' = "idle" /\ flash_page' = 0 /\ flash_page_data_cnt' = 0
    /\ flash_data_counter_to_copy' = 0 /\ fpga_byte' = 0
    /\ flash_page_data' = PageOf(OldByte) /\ retries' = 0 /\ status' = 0
    /\ flash_reply' = "none"
    /\ UNCHANGED <<mcuVars, cmds, flashVars, hostVars, tool>>

FirmNext ==
    \/ LoopStep \/ McuStep \/ UpdateStep \/ ChipStep
    \/ HostCall \/ HostPortion \/ HostUpdate \/ Restart

FirmSpec == FirmInit /\ [][FirmNext]_allVars

\* The processor runs.
FirmFairSpec == FirmSpec /\ WF_allVars(LoopStep \/ McuStep \/ UpdateStep)

\* Start-up ends, and every command is answered, but for the portions of an MCU
\* program, whose wait has no end (lines 351-1254).
LoopGoesOn == ~answered \/ step # "idle" ~> Waiting
=============================================================================
