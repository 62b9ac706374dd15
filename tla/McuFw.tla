------------------------------- MODULE McuFw --------------------------------
(***************************************************************************)
(* Loading the program of the LMS7002M's microcontroller:                  *)
(* CMD_LMS_MCU_FW_WR in src/software/lms_ctr_app/main.c.  The host sends   *)
(* the program in portions, here in any order, as commands get lost or     *)
(* repeated; the firmware checks the order, resets the MCU at portion 0,   *)
(* writes each portion to the MCU's FIFO and polls its status register.    *)
(* A step of the firmware is one SPI access; the 32 writes of a portion    *)
(* are one step, as the MCU takes a full FIFO.                             *)
(***************************************************************************)
EXTENDS Integers, Sequences

CONSTANTS
    LAST,               \* number of the last portion, 255 in the code
    MAX_MCU_RETRIES, EMPTY_RETRIES,     \* 30 and 500 in the code
    RETRIES_RANGE,      \* values of MCU_retries, a uint8_t: 256
    MAX_CMDS            \* bound: commands

ASSUME McuAssumption ==
    /\ LAST \in Nat \ {0} /\ MAX_CMDS \in Nat
    /\ MAX_MCU_RETRIES \in Nat /\ EMPTY_RETRIES \in Nat
    /\ RETRIES_RANGE \in Nat /\ RETRIES_RANGE > MAX_MCU_RETRIES

\* The limit of the middle wait is out of the range of its counter (line 1128).
ASSUME EmptyWaitAssumption == EMPTY_RETRIES >= RETRIES_RANGE

VARIABLES
    pc,                             \* SPI access that is next, or "idle"
    last_portion, current_portion, mode, MCU_retries,
    reply,                          \* status of the last answer, or "none"
    fifo, loaded, programmed,       \* MCU: portion in its FIFO, portions taken
    running,                        \* MCU takes portions: not in reset or boot
    cmds

fwVars == <<pc, last_portion, current_portion, mode, MCU_retries, reply>>
mcuVars == <<fifo, loaded, programmed, running>>
vars == <<fwVars, mcuVars, cmds>>

NoPortion == -1

\* PROG_MODE: one of the two that program, BOOT_MCU, or any other
PROG_MODES == {"prog", "boot", "other"}

Init ==
    /\ pc = "idle" /\ last_portion = 0 /\ current_portion = 0 /\ mode = "prog"
    /\ MCU_retries = 0 /\ reply = "none"
    /\ fifo = NoPortion /\ loaded = <<>> /\ programmed = FALSE /\ running = FALSE
    /\ cmds = 0

-----------------------------------------------------------------------------

RightOrder(p) == p = 0 \/ last_portion = p - 1

Command(p, m) ==
    /\ pc = "idle" /\ cmds < MAX_CMDS /\ cmds' = cmds + 1
    /\ current_portion' = p /\ mode' = m
    /\ IF RightOrder(p)
       THEN pc' = (IF p = 0 THEN "reset" ELSE "wait_fifo") /\ reply' = reply
       ELSE pc' = "idle" /\ reply' = "wrong_order"
    /\ MCU_retries' = 0
    /\ UNCHANGED <<mcuVars, last_portion>>

McuReset ==
    /\ pc = "reset" /\ pc' = "mode"
    /\ fifo' = NoPortion /\ loaded' = <<>> /\ programmed' = FALSE /\ running' = FALSE
    /\ UNCHANGED <<cmds, last_portion, current_portion, mode, MCU_retries, reply>>

\* PROG_EEPROM and PROG_SRAM make the MCU take portions.  A mode the switch does
\* not know leaves it in reset, and the portion is sent all the same.
McuMode ==
    /\ pc = "mode"
    /\ running' = (mode = "prog")
    /\ IF mode = "boot"
       THEN pc' = "idle" /\ reply' = "completed"
       ELSE pc' = "wait_fifo" /\ reply' = reply
    /\ UNCHANGED <<cmds, last_portion, current_portion, mode, MCU_retries,
                   fifo, loaded, programmed>>

\* One round of a wait: on to `next' when the status bit is set or the tries
\* are used up, else one try more.
Poll(bit, limit, next) ==
    /\ MCU_retries' = IF MCU_retries < limit /\ ~bit
                      THEN (MCU_retries + 1) % RETRIES_RANGE
                      ELSE MCU_retries
    /\ pc' = IF MCU_retries < limit /\ ~bit THEN pc ELSE next

WaitFifo ==
    /\ pc = "wait_fifo"
    /\ Poll(fifo = NoPortion, MAX_MCU_RETRIES, "write")
    /\ UNCHANGED <<mcuVars, cmds, last_portion, current_portion, mode, reply>>

\* a FIFO that was not empty is overrun: what is in it is no portion
Write ==
    /\ pc = "write" /\ pc' = "wait_empty"
    /\ fifo' = IF fifo = NoPortion THEN current_portion ELSE LAST + 1
    /\ MCU_retries' = 0
    /\ UNCHANGED <<cmds, last_portion, current_portion, mode, reply,
                   loaded, programmed, running>>

Emptied == fifo = NoPortion

\* The end of the wait also resets the retries for the next one.
WaitEmpty ==
    /\ pc = "wait_empty"
    /\ \/ /\ ~(MCU_retries < EMPTY_RETRIES /\ ~Emptied)
          /\ MCU_retries' = 0
          /\ IF current_portion = LAST
             THEN pc' = "wait_programmed" /\ UNCHANGED <<last_portion, reply>>
             ELSE pc' = "idle" /\ last_portion' = current_portion /\ reply' = "completed"
       \/ /\ MCU_retries < EMPTY_RETRIES /\ ~Emptied
          /\ MCU_retries' = (MCU_retries + 1) % RETRIES_RANGE
          /\ UNCHANGED <<pc, last_portion, reply>>
    /\ UNCHANGED <<mcuVars, cmds, current_portion, mode>>

\* Fault: a time-out of the last wait is no error.
TimedOut_Never == FALSE

TimedOut == MCU_retries = MAX_MCU_RETRIES

WaitProgrammed ==
    /\ pc = "wait_programmed"
    /\ Poll(programmed, MAX_MCU_RETRIES, "idle")
    /\ IF MCU_retries < MAX_MCU_RETRIES /\ ~programmed
       THEN UNCHANGED <<last_portion, reply>>
       ELSE /\ last_portion' = current_portion
            /\ reply' = IF TimedOut THEN "error" ELSE "completed"
    /\ UNCHANGED <<mcuVars, cmds, current_portion, mode>>

-----------------------------------------------------------------------------
(* The MCU, external.                                                      *)

Take ==
    /\ running /\ fifo # NoPortion
    /\ fifo' = NoPortion /\ loaded' = Append(loaded, fifo)
    /\ UNCHANGED <<fwVars, programmed, running, cmds>>

InOrder(s) == s = [i \in 1 .. Len(s) |-> i - 1]

Finish ==
    /\ running /\ ~programmed /\ Len(loaded) = LAST + 1 /\ InOrder(loaded)
    /\ programmed' = TRUE
    /\ UNCHANGED <<fwVars, fifo, loaded, running, cmds>>

-----------------------------------------------------------------------------

Firmware ==
    \/ McuReset \/ McuMode \/ WaitFifo \/ Write \/ WaitEmpty \/ WaitProgrammed

Host == \/ \E p \in 0 .. LAST : Command(p, "prog")
        \/ \E m \in {"boot", "other"} : Command(0, m)

Next == Host \/ Firmware \/ Take \/ Finish

Spec == Init /\ [][Next]_vars

\* The firmware runs; nothing is asked of the MCU.
FairSpec == Spec /\ WF_vars(Firmware)

-----------------------------------------------------------------------------

TypeOK ==
    /\ pc \in {"idle", "reset", "mode", "wait_fifo", "write", "wait_empty", "wait_programmed"}
    /\ last_portion \in 0 .. LAST /\ current_portion \in 0 .. LAST
    /\ mode \in PROG_MODES /\ MCU_retries \in 0 .. RETRIES_RANGE - 1
    /\ reply \in {"none", "completed", "error", "wrong_order"}
    /\ fifo \in NoPortion .. LAST /\ Len(loaded) <= LAST + 1
    /\ programmed \in BOOLEAN /\ running \in BOOLEAN /\ cmds \in 0 .. MAX_CMDS

\* A portion is completed only when the MCU holds it and all portions before
\* it, each once, in any order of the host's commands (lines 1005-1143).
AcceptedInOrder ==
    pc = "idle" /\ reply = "completed" /\ mode # "boot" =>
        loaded = [i \in 1 .. current_portion + 1 |-> i - 1]

\* The last portion is completed only by an MCU that says it is programmed
\* (lines 1146-1171).
ProgrammedAtEnd ==
    pc = "idle" /\ reply = "completed" /\ current_portion = LAST => programmed

\* Every command is answered, whatever the MCU does (line 1249).
Answered == pc # "idle" ~> pc = "idle"
=============================================================================
