------------------------------- MODULE MCHal --------------------------------
(***************************************************************************)
(* The parts of the hardware abstraction layer on small instances.  They   *)
(* share no state: part says which of them a behaviour is about, and the   *)
(* others rest in an initial state.                                        *)
(***************************************************************************)
EXTENDS SpiMaster, FdTable, Uart, Irq, Alarms

VARIABLE part

halVars == <<part, spiVars, fdVars, uartVars, irqVars, alarmVars>>

HalInit ==
    /\ part \in {"spi", "fd", "uart", "irq", "alarms"}
    /\ SpiInit /\ FdInit /\ UartInit /\ IrqInit /\ AlarmInit
    /\ part # "spi" => rxdata = Empty
    /\ part # "fd" => stdio = DevNull.name
    /\ part # "alarms" => nticks = 0

Spi(A) == part = "spi" /\ A /\ UNCHANGED <<part, fdVars, uartVars, irqVars, alarmVars>>
Fd(A) == part = "fd" /\ A /\ UNCHANGED <<part, spiVars, uartVars, irqVars, alarmVars>>
Serial(A) == part = "uart" /\ A /\ UNCHANGED <<part, spiVars, fdVars, irqVars, alarmVars>>
Interrupts(A) == part = "irq" /\ A /\ UNCHANGED <<part, spiVars, fdVars, uartVars, alarmVars>>
Clock(A) == part = "alarms" /\ A /\ UNCHANGED <<part, spiVars, fdVars, uartVars, irqVars>>

HalNext == Spi(SpiNext) \/ Fd(FdNext) \/ Serial(UartNext) \/ Interrupts(IrqNext) \/ Clock(AlarmNext)

\* The fairness of the parts: what runs the processor, what waits for it and what
\* sends.  Conditions of different parts are taken together, for only one part
\* moves in a behaviour.
HalSpec ==
    /\ HalInit /\ [][HalNext]_halVars
    /\ WF_halVars(Spi(SpiCode) \/ Serial(Handler) \/ Clock(TickSteps))
    /\ WF_halVars(Spi(Shifted) \/ Serial(Program))
    /\ WF_halVars(Serial(LoadShifter \/ SentOut))

-----------------------------------------------------------------------------

MCDrivers == <<[name |-> <<"dev", "uart">>, fns |-> {"close", "read", "write"}], None>>
MCFileSystems == <<[name |-> <<"mnt">>, fns |-> {"open", "read", "lseek", "fstat", "ioctl"}]>>
MCStdio == {DevNull.name, <<"dev", "uart">>}
MCFiles == {DevNull.name, <<"dev", "uart">>, <<"mnt", "f">>, <<"x">>}
MCFlags == {{}, {"RDWR", "EXCL", "DEV"}}

\* Whoever waits in the layer gets on: a call of the SPI driver ends
\* (altera_avalon_spi.c lines 79-125), a call of the UART driver does, unless the
\* handler has run over characters, and a tick gets to the end of the list
\* although its callbacks change it (alt_tick.c lines 104-142).
CallsEnd ==
    spi_at # "done" \/ UartCallWaits \/ visit # "list"
        ~> spi_at = "done" /\ (call = "none" \/ lost) /\ visit = "list"
=============================================================================
