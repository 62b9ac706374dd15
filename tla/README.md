# TLA+ models of the LimeSDR-PCIe gateware

The repository holds the FPGA gateware of the LimeSDR-PCIe board (VHDL under
`src/src`), the firmware of its soft processor (C under
`src/software/lms_ctr_app`) and the layer the firmware runs on
(`src/software/lms_ctr_bsp`).  This directory specifies the parts of the three that
hold control logic, checks them with TLC on small instances, and
proves what matters most with TLAPS.

Sections 1 and 2 say what the system is and what can go wrong in it, section 3
maps modules to code, section 4 goes through the runs, section 5 through the
proofs, section 6 lists what was seen, section 7 what is left out, and section 8
is the plan.

## 1. The system

    host --PCIe--> pcie_top --> one_pct_fifo --> packets2data --> bit_unpack_64
                                (pct_separate)   (p2d_wr_fsm,      |
                                                  ring, p2d_rd)    v
      LMS7002M <-- txiqmux <-- fifo2diq (txiq, txiq_ctrl) <-- sample FIFO
                     ^
                     +-- wfm_player <-> DDR2

    LMS7002M --> diq2fifo --> sample FIFO --> bit_pack --> data2packets
                    |            (data2packets_fsm, smpl_cnt)  |
                    v                                          v
                 smpl_cmp <-> pll_ps_fsm <-> pll_ps <-> PLL   packet FIFO --PCIe--> host

    host --64-byte commands--> NIOS: main.c --SPI--> flash, LMS7002M and its MCU,
                                       |             configuration registers, DAC, ADF
                                       +------I2C--> EEPROM, LM75, Si5351
                                       |
                                HAL and drivers: SPI, UART, interrupts, alarms,
                                file descriptors

### Components

| component | state it keeps | operations | talks to |
|---|---|---|---|
| packet separation: `pct_separate_fsm`, `one_pct_fifo` | FSM (3 states), read and write counters, packet size, data FIFO, header FIFO, reset synchroniser, `pct_words` | cut the word stream of the host into packets, offer a packet once it is complete, clear it | host FIFO, `p2d_wr_fsm` |
| packet buffers: `p2d_wr_fsm`, ring of FIFOs, `p2d_rd` | two FSMs (10 and 6 states), two ring positions, header slots, size registers, comparator pipelines | read a header, drop a late packet, copy a packet to the ring; start a packet on its sample number, drop it if late, read it, hold while the sample FIFO is full | packet FIFO, sample counter, unpacker |
| TX samples: `packets2data_top`, `bit_unpack_64`, `fifo2diq` | unpacker registers, sample FIFO and full flag, `txiq` FSM and shift registers, `txiq_ctrl` FSM and burst counters | unpack 12- or 16-bit samples, buffer, put on the bus in the interface's mode, send bursts on pulses, switch the antenna | ring, registers, LMS7002M |
| RX packets: `data2packets_fsm`, `bit_pack`, `data2packets`, `smpl_cnt` | sample and packet FIFO, two FSMs, packer, header registers, sample counter and its delay chain | read a packet's worth of samples, pack, put headers in front, leave out a whole packet when the host is slow | `diq2fifo`, host FIFO |
| phase search: `pll_ps_top`, `pll_ps_fsm`, `pll_ps`, `smpl_cmp` | search FSM (12 states) and step registers, shift FSM, comparator FSM, synchronisers of two clocks | search the eye of the interface, go to its middle, manual shift | PLL, RX samples, host registers |
| bitstream to flash: `CMD_ALTERA_FPGA_GW_WR`, `spi_flash_lib` | page under construction and its counters, retries; the flash itself | portions to pages, erase sectors, poll, answer | flash, host |
| MCU program: `CMD_LMS_MCU_FW_WR` | last and current portion, retries | check the order, reset, choose a mode, three polled waits | MCU of the LMS7002M, host |
| WFM player: `wfm_player`, `wfm_wcmd_fsm`, `wfm_rcmd_fsm`, `DDR2_arb` | write and read address, last address, two FSMs, FIFOs, arbiter | load a waveform, play it in a loop | PCIe, DDR2, `txiqmux` |
| TX glue: `tx_path_top` | loss flag, crossing of the sample number, ready count | wiring | all of TX, RX header |
| RX capture: `diq2fifo`, `rxiq*` | shift registers by interface mode, frame alignment | samples to 48/64-bit words | LMS7002M, sample FIFO |
| PCIe: `pcie_top`, `stream_switch`, `pct_payload_extrct` | five FIFOs around the Xillybus core | streams, control channel, WFM payload | host |
| PLL tops, `config_ctrl`, `pll_reconfig_status` | reconfiguration FSM, status registers | reconfigure, reset, choose the PLL | vendor cores, registers |
| registers: `cfg_top`, `fpgacfg`, `pllcfg`, `pll_ctrl`, `mcfg32wm_fsm`, ... | register arrays, SPI shift FSM | read, write | everything |
| control processor: `main.c`, `i2c_opencores.c` | command and answer, DAC value, state of the chips on two buses | start-up, the commands of the loop, restart | host, all chips |
| SPI driver: `altera_avalon_spi.c` | credits, counters; transmit, shift and receive register | one call, one exchange | chips, `main.c` |
| UART driver: `altera_avalon_uart_*.c` | two rings, control word | read, write, close, interrupt handler | program, line |
| HAL: descriptors | devices, file systems, pool, locks, flags | start-up, open, close, ioctl, fcntl, read, write, lseek, fstat, isatty | drivers |
| HAL: interrupts, alarms | table of handlers, enable registers; list of alarms, tick counter | register, enable, disable, dispatch; start, stop, tick | devices, program |
| `txiqmux`, `lms7002_ddout`, `pulse_gen`, self test, LEDs, GPIO, fan | pipeline registers and counters | | board |

`src/ip` and `src/lms_ctr` are vendor or generated code; of `src/software/lms_ctr_bsp`,
which is the vendor's too, the parts the firmware stands on are modelled, as what
they promise is used by every command.
`tx_packets`, `rx_path`, `tx_modules`, `testing`, `data_manipulation`, `p2d_rd_fsm`,
`p2d_sync_fsm`, `p2d_clr_fsm` and `handshake_sync` are not instantiated by the top.

### What is hard

There are no threads in the gateware; what is concurrent is registers that all move at
once, state machines that look at each other's outputs some clocks late, FIFOs
whose two sides disagree for a while, and clocks without a relation.  In the firmware
it is interrupt handlers, chips that work on while the processor does something
else, and a restart at any moment.  The hazards recur:

* *a latency counted in clocks*: a state waits for a number of clocks until a
  value has come through a pipeline (`p2d_wr_fsm` 221-226, `rx_path_top` 326-345,
  `pll_ps_fsm` 298-303).  One too few and the decision is about the value before,
  which is most of the time the same;
* *a level that lags*: full and empty flags and word counts come out of
  synchronisers (`packets2data_top` 99-110, `data2packets_top` 115-141), and
  words are already under way when they change;
* *a decision used later*: room for a packet is checked before its samples are
  read (`data2packets_fsm` 54-67); `txiq` reads ahead of the counter that ends
  the burst;
* *a request that is an edge*, or given up half way (`pll_ps_fsm` 206);
* *a device that is busy or silent*: flash and MCU are polled with a limit,
  commands to a busy flash are ignored, a chip on the I2C bus may not acknowledge
  in the middle of a command (`spi_flash_lib.c`, `main.c`);
* *two drivers of one thing*: DAC and ADF both tune the TCXO, and a restart of
  the FPGA leaves both chips as they are (`main.c` 284-297, 640-709);
* *a handler between two lines*: the UART handler between any two steps of a read
  or a write, a device interrupt while its table entry is half written
  (`altera_avalon_uart_*.c`, `alt_iic_isr_register.c`);
* *a list changed while it is walked, a counter that rolls over* (`alt_tick.c`);
* *off by one in sizes* that three modules derive from one constant.

`PROJECT.json` lists the hazards one by one with the properties that cover them.

### What makes each component correct

* TX front: each packet of the host is offered once, whole and in order, whatever
  gaps the stream has; after a clear nothing of the old packet is left.
* Packet buffers: packets leave in order, whole, unmixed; synchronised ones start
  when the counter has reached their number; only late ones are dropped; no
  packet waits for ever.
* TX samples: no sample is lost, doubled or reordered on the way to the bus;
  bursts have exactly their length; the antenna is on while samples are out.
* RX packets: the stream is whole packets, each with the number of its first
  sample; left out only whole; no sample is lost silently.
* Phase search: it ends in the middle of the eye; success is never reported of a
  phase outside; nothing moves while samples are compared; every request is
  answered.
* WFM player: what is played is the waveform loaded last, round and round, and it
  does not stop by itself.
* Flash: what is answered with *completed* is stored.  MCU: what is answered with
  *completed* is in the MCU, in order; every command is answered.
* Control processor: *completed* means done, all of it and nothing else; a read
  returns what the chip holds; DAC and ADF never drive together; every command
  leaves the I2C bus free; start-up restores what the EEPROM holds.
* HAL and drivers: a call is one exchange of bytes; characters arrive once and in
  order; exclusive access is exclusive and no descriptor is lost; a handler
  is called with its own context and never where it is disabled; alarms expire at
  their tick.

## 2. Modelling choices

* **One action is one clock edge.**  All registers of one clock move together, so
  a synchronous component has one action `Clock`, whose conjuncts are its
  processes, each an operator named after its process or register.  FSM states
  keep the names of the source, and each state of an FSM is an operator of its
  own.  What the environment may do in a clock is a parameter of `Clock` and is
  quantified in `Next`.  Components on unrelated clocks, the phase search and
  the player, have one action per clock edge, interleaved.
* **Software is cut at what the rest of the world can see.**  In the firmware a step is
  one transaction on a bus and the code up to the next; a command is the list of
  its transactions.  In the drivers a step is one access to a register or to a word
  shared with a handler.  Code under disabled interrupts, and a call of the
  single-threaded layer of descriptors, is one step.
* **Registers count.**  Whether a value comes one clock earlier or later is what
  most properties are about, so every register on the way of a decision is a
  variable; registers that only carry a value along with another are merged.
* **FIFOs are external** (Altera megafunctions) and are modelled by their
  contents and by how late each side sees the other.  In `Packets2Data` that delay is
  left open, for each side of each buffer on its own (`Crossings`), in `DcFifo` it is a shift register of
  `SYNC_STAGES`.
* **Data is identity.**  A packet is a record with an identity, its sample number,
  its synchronisation bit and its size; a word is `<<packet, index>>`, a sample
  its number, a byte `<<bitstream, place>>`.  What a packer does to bits is modelled
  by which samples a word is made of.
* **Parts that share no state are run together** (`MCHal`, `MCTxSamples`, and the host's
  `tool` in `Firmware`): a variable set in the initial state says which part moves, the others
  rest.  The state space is the sum of theirs and not the product.
* **Histories** (`queue`, `emitted`, `slot`, `offered`, `popped`, `burst`, `intact`) count
  what the code does not and are read only by properties.
* Definitions called `X_Something` under a comment `Fault:` are wrong versions of
  `X`, like a bug that could be in that code.  Nothing uses them; each is kept
  because putting it in the place of `X` makes TLC find the violation of a
  property that `PROJECT.json` names.

## 3. Modules and code

Every definition that stands for code is listed in `PROJECT.json` under `map` with
its file and lines.

| module | stands for | kind |
|---|---|---|
| `TxBuffers` | what the packet buffer entities share: packets, ring step, comparator pipeline | definitions |
| `P2dWrFsm` | `p2d_wr_fsm.vhd` | component |
| `P2dRd` | `p2d_rd.vhd` | component |
| `PctFifo` | what `packets2data` sees of the packet FIFO before it | abstract specification |
| `Packets2Data` | `packets2data.vhd`: both FSMs, ring, size registers, sample counter, full flag | composition |
| `TxQueue` | what the packet buffers promise: a queue of packets | abstract specification |
| `Packets2Data_proofs` | `Packets2Data` for any ring, packets and timing | proofs |
| `DcFifo` | pointers of `fifo_inst.vhd` | definitions |
| `OnePctFifo` | `one_pct_fifo.vhd` with `pct_separate_fsm.vhd` | component |
| `TxFront` | `OnePctFifo` and `P2dWrFsm` as `tx_path_top.vhd` wires them; implements `PctFifo` | composition |
| `TxFront_proofs` | `TxFront` for any packets, gaps and pointer delays | proofs |
| `TxRegs` | the registers of `fpgacfg.vhd` that set up the back of TX | definitions |
| `BitUnpack` | `bit_unpack_64.vhd`, `unpack_64_to_48.vhd`, `unpack_64_to_64.vhd` | component |
| `TxIq` | `txiq.vhd`, `txiq_ctrl.vhd`, `fifo2diq.vhd` | component |
| `TxSamples` | `packets2data_top.vhd` with the two above and the sample FIFO | composition |
| `TxSamples_proofs` | `TxSamples` for any depth of the sample FIFO, settings, gaps and pulses | proofs |
| `Data2Packets` | `data2packets.vhd` | component |
| `RxPackets` | `data2packets_top.vhd`, `data2packets_fsm.vhd`, `bit_pack.vhd`, `smpl_cnt.vhd`, delay chain of `rx_path_top.vhd` | composition |
| `RxStream` | what the RX path promises: whole, numbered packets | abstract specification |
| `RxPackets_proofs` | `RxPackets` for any packet size, FIFOs and rates | proofs |
| `PllPs`, `PllPsFsm`, `SmplCmp` | `pll_ps.vhd`, `pll_ps_fsm.vhd`, `smpl_cmp.vhd` | components |
| `PhaseSearch` | the three with their synchronisers (`tx_pll_top.vhd`, `rx_path_top.vhd`), PLL and host | composition |
| `PhaseSearch_proofs` | `PhaseSearch` for any eye, numbers of steps and rates of the clocks | proofs |
| `WfmCmd` | `wfm_player.vhd`, `wfm_wcmd_fsm.vhd`, `wfm_rcmd_fsm.vhd` | component |
| `Ddr2Arb` | `DDR2_arb.vhd` with the memory controller, external | component |
| `WfmPlayer` | the two with their FIFOs (`wfm_player_top.vhd`), host and transmitter | composition |
| `FlashProg` | `CMD_ALTERA_FPGA_GW_WR` of `main.c` with `spi_flash_lib.c`, and the flash, external | component |
| `McuFw` | `CMD_LMS_MCU_FW_WR` of `main.c` with the MCU, external | component |
| `I2cBus` | `i2c_opencores.c` with EEPROM, LM75 and Si5351, external | component |
| `Commands` | start-up and the other commands of `main.c` | component |
| `Firmware` | the whole of `main.c`: `Commands`, `FlashProg`, `McuFw`, restarts | composition |
| `Firmware_proofs` | `FlashProg` for any page, sector, bitstreams and times, `McuFw` for any number of portions and tries, and the program with its `Commands` | proofs |
| `SpiMaster` | `altera_avalon_spi.c` with the SPI core | component |
| `Uart` | `altera_avalon_uart_*.c` with the UART core | component |
| `FdTable` | `alt_main.c`, `alt_open.c`, `alt_close.c`, `alt_ioctl.c` and the rest of descriptors | component |
| `Irq` | `alt_iic*.c`, `alt_irq_*.c`, `alt_irq.h` | component |
| `Hal_proofs` | `FdTable` for any pool, devices, flags and calls, `Irq` for any interrupts and handlers, `SpiMaster` and `Uart` for any calls, `Alarms` for any counter and alarms | proofs |
| `Alarms` | `alt_alarm_start.c`, `alt_tick.c`, `alt_alarm.h`, `alt_llist.h` | component |
| `MC...` | small instances: packet sets, settings, eyes, commands, devices | model checking |

The TX path is cut twice, at the packet FIFO and at the sample FIFO, because the
whole is beyond an explicit-state checker.  The first cut is closed by a
refinement: `TxFront` shows that the packet FIFO in front of a real write FSM is
the `PctFifo` that `Packets2Data` assumes.  At the second the left side assumes a
full flag that rises only while words are under way and falls at any time, and
the right side a source that sends words at any time until the flag is up: each
assumes less than the other gives.

The firmware is composed from the top: `Firmware` interleaves `Commands`, `FlashProg` and
`McuFw` as the loop of `main.c` does, one command at a time, and adds what they do to
each other (the reset pin stops the MCU, a restart clears all three).  They see the
buses as exchanges that are whole; that the SPI driver makes them so is what
`SpiMaster` shows.

## 4. What is checked

Twelve runs, each with its own question.

| run | module | distinct states | question |
|---|---|---|---|
| `p2d_ring` | `MCPackets2Data` | 356 530 | Do the buffers implement the queue, and does every packet finish? |
| `p2d_timing` | `MCPackets2Data` | 229 058 | Are only late packets dropped, and do packets start on time? |
| `tx_front` | `MCTxFront` | 340 995 | Is the packet FIFO the one assumed, with no word left behind? |
| `tx_samples` | `MCTxSamples` | 620 169 | Do all samples reach the bus, in exact bursts, under the antenna, and is the waveform played as it was loaded? |
| `rx_packets` | `RxPackets` | 418 000 | Is the RX stream whole packets, numbered rightly? |
| `phase_auto` | `MCPhaseSearch` | 3 382 554 | Does an undisturbed search end in the middle? |
| `phase_retry` | `MCPhaseSearch` | 191 923 | And with a host that gives up and a PLL that is late? |
| `firmware` | `MCFirmware` | 125 047 | Is what was answered with *completed* true, whatever the host asks, chips refuse and restarts cut off? |
| `hal` | `MCHal` | 332 043 | Do drivers and HAL keep what the firmware relies on, under interrupts at every step? |
| `flash_uneven` | `FlashProg` | 146 | violation: portions that do not divide a page |
| `flash_fast_host` | `FlashProg` | 314 | violation: erase while a page is programmed |
| `mcu_hang` | `McuFw` | 109 | violation: the endless wait |

### Packet buffers (`p2d_ring`, `p2d_timing`)

`RefinesTxQueue` is the main result: with `queue` and `emitted` as the abstract state and
the output port as `out`, every clock of the buffers is a step of `TxQueue` or leaves it
alone.  Words leave in order and unmixed, a synchronised packet does not start
before its number, and it is dropped only whole and late.  `BufferMatchesHeader`
relates each buffer to its header slot and size register: the write FSM puts a
header there before it knows whether the packet stays.  `RingSafe` says that no FSM
leans on the underflow checking of the FIFOs, and that the ring does
not wrap onto the buffer being read.  `EveryPacketFinishes` is the liveness property.
`p2d_timing` uses packets with different numbers, without synchronisation and
without a size: `WrDropsOnlyLate` and `StartsOnTime` are action properties about the two
comparators, `WrHeaderInv` is the inductive invariant of section 5.

*Bounds.*  Two buffers are the least the ring counters allow (`BuffCountAssumption`;
the code has four) and the hardest: the next buffer is the one after it too.  Three
packets fill the ring and wait for it.  Payloads are of 4 and 6 words, that is three
and four words of 128 bits with the header; the counters only compare with the size.  The sample
counter goes past every sample number.

*Fairness.*  `WF(Next)`: the clock runs.  That the counter reaches `MAX_NR`, the
pointers catch up, the words land and the full flag falls is stated as `[]<>`,
because each is a choice every clock has: the LMS7002M delivers samples all the time, the
synchronisers are a fixed number of registers, and `txiq` reads the sample FIFO
whenever it is enabled.

### TX front (`tx_front`)

`RefinesPctFifo` closes the first cut.  `NoWriteWhileClearing` and `HeaderMeetsItsPacket` are about
what nothing in the code waits for: that the FIFOs have left reset before the next
packet's words come, and that the size arrives while the data FIFO holds its
packet and is not read, else `pct_words` stays at all ones and the packet is never offered.
`AllTaken` is the liveness property.

*Bounds.*  Two packets of the three kinds of `FrontPackets`, so that a second follows each
kind, taken or cleared.  `SYNC_STAGES` is 2; the safety properties were also checked with 1 and 4.
*Fairness.*  The clock, a host that sends what it has, packet
buffers that get empty (`EveryPacketFinishes` is why they do).

### TX samples and the waveform player (`tx_samples`)

The transmitter has two sources of samples, and `source` says which one a behaviour is
about.

*The stream.*  Five settings (`MCConfigs`) of width, interface mode and bursts.
`SamplesInOrder` follows each sample through the unpacker and the FIFO, with the words under
way when the full flag rises (one that does not fit is lost, and the order broken), and
says that shift registers are not reloaded too early, `BurstIsExact` that a pulse sends its burst and no word more,
`AntennaOn` that the antenna is on while samples of the host are on the bus.

*Bounds.*  33 words are ten groups of three through a FIFO of ten double words: it
fills, the flag interrupts the source at every phase of the unpacker, and it
drains.  The full flag rises when more than `FIFO_WORDS - 9` words are used, as in the code:
it keeps room for eight.

*The player.*  The host loads a waveform, plays it, stops and resumes it, and may load
another.  Write commands come from the TX clock, read commands from the memory's; the
address of the last word crosses from one to the other beside the load signal
whose falling edge latches it.  `PlaysTheWaveform` says that what comes out is the
waveform loaded last, from where it was stopped, round and round; it breaks when
a read overtakes the last writes, when the last address is latched from the load
before, or when the two halves of a burst come apart.  `PlaysOn` says that it does not stop
by itself: neither side may wait for a word that the other keeps.

*Bounds.*  Waveforms of 2 and 5 words, one whole burst and two with a single
word at the end; four requests, any mix of loads, stops and resumes, so that a second
waveform is loaded over a first that plays; a memory of 6 addresses; command FIFOs of 2 and 3; the synchronisers of the FIFOs show a command two clocks
late.  Larger instances (sizes 2 to 5, two loads, three toggles, 1.3 million
states) were checked as well.  `STEADY` lets the words of a load come
two by two, as they do while the stream keeps the input FIFO ahead of the TX clock, and `IDLE_UNREADY = FALSE` keeps the
controller ready while nothing is asked of it: section 6 says what happens without
either.  *Fairness.*  Both clocks run, the controller is ready again and again, what was
read arrives, the transmitter takes it; nothing is asked of the host.

### RX packets (`rx_packets`)

`RefinesRxStream` is the main result: the written words are a behaviour of `RxStream`.
It depends on the seven registers between sample counter and header matching the
latency of a path that is four clocks longer for packed samples than for plain
ones.  `NoWordLost` says that what is let into the packet FIFO fits, and that no word comes
while the formatter flushes, as a comment of `data2packets.vhd` asks of its user;
`SamplesKept` is the limit of the sample FIFO, `PacketsFormed` the liveness property.

*Bounds.*  Packets of 14 words (512 in the code) carry 12 data words, four packing
groups; 60 sample words make three to five packets; the packet FIFO holds two, so that
some are left out.  Samples come every two clocks, the fastest at which the reading
keeps up, and the sample FIFO is no deeper than that needs.  *Fairness.*  The clock runs.

### Phase search (`phase_auto`, `phase_retry`)

`PhasesAreExact` has three parts: the end of a search is what a reference (`Middle`) computes
from the set of good phases, the step counter is the PLL's phase, and a manual shift
moves it by what was asked.  `StillWhileComparing` says that the phase
rests while samples are compared.  `SuccessIsInEye` holds even when the host drops a request in the
middle and asks again, and when the PLL is late and steps get lost.  `Answered` is the
liveness property.  The three safety properties are proved (section 5).

*Bounds.*  23 eyes and more in 16 phases, among them none, one that reaches either end
and two in one range; step sizes 1, 2 and 5; two requests.  `phase_retry` has the steps
of an impatient host in every state and a smaller range, which is why it is a run of its
own.  *Fairness.*  Both clocks run, the PLL locks and answers in the end (`SLOW_PLL`:
maybe after `pll_ps` gave up).  *Deadlock* is not checked here and in the firmware runs: after the
last request, portion or command the system rests.

### Firmware (`firmware` and the three violations)

The host of a behaviour is a tool: one that updates the flash, one that loads the MCU
and resets the LMS7002M in between, or one that sends any two of 39 commands
(`MCCalls`: block counts of none, one, two and too many, addresses that repeat
and wrap, both TCXO sources, each chip on the I2C bus).  Any chip may refuse
to acknowledge at any byte, the EEPROM refuses while it stores, and the FPGA may
restart before any transaction.

`AnswersAreTrue` is the contract of the loop: a command answered with *completed* did
what it says: all blocks of a write are in the chip, in the EEPROM nothing else has changed, and what it
read is what the chip holds.  It claims nothing of `LMS_RST` and of unknown channels of `ANALOG_VAL_RD`.
`TcxoExclusive` says that DAC and ADF never drive the TCXO together, across restarts
in the middle of handing it over; `BusReleased` that a command leaves the I2C bus
free, also when it fails; `StartsWithStored` that start-up drives the value the EEPROM
holds, or the default if it is blank, after the first and every later start.  `Confirmed`
says that after an answer *completed* every byte sent so far is in flash or
on the page under construction, `ImageStored` that the whole bitstream is in flash once the
empty portion is answered so.  Both hold over erases and programs that time out,
portions sent again and bitstreams begun anew, provided that portions divide the page and the host is
slow (`SLOW_HOST`); two violations show what happens otherwise (section 6).
`AcceptedInOrder` says that a completed portion is in the MCU behind all before it,
each once, whatever order the host sends them in and whenever the LMS7002M is reset;
`ProgrammedAtEnd` that a time-out at the end is an error.  `LoopGoesOn` is the liveness property: start-up
ends and every command is answered, but for the portions of an MCU program (`mcu_hang`).

*Bounds.*  Pages of 4 bytes, sectors of 2 pages, sizes one below, at and one above a page
end and the limit; two bitstreams, so that one begins over the rest of another.  Four
portions and seven commands: a whole load with three commands that are out of order.
The 8-bit counter and its limit of 500 are scaled to a range of 4 and a limit of 5: what
matters is that the limit is beyond the range.  An EEPROM of 4 bytes with the DAC value at 1, so
that a write can cover the value, half of it, or wrap.  Two commands make every pair in which one
leaves something to the other (DAC value and stored value, ADF and DAC, GPIO
directions, a bus not released); one restart cuts either or the start-up.
*Fairness.*  The firmware runs; nothing is asked of flash, MCU, EEPROM or host.

### HAL and drivers (`hal`)

* *SPI driver.*  `OneExchange`: between select and release the chip sees the
  caller's bytes and zeros for the bytes to read, the caller gets the replies to those
  zeros and nothing older, and none is lost, however slow the processor is against
  the core.  This is the atomic exchange `Commands`, `FlashProg` and `McuFw` are
  built on.  Two calls of up to two bytes each way, all combinations of the flags that
  keep the select or start from a kept one; for any calls in section 5.
* *Descriptors.*  `OneHolder` and `NoFdLost`, section 5; a pool of six is three
  standard descriptors and three more, with two devices, a file system whose
  `open` may fail and both choices of standard I/O.
* *UART driver.*  `CharactersInOrder`: what is written goes out once and in order,
  what is read has come in that order.  The handler runs between any two steps of
  `read`, `write` and `close`; rings of 2 fill and wrap; for any calls in section 5.
* *Interrupts.*  `HandlersAreWhole`: a handler is called with its own context, never
  while it is being replaced, nor after it was disabled, nor in a guarded section
  of the program, which may itself register handlers and so nest (section 5).
* *Alarms.*  `AlarmsOnTime`: an alarm expires at the tick it is due although the
  counter and the alarm time roll over separately, and although callbacks start and
  stop alarms, their own too, while the list is walked.  A counter of 2 bits rolls over
  in every behaviour of six ticks; for any width in section 5.

`CallsEnd` is the liveness property of the three parts that wait.  *Fairness.*  The
processor and the handlers run, the cores shift out what they have; nothing is asked of
who sends.  *Deadlock* is not checked: after the last call the parts rest.

## 5. What is proved

The proofs are in `TxFront_proofs`, `Packets2Data_proofs`, `TxSamples_proofs`, `RxPackets_proofs`,
`PhaseSearch_proofs`, `Firmware_proofs` (with those about `FlashProg`, `McuFw` and `Commands`) and
`Hal_proofs` (the five parts of the HAL).  They hold for every value of the constants that the named assumptions allow; TLC evaluates the assumptions in each run of the modules.

### TX front

| theorem | property | says |
|---|---|---|
| `WritesAreOutsideReset` | `NoWriteWhileClearing` | both FIFOs are out of reset when `pct_separate_fsm` writes to them |
| `HeaderAndPacketMeet` | `HeaderMeetsItsPacket` | the header comes out of its FIFO while its packet is in sight and untouched |
| `FrontIsPctFifo` | `RefinesPctFifo` | `OnePctFifo` with `P2dWrFsm` behind it is the packet FIFO that `Packets2Data` assumes |

For any packets of even size and of four words or more (`FrontPacketsAssumption`, the same as `Packets2Data`
makes), any gaps in the stream, any number of clocks that a FIFO pointer takes to the other side
(`SyncStagesAssumption`), and any answers of comparator and buffers.  With `ImplementsQueue` below the chain
from the words of the host to the queue of packets is proved at both links; that the two specifications
share the write FSM, each with all inputs the other may give it, is what joins them.

`FrontInv` (`FrontPhases`) says that one packet at a time goes through four phases.

* `Empty`: nothing is held, no header is anywhere, the write FSM rests.  The FIFOs may still be in the
  reset of a clear; then `pct_separate_fsm` is at most so far that its first word arrives
  after the release: one state per flip-flop of the synchroniser (`EmptyNext`).
* `Filling`: the data FIFO holds the words written so far, in order.  `HeaderInv` follows the header
  from the register through the second FIFO to `pct_words`.  Nothing in the RTL makes it wait for the words: the reason
  that it never overtakes them is that the first word enters its pointer pipeline one
  clock before, so that at every stage the word is one stage ahead, whatever the number of stages (`HeaderFollows`).
  `pct_words` then can be equal to the number of words in sight only when all are in (`OfferWhole`).
* `Draining`: the write FSM has withdrawn the offer by its first request; `Taken` words are gone.
* `Dropping`: the one clock in which the FIFOs are cleared.

`HostInv` and `CutInv` are about the stream and the counters of `pct_separate_fsm`, and inductive on their own: the
size is known before it matters (`LastWord`), which needs three words per packet.  `TakeInv` is the write FSM's
part: what its clock counts say of the words it has.  The clear comes in `check_smpl_nr`, where exactly one word is
taken.  In the refinement the abstract FIFO gets its packet at the clock in which it is offered
(`HeldPacket`, `ClockRefines`).  The lemma behind the arithmetic is `ShiftCounts`: a shift moves the
steps of a pipeline without losing any, which is a bijection between two sets of stages.

### Packet buffers

| theorem | property | says |
|---|---|---|
| `TypeCorrect` | `TypeOK` | every register of the two FSMs and of `packets2data` keeps its range |
| `HeaderInStep` | `WrHeaderInv` | the write FSM's clock count matches where the header is |
| `DropsOnlyLate` | `WrDropsOnlyLate` | a packet is cleared from the packet FIFO only when it is the one whose header was read, is synchronised, and late |
| `RingIsSafe` | `RingSafe` | every word that is requested is there, and no word is written where the read FSM is |
| `BuffersMatchHeaders` | `BufferMatchesHeader` | a buffer holds words of the packet in its header slot, in order and without a gap |
| `PacketsStartOnTime` | `StartsOnTime` | a synchronised packet starts within four clocks of its sample number |
| `ImplementsQueue` | `RefinesTxQueue` | every clock is a step of `TxQueue` or leaves it alone |

Assumptions: at least two buffers (`BuffCountAssumption`), an even largest payload of four words
or more that fits 16-bit counters (`MaxPayloadAssumption`; 510 in the code), packets of even size up
to it and of four words or more (`PacketsAssumption`), a counter that ends (`PortsAssumption`).  Nothing is
assumed of the host, of the clock crossings or of the sample FIFO.

`WrDropsOnlyLate` alone is not inductive.  The write FSM clears a packet because of one
bit that leaves a comparator of several registers; that the bit is about *this* packet
depends on all that happened since the packet was offered.  `WrHeaderInv` says it state by
state: the header word is requested, on the FIFO output, in the header
register, *k* stages into the comparator, exactly as the clock count of the FSM
says, and the packet FIFO holds its packet all the while.  Each stage that says
*less* is right for the counter of now as well, because the counter only grows.  It
is inductive together with `TypeOK`.  The proof has one step per state of the FSM;
`PctFifoStep` says what a clock does to the packet FIFO as a function of the FSM's requests,
`CompareStep` what it does to the comparator, the other lemmas up to there are about types.

The last four follow from `P2dInv` (`RingCorrect`), which TLC checked first.  The two FSMs never speak to each
other.  What the write FSM knows of a buffer is an empty flag, what the read FSM knows is a
word count that was equal to the size register; both are late by an unknown number of
clocks.  The invariant says why that is enough.

* `RingInv` places the packets of the queue round the ring: from `Oldest`, the buffer that is
  read or read next, up to the one before `next_buff_cnt`.  `InQueue(i)` is that buffer *i* is among
  them.  A buffer is then *free*, *filled* (`IsFilled`), *full* or *read* (`IsRead`), and changes its role
  only in this order (`RoleStep`).
* `CopyInv` is the write side between commit and last word.  There is a clock count *u*
  such that `CopyAt(u)`: which words are requested, on the FIFO output, in the output
  register and counted, although the request line falls before the last words
  have arrived and the FSM waits for them in a state of its own.
* `HeaderAt` ties header slot, size register and the comparator of a buffer to its packet.  A header is
  stored before the packet is accepted, so it says so of the buffer that is next as well; the
  place for it is free (`NextIsFree`), or a packet in the queue would get the number of another.
* `WordsAt` gives the words of a buffer by its role, `CountsAt` what each side may conclude: the read
  count is never above the truth, and it is exact while the buffer is read (no underflow); a
  buffer that looks ready holds all of its packet; a buffer with a complete packet does not look
  empty, so the ring never wraps onto it.  `FullRing` is where that is used.
* `ReadInv` is the read side from the registered multiplexers to the output port: they are
  about the oldest packet whenever they say *ready*, at most one clock old, and the
  count of requests is one ahead of the words on the port.

`QueueStep` and `BuffStep` say what a clock does to the ring and to one FIFO by the roles; the parts are
then kept by `RingNext`, `CopyNext`, `HeaderNext`, `WordsNext`, `CountsNext` and `ReadNext`.  In the
refinement the packet leaves the queue when `p2d_rd` is past its last word (`FinishesLeaves`), and the word on the
port is word `emitted` of the oldest packet.

### TX samples

| theorem | property | says |
|---|---|---|
| `SamplesArriveInOrder` | `SamplesInOrder` | every word of the packet buffers is unpacked, goes through the sample FIFO and reaches the bus, once and in order |
| `BurstsAreExact` | `BurstIsExact` | a burst has as many words as the host asked for |
| `AntennaIsOn` | `AntennaOn` | the antenna is on while a sample of the host is on the bus |

For any sample FIFO of at least nine words (`FifoAssumption`: `fifo_limit` keeps eight free), any delay of
its pointers (`SyncStagesAssumption`), all widths and modes, any gaps between the reads and any
pulses.  The first theorem assumes nothing of the host.  The second assumes `BurstSizes`: in the pulse mode
the size is not zero and fits its 16-bit register.  With zero `txiq_ctrl` would count to 65536 words.  The
third assumes `AntennaKept`: `txant_cyc_after_en` fits its register and is long enough that the
last samples of a word are out, which is 0, 1 or 2 clocks by mode (`LastPosition`); the code leaves that to the
host.  The settings of the run satisfy both.

`SamplesInv` has five parts, each about one stretch of the pipeline.

* `SourceInv` and `UnpackInv` number the words: `Consumed` of 64 bits that went into the unpacker, `Written`,
  `AtMux0`, `AtOut`, `AtWord`, `Produced` of 128 bits at the registers behind it.  Each register holds the word
  whose number is the count of those before it, and `Produced` is what `Consumed` makes up, in whole groups
  of three words (or two) and the rest.
* `RoomInv` is why the FIFO never loses a word although `smpl_buff_almost_full` only stops the reads.  Its
  measure is `UnderWay`, the words that may still have to be written when nothing more is read: used words and
  those under way fit together.  A clock without a read only moves words from one to the other.
  A clock with a read sees the flag down, which is late by one clock: at most one word more than `FifoLimit`
  is used then, and at most six are under way afterwards: of the eight that `fifo_limit` keeps free, one is to
  spare.  `WrUsed` counts the late pointer of the read side as used, so the delay is on the safe side.
* `FifoInv`: the FIFO holds `Window(popped, 2 * Written)`, consecutive halves of words; `WindowTail` and
  `WindowMore` say what a read and a write do to it.  `txiq` decides to read one clock before it does, so the
  FIFO has to be not empty still: only `txiq` takes words out, and the pointer of the write side only brings more.
* `IqInv` ties the wait count of `txiq` to the age of the word in the shift registers.

`BurstInv` needs from `IqInv` that in a burst `txiq` is in `rd_samples` only while `txiq_ctrl` is: both
leave at the read that is counted last, because `txiq_en` is not registered.  `Covered(p)` says what keeps the
antenna on for a word that is *p* clocks old; -1 is the clock before it is loaded.  `CoveredStep` is
the induction on the age.

### RX packets

| theorem | property | says |
|---|---|---|
| `PacketsArriveWhole` | `NoWordLost` | no word is written to a full packet FIFO, and none comes while the formatter flushes |
| `SamplesAreKept` | `SamplesKept` | the sample FIFO never overflows, whether packets are kept or left out |
| `WritesRxStream` | `RefinesRxStream` | the words written are a behaviour of `RxStream`: whole packets, numbered by their first sample, samples in order |

Assumptions: packets of at least six words (`PctSizeAssumption`, which `data2packets.vhd` asks for)
whose data words make whole packing groups, and a packet FIFO larger than a packet
(`RxAssumption`); the host reads when it likes.  `SamplesAreKept` needs two more facts about sizes,
also in `RxAssumption`: the sample FIFO holds a packet's worth of sample words and three
more, and reading keeps up, that is the samples of a packet take longer to arrive than a packet
takes to be formed (1360 clocks against 691 in the code, 1020 against 518 without packing).  The run
has a FIFO of exactly the depth that is proved to be enough.

None of the three follows from a local fact.  The write requests of a packet are let through or
gated off by one bit, captured before its first sample is read; the first word arrives
many clocks later, and the last two after the last sample.  The words
pass four pieces of logic with counters of their own.  `RxInv` therefore says that
there are *two* numbers that all of them agree on: *t*, the clocks since the first read of the
packet (-1 between packets), and *k*, the packets before it.

* `At(p, t)` is the control: what the registers of the FSM, of
  `bit_pack`, of `data2packets` and of the packet FIFO hold *t* clocks after the
  first read.  `Words` counts the words that *s* samples
  make and `SentNext` those that have left, PCT_SIZE in all; `RoomAt` bounds the fill
  level by the room that was seen plus the words sent since.
* `DataAt(p, t, k)` is the data.  `SamplesAt`: the sample FIFO holds consecutive samples, from
  *t* behind the first of packet *k*, and all that the packet needs once it is started.
  `NumberAt`: which stages of the delay chain still show the number of the first
  sample, of the packet now or of the one before.  `PairsAt`: which samples are in which
  stage of the packer.  `WordsAt`: which words of packet *k* are in the shift
  register and how many have left.
* `LevelAt` bounds the fill of the sample FIFO.  The count of words will not do, since a sample may
  arrive in the very clock of a read; `Level`, that count times the clocks between samples less
  the clocks since the last, grows by at most one in a clock and falls with each read, and
  the three clocks by which the start of a packet lags are the three words on top.

There is a lemma for each of these parts (`ReadNext`, `PackNext`, `FormNext`, `RoomNext`,
`SamplesNext`, `NumberNext`, `PairsNext`, `WordsNext`, `LevelNext`), and each only needs the
agreement of those before it.  The refinement is then one step: the word that leaves is word
*i* of packet *k*, where *k* PCT_SIZE + *i* is the count of all that left.

The proof shows where sizes matter.  `data2packets_fsm` takes the formatter for ready
when it is still idle, so the first word must reach the formatter a clock before the last
sample is read (`Sizes`); packets of four data words without packing, and of six with,
are the smallest that do.  The fill level seen between packets may be one
word short (`RoomAt`, `LateCount`), when the very last word of the packet before is under way; the
comparison with `<` in `data2packets_top.vhd` has exactly that word to spare.  And the chain that
delays the number has no stage to spare at either end: seven stages hold the number when the
headers are taken, and the first shows the next number only after the last sample.

### Phase search

| theorem | property | says |
|---|---|---|
| `SuccessIsTrue` | `SuccessIsInEye` | success is reported only of a phase at which the interface works |
| `PhaseIsStill` | `StillWhileComparing` | the phase never moves while samples are compared |
| `StepsAreCounted` | two parts of `PhasesAreExact` | no step is lost or made twice, in a search or a manual shift |
| `PhasesAreFound` | `PhasesAreExact` | and a search that saw both edges succeeds and ends in their middle |

The eye is any set of distances, the counters, `SETTLE`, the answer time of the PLL and the length of a
comparison are free, the clocks and the PLL take their steps in any order, and the PLL may answer after
`pll_ps` gave up.  One thing is assumed of the host, `OneUser`: one that gives up requests before
`ps_done` makes no manual shifts.  It is needed.  `pll_ps` has no way to be stopped, so a manual shift that
was given up goes on, and a search that starts meanwhile compares while it does: TLC finds both
properties violated when `phase_retry` is given both modes.  Searches may be given up at any time.

`SearchInv` is the inductive invariant.  The search and the comparator know of each other only what the
synchronisers show, late, and the PLL moves under both.  Three parts carry the argument.

* `Comparing` (in `cmp_smpls`) and `Stopped` (elsewhere): the four phases of a handshake over
  the two synchronisers.  A report in any of its registers was made after this start, because the next
  start waits in `check_cmp_status` for the last report to leave the last register, and
  it is of this phase.  Error and done cross together, and the error of a report no longer changes.
* `ShiftsInTurn`: while the search is out of `ph_shift`, `pll_ps` rests.  The falling edge of `busy` that ends
  `ph_shift` is that of *this* shift only because `busy` and its register are low on entry
  (`NotYetShifted`).  `ResetsFirst` says the same of the reset of the PLL.
* `Filled`: the comparator waits, before the first comparison, for as long as its input registers take to
  hold samples of this phase, so that the last compared word shows a phase outside the eye.

`StatusIsTrue` carries the report from there to the status: a search that found a minimum ends after a
comparison at the final phase, one that found none ends where it made the last.

The last two theorems assume `OneUser` too, and a PLL that answers in time (`~SLOW_PLL`): a step that
`pll_ps` gives up on is counted and perhaps not made.  `PhasesAreFound` has a hypothesis about the board,
`NoNarrowGaps`: when two phases a step apart are good, so are those between.  It is needed: with
the eye {4, 7, 8} and step 4 the search compares 4 and 8, takes 6 for the middle and reports what it finds
there.  An eye that is one interval satisfies it for every step, and so do the eyes and steps of
`phase_auto`.  `StepsAreCounted` does without it.

Their invariant, `ExactInv`, was checked on `phase_auto`'s instance before it was proved.  It follows the phase
through the four counters between a request and the PLL.

* `OnTheWay` is the conservation law.  A shift has a `Goal`, fixed when it is asked for: the old phase plus
  what the host asked, the next `step_cnt`, or the middle.  Until `pll_ps` takes the request
  (`Pending`) the phase and the whole request add up to the goal, then the phase and `StepsLeft`, and at the
  end the phase alone.  A step moves one from `StepsLeft` to the phase at the clock the PLL makes
  it, in the middle of `phase_step`, which is why `StepsLeft` looks at `phasedone` (`PllSteps`, `ScanSteps`).
* `Edges` and `ManualInTurn`: each request is seen, because the enable was low before, and a manual
  `done` is the falling edge of its own `busy`.
* `TrueErrors` is `StatusIsTrue` the other way: an error means a phase outside the eye.  Both together make
  the verdict exact (`VerdictIs`), so that the FSM's flags say what is known of the eye up to `step_cnt`
  (`Searching`): no good phase yet (`NoGood`), or the first one and no bad one since (`EyeTo`).  `Exhausted`
  shows that a search that ends for lack of steps did not have both edges in its range.
* `Preparing` is the pipeline of `prep_phase`: difference, middle and the way back become valid one
  clock after the other, and three clocks are waited.
* `Ending` carries the middle through the final shift and comparison to `ps_done`.

The arithmetic is that of multiples of a step (`NextMultiple`, `Apart`) and counters that never wrap
(`WrapIs`, `StepOn`).

### MCU program

| theorem | property | says |
|---|---|---|
| `McuTypeCorrect` | `TypeOK` | the MCU's FIFO is never overrun, `MCU_retries` keeps its range |
| `CompletedInOrder` | `AcceptedInOrder` | a completed portion is in the MCU behind all before it, each once |
| `CompletedProgrammed` | `ProgrammedAtEnd` | the last portion is completed only by a programmed MCU |

The commands the host sends, their number and the speed of the MCU are free.
`McuAssumption` bounds the constants, and `EmptyWaitAssumption` says what the finding
`mcu_hang` is about: the limit of the middle wait, 500, is beyond an 8-bit counter.
The theorem needs it.  Were the wait to give up, a portion that the MCU had not taken would be
answered with *completed*.  The order guarantee and the endless wait are two sides of the same line,
and whoever repairs one has to add an error for the other.

The order check itself is weaker than the guarantee: `last_portion` is 0 after
power-up, so portion 1 passes without portion 0, and a boot leaves `last_portion` as it was
(the `goto` at `main.c` 1059 passes over line 1173).  The inductive invariant `IInv` shows why that does no
harm.  It says for each place of the firmware what the MCU holds, and in those
two cases, and after a `PROG_MODE` the code does not know (1035-1062), the MCU is not running: the
portion stays in its FIFO, and the firmware never leaves the wait.  `NextIInv` has one step per action; the only one that is about sequences is
`Take`, by the lemma `NextPortion`.

### Writing a bitstream

| theorem | property | says |
|---|---|---|
| `ConfirmedHolds` | `Confirmed` | every byte answered with *completed* is in flash or on the page under construction |
| `ImageStoredHolds` | `ImageStored` | after the answer to the empty portion the flash holds the whole bitstream |

Page, sector, portion, limits and sizes of bitstreams are free (`FlashAssumption`, `ProgAssumption`), and
so is when the flash is done, when a poll gives up, and whether the host goes on, sends a portion
again after an error or begins another bitstream.  The theorems have two hypotheses
of their own, and each is needed: without `Divides` (portions divide a page)
`flash_uneven` is the counterexample, without `SLOW_HOST` (no portion while a page is
programmed) `flash_fast_host` is.  Hosts that send the 32 bytes that fit in a command meet
the first, as pages have 256.

`Confirmed` speaks of answers; `ProgInv` says what is true on the way to them, and only while there is
something to lose (`Live`: a page waits to be written, or may be tried again after
an error, or a portion was completed).  Its parts:

* `StoredInv`: the pages below `flash_page` are in flash.  `DoneInv` and `FullInv`: the page under construction
  holds the bytes from there up to what was sent, at its place `fpga_byte`, and is never
  both full and answered for.  A portion that comes again after an error must find the page as it
  was: the page is
  still full, so that nothing is copied into it again, and `FullInv` ties the count that the handler then goes on with,
  `flash_data_counter_to_copy`, to the portion.
* `BlankInv`: from the moment a sector is begun the rest of it is erased.  *Begun* has to
  cover an erase that still runs because the poll gave up, and the write enable and the erase that
  are then tried again and that a busy flash ignores.
* `StepInv`: an erase is never asked of a flash that programs, the place where the hypothesis
  about the host is used; a program command always follows a write enable that worked.

`RepeatLater` and `ReceiveSteps` use `Divides`: a portion then ends exactly at the end of a page or before
it.  `ProgInvNext` has one lemma per action, and `SameSector`, `OnPageOf` and the lemmas beside them are the
arithmetic of quotients and rests.

### The whole program

| theorem | property | says |
|---|---|---|
| `PortionsAreKept`, `BitstreamIsStored` | `Confirmed`, `ImageStored` | the two above in the whole of `main.c`, with restarts |
| `PortionsInMcu`, `McuIsProgrammed` | `AcceptedInOrder`, `ProgrammedAtEnd` | the same for the program of the MCU, with resets by other commands and restarts |

These are about `FirmSpec`, the specification that the run `firmware` checks; the theorems of the parts alone
are not enough, since there the processor never starts over and nothing else touches the chips.

For the flash, a step of the program is a step of `FlashProg`, or leaves it alone, or is a restart
(`FirmProgStep`), and a restart leaves nothing live (`RestartForgets`): the flash may be half
erased or busy, and the next bitstream begins, with an erase, on a flash that is not busy.

For the MCU it is less simple.  A restart in the middle of a portion leaves an MCU that goes on by itself while the
processor knows nothing of it, and the invariant of `McuFw` does not hold of that.  `FirmMcuInv` therefore has two
cases: `BootPending`, where only the ranges of the registers are known, and `IInv` from the
first transaction of start-up on, which is the reset pin (`BootBegins`, `FirmMcuPin`).  It also says that an answer
*completed* of the MCU command is only there between commands, so that a reset by
`LMS_RST` cannot come between the answer and what it is about.

### Commands

| theorem | property | says |
|---|---|---|
| `TcxoHasOneDriver` | `TcxoExclusive` | the DAC and the ADF never drive the TCXO together |
| `BusIsReleased` | `BusReleased` | when a command is answered its last I2C transfer was closed |
| `DacStartsStored` | `StartsWithStored` | after every start-up the DAC drives what the EEPROM holds, or the default |

These are about `FirmSpec`, too.  Commands have any number of blocks and any bytes (`CallsAssumption`:
bytes, and a write to the EEPROM that stays in the data field, which the program does not look at); the EEPROM has any size
(`I2cAssumption`, `CommandsAssumption`); chips acknowledge or do not, and a restart may come between any two
transactions.

A command is a list of transactions, made block by block, and the three properties are about what happens
over the whole of a list.  So the proof has two halves.

The first is about lists.  `JoinedItems` says that each item of a list made of blocks belongs to a copy of one of the blocks
(it is an induction over the number of blocks, done as a search for the least one that fails), and
`SoundWithin` that what is true of an item in its block stays true in the list.  *Sound* means: after a START comes
a STOP, only bytes are written, and the list either has the DAC only after a write that switches the ADF off (`"dac"`) or has
no DAC at all (`"adf"`).  There is a lemma for each command (`SoundMemoryWr`, `SoundAnalogWr`, ...), and
`TransactionsSound` joins them; the list of `CMD_ADF4002_WR` is its own case (`AdfList`), as its first
item takes the DAC off.

The second is the invariant `CmdInv` over what is *left* of the list at any moment.

* `BusPlan`: if the bus is open a STOP is still to come, and every START that is left has its own.  Both survive a restart, which
  leaves a transfer open: start-up resets the core and ends in a STOP itself.
* `TcxoPlan`: at most one of the two drives, and the rest of the list is a plan for one of them (`ToDac`, `ToAdf`)
  that is safe from where the drivers stand *now*.  The two
  plans differ, and a restart between the two chips changes from one to the other.
* `BootPlan`: in its first half start-up is before one of ten transactions (`BeforeItem`), and what the reset pin, the addressed
  chip, its pointer and the bytes read so far are is known for each; in its second half the
  value has been taken, and a write to the DAC that carries it is still to come unless the DAC has it.  Nothing
  may be stored meanwhile: that a restart takes longer than a write cycle of the EEPROM is where this
  comes from, an assumption of the model (`CmdRestart`).
* `ChipTypes`: the EEPROM holds bytes, with which the two bits of mode of the AD5601 come out as *drive* and
  the value comes out as it went in (`DacTakes`).

### File descriptors

| theorem | property | says |
|---|---|---|
| `ExclusiveIsExclusive` | `OneHolder` | at most one descriptor of a device has the lock |
| `NoDescriptorLost` | `NoFdLost` | beyond the standard descriptors the pool holds what the program has opened and not closed, and nothing else |

Devices, file systems, names, flags and the sequence of calls are free; the only
assumption is a pool of more than three (`FdAssumption`).

`OneHolder` deserves a proof because a single line looks wrong: `alt_fd_lock` says in its comment that
it looks at all descriptors, but its loop (`alt_fd_lock.c` 61, `i < alt_max_fd`) stops before
the highest.  So a lock can be granted while the highest descriptor has the same
device.  What keeps two holders apart is more than the line shows.  Only one
descriptor is left out; `open` does look at all of them and refuses a locked device; and `alt_max_fd`
never goes down.  The invariant says it as `Alone`: a holder whose
device has another descriptor is *below* the highest, hence is found by the next search.
`Numbered` supplies that a descriptor of a device is never above the highest, with the standard
descriptors as the exception that the redirection has to respect.  `FdInv` joins these with
`StartUp` (no locks before the program runs), the shape of the table and the two
properties.  The lemmas are about changes of the pool (`PoolKept`, `PoolFreed`, `PoolTaken`,
`PoolFlagged`); a call is a case of one of them.  `OpeningCases` says what all calls of `open` have in
common; that the least free descriptor exists needs the library's theorem that naturals are well founded
(`LeastNatural`).

### Interrupts

| theorem | property | says |
|---|---|---|
| `HandlersAreCalledWhole` | `HandlersAreWhole` | a handler is called with its own context, never while its entry is written, and never where interrupts are disabled |

The number of interrupts, the handlers and what devices raise are free (`IrqAssumption`).
The invariant `IrqInv` has two parts beside the types.

`Nested` says which contexts the open calls of `alt_irq_disable_all` hold.  Of up to three of them
(the program's section, `alt_iic_isr_register` in it, `alt_irq_enable` in that) only the outermost
has saved that interrupts were enabled, so only the last `alt_irq_enable_all`, which restores
what was saved, lets the processor take one.  This is why registering a handler inside a guarded
section does not open it.

`Entries` is about the order of four writes: handler, context, `alt_irq_active`, IENABLE.  An
enabled interrupt has a complete entry, but for the one that is being changed, whose words are
right as far as they are written.  When interrupts are back on, all four are.
When a handler is *removed* the same order leaves an enabled interrupt without a handler
until IENABLE is written; only the disabled processor makes that harmless, hence the
property needs `Nested` too.

### SPI driver

| theorem | property | says |
|---|---|---|
| `CallsAreExchanges` | `OneExchange` | a call with the select forced is one exchange of its bytes and no others, and its caller gets the replies to them |

For any number of bytes to write and to read, any flags, and any speed of the core against the
processor.  The argument is in two parts of the invariant `SpiInv`.

`OneUnderWay` counts credits.  The loop of `altera_avalon_spi.c` starts with one credit, a
byte given to the core takes it, and the reply gives it back.  So there are three
situations and no others: nothing is under way, a byte is being shifted, or its reply waits.
The transmit register in front of the shift register is never filled, a reply is always read before
the next can overrun it, and the branch for `credits = -1024` is never taken.  What the
driver discards before the loop is therefore all that could be old.

`InOnePiece` follows the bytes by their place on the wire: the last `n` of the wire are the first
`n` of the call, and reply `j` is the one to the byte at `write_length + j`.  It holds only when the
select is forced, as every caller in `main.c` does; `WritesFirst` (zeros go out after the last byte
of the caller) puts the two counts in one order.

### UART driver

| theorem | property | says |
|---|---|---|
| `CharactersKeepOrder` | `CharactersInOrder` | what is written goes out once and in order; what is read came in that order |

For each length of buffer the driver is built for (`UartAssumption`: the powers of two up to 64; the
proof uses only that it is two or more), any number of characters and calls, and the handler
and the line between any two steps of the program.  `UartInv` numbers the characters.

On the way out (`TxNumbers`) the shift register, the transmit register, the ring and the character
that a write has put but not yet moved the end over have consecutive numbers after what is
out.  That a write found room stays true until it uses it, since the handler only takes.

On the way in (`RxNumbers`) numbers rise along the ring and are above what was read last.  Two
steps of `read` need care.  Between copying a character and moving `rx_start` over it the ring
begins one further on (`RxFrom`), or the character would count twice.  And the handler
does not look whether there is room: it fills the last slot as well, after which the ring looks
empty.  When a read has found a character and comes to copy it, the ring may look empty, and is
then full (`RxHas`), so that what it copies is still the oldest.  When the handler goes on over
it, characters are lost, which the driver does not promise to avoid, but order is kept.
`StatusHolds` supplies that what the handler read from the status register is still true when it acts on it.
The lemmas `RingTake` and `RingPut` are the arithmetic of a ring.

### Alarms

| theorem | property | says |
|---|---|---|
| `AlarmsExpireOnTime` | `AlarmsOnTime` | an alarm expires at the tick it is due, and at no other |

For any alarms, a counter of any width, and callbacks that stop, start or restart alarms while
`alt_tick` walks the list (but do not stop the one that is next, as in the model).  The provers have no power function, which is why
`AlarmAssumption` also says that `2 ^ TICK_BITS` is a natural number.

`Linked` is the doubly linked list: `next` and `previous` are each other's inverse, and every listed
alarm can be reached from the head.  That is said without recursion: a set with the head
that is closed under `next` has all of them (`Reached`).  So when the walk comes back to the
head it has been everywhere, for the alarms it has seen are such a set.

`Timed` relates time, flag and due tick of each alarm, differently for the alarms the walk has seen in
this tick (`Rests`) and those still to come (`Waits`): the flag of one to come is as the last tick left
it, and at the tick at which the counter is 0 all of them have it, for all were due beyond the rollover.
`AlarmInv` says that there is a set of seen alarms, the first ones of the list up to
the one that is visited next (`FirstOnes`).  A callback may take any alarm out, its own too, and insert at
the head: `SeenRemove` and `SeenInsert` say which set is the seen one then.  An alarm inserted at the
head during a walk counts as seen: its time was computed from this tick's counter.

### What only TLC checks

Liveness (`EveryPacketFinishes`, `AllTaken`, `PacketsFormed`, `PlaysOn`, `Answered`, `LoopGoesOn`,
`CallsEnd`) is out of
the prover's reach, as fairness and ENABLED are, and so is what would need induction over
data: no module here declares a recursive operator.  `AnswersAreTrue` is
about what a list of any length has done when it is over, and stays with TLC for now.  The
properties of `WfmPlayer` could be proved and are not yet (section 8).

## 6. What was seen

Three runs end in a counterexample on purpose; each shows code that does
not do what a comment beside it says.

* **`flash_uneven`** (`main.c` 806).  A portion that does not fit on the page is split,
  and the second part is copied from the start of the portion again instead of from where the
  first part ended.  The stored bitstream is wrong and the answer is
  *completed*.  Hosts that send 32 bytes at a time never split one.
* **`flash_fast_host`** (`main.c` 784).  The erase of the next sector does not wait for
  the page program before it; the flash ignores an erase while busy, the status
  poll sees the program end and takes that for the end of the erase, and the next page is programmed over old
  bytes.  On the board the host has to be slower than a page program,
  which the commands in between make likely.
* **`mcu_hang`** (`main.c` 1128).  A `uint8_t` is compared with 500: when the MCU does not
  take the portion the wait never ends, and no later command is answered.

The following came up while modelling.  No comment or document of the
repository says otherwise, so that they are observations and not findings.

* *TX samples.*  The full flag keeps room for eight words; the model needs
  four, and three are too few with 12-bit samples.
  `AntennaOn` needs `txant_cyc_after_en` of at least 2 in the modes of four clocks per word; the power-on
  value 1 (`fpgacfg.vhd` 206) releases the antenna before the last sample, so the settings of
  the run use more.  `txiqmux` adds three registers to the samples and none to `txant_en`.
  A 14-bit width can be configured, but no packer or unpacker handles it.
  `pct_sync_size` of 0 or 1 makes bursts of 65536 words.  The write counter of `unpack_64_to_48` is not
  reset between packets, so that a 12-bit payload that is not a multiple of three
  words shifts all after it.
* *TX front.*  A packet of a single 128-bit word is over-read, because two words are
  requested before the size is known; packets of the host are longer.
* *Phase search.*  An eye that reaches the end of the range may end beside it:
  with the eye 12..15 of 16 and step 2 the search ends at phase 11 with `ps_status` 1
  (error, `pll_ps_fsm.vhd` 37), as the step counter counts one step beyond the end.
  Step size 0 and compare length 0 never end.  `ps_reset_at_start` is tied to 1 (`pll_ps_top.vhd` 229), so that a
  search always resets the PLL, also in the model.  Both searches, TX and RX, share one
  comparator (`lms7_trx_top.vhd` 720).  A manual shift the host gives up is not stopped: a search started
  at once compares samples while the phase still moves, and may report success of a phase it has left.
* *WFM player.*  In the states `hold_wr` and `rd_hold`, and in the burst states with
  an empty FIFO, `DDR2_arb` asks for a command that arrives just then without starting a
  transfer and at the address of the one before (262-280).  With a memory controller that may become
  unready while nothing is asked of it (`IDLE_UNREADY = TRUE`), or host words that trickle in one by
  one (`STEADY = FALSE`), TLC finds a word written to the wrong address or a read lost,
  and `PlaysTheWaveform` violated.  The bits of the last address cross without a common synchroniser; the
  model takes them as one.  A load must outlast the synchronisers, as register writes do.
  `stream_switch.vhd`, which chooses between stream and waveform, is not instantiated.
  `fpgacfg.vhd` 265 takes `wfm_smpl_width` from the bits of register 13 that
  also hold `wfm_play`, while the comments at 201-202 place it in register 14.  `wfm_rcmd_fsm` 183
  wraps for waveforms of less than two words.

* *Commands.*  `MEMORY_WR` and `MEMORY_RD` with a count of 0 transfer one byte.  A count of more than 32 is not
  refused: `MEMORY_WR` then writes what lies behind the packet in memory (`main.c` 942-947), and `MEMORY_RD` puts
  its answer behind the answer buffer (982), as `ANALOG_VAL_RD` of more than 14 blocks does (600-652); the model's
  answers end with the data field (`AnswerData`).  `LMS_RST` and
  `ANALOG_VAL_RD` of an unknown channel are counted as errors and answered with
  *completed*.  After an `LMS_RST` a portion of an MCU program hangs in the wait of
  `mcu_hang`.  The firmware reads 64 bytes as soon as the command FIFO is not empty, without
  looking whether all have arrived (`main.c` 379); the model starts at a whole command.
  After a restart in the middle of an I2C transfer the model takes the bus as free.
* *Descriptors.*  `alt_fd_lock` leaves out the highest descriptor, contrary to its
  comment (43-45); section 5 says why that does no harm.  Closing a standard descriptor does not release its
  lock.  `isatty` ignores that `fstat` fails.
* *UART.*  A character with a framing error is not discarded, as the comment at
  `altera_avalon_uart_init.c` 157 says, but delivered at the next interrupt; a break is delivered as a
  character 0.  The receive half runs at transmit interrupts too and then writes over the
  ring when it is full (189-190): the model calls what follows `lost`.
* *Alarms.*  A callback must not stop the alarm next in the list: `alt_tick` has taken its address
  already (`alt_tick.c` 102, 140), and a stopped alarm is linked to itself, so that the loop never
  ends, in an interrupt.  The model leaves this out (`Callbacks`): its callbacks stop any other alarm,
  their own too, and start others, and `AlarmsOnTime` and `CallsEnd` hold of such callbacks only.
  A period of all ones expires at once.  `settod`'s 32-bit product overflows, contrary to the
  comment of `alt_settod.c` 61-63; it needs a system clock, which this board does not have.

## 7. What is not modelled

* *Of the modelled components.*  Resets and enables that change while
  data flows, clearing the sample counter included; frame synchronisation; the
  repeat mode and counter select of `pll_ps_top`, `pllrst`, and two searches on the shared comparator.
* *RX capture, TX glue, PLL reconfiguration*: control logic of their own, small, planned
  (section 8).  The hazards seen there: `smpl_nr_clr` with samples in the FIFO
  (`rx_path_top.vhd` 313), the loss flag between two clocks (`tx_path_top.vhd` 258).
* *`pcie_top`, `pct_payload_extrct`*: mostly the wiring of FIFOs around the Xillybus
  core, whose behaviour is outside the repository.
* *Registers*: SPI shift registers with one writer; a value written is a
  value read.  Their settings are constants of the models.
* *Firmware*: LEDs, the framing of 64 bytes, delays, the size and autoload flag left on the page buffer after
  a bitstream (`main.c` 818-819), which nothing reads.  Modes 0 and 2 of the bitstream
  command only answer with an error.  *UART driver*: flow control, which the core does
  not have, and `ioctl` and the small version, which are not compiled.
* *The rest of the HAL*: boot log, profiler, heap, clock, DMA, flash devices, exceptions: not
  configured in `system.h` or not called by the program.  Much of the C in the repository is
  this and the tables of constants of `system.h`.  Assembly and constructors are external.
* *`txiqmux`, `lms7002_ddout`, `pulse_gen`, self test, LEDs, GPIO, fan*: pipelines and counters that
  nothing depends on.
* *Modules no top instantiates, vendor IP, generated code.*  FIFOs and PLLs are modelled from
  their use.

## 8. Plan

The order is by how much of the data path depends on the component.

1. **TX glue**: `TxLoss`, the loss flag between a packet dropped and the RX header that reports it, with
   its two synchronisers, and the crossing of the sample number.
2. **PLL reconfiguration**: `ConfigCtrl` and `pll_reconfig_status`: a start edge while busy, status that
   the host reads.
3. **RX capture**: `Diq2Fifo` by interface mode, against a reference for the order of samples; closes the front
   of `RxPackets`.
4. **Command channel**: framing of 64 bytes against a FIFO that fills slowly.
5. **Phase search**: repeat mode, two searches on one comparator.
6. **`DDR2_arb`** with the controller's documentation at hand: which of its hold states
   can be met with a command arriving.

Where a new question can be asked of an existing instance it joins that run, so that each
run stays one question.

Proofs: `PlaysTheWaveform` of `WfmPlayer`, by numbering the words of its FIFOs as `SamplesInv` does, and
`AnswersAreTrue` of `Commands`.
