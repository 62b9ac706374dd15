-------------------------------- MODULE Irq ---------------------------------
(***************************************************************************)
(* Interrupts of the control processor (HAL/src: alt_iic*.c,               *)
(* alt_irq_handler.c, alt_irq_vars.c; HAL/inc/sys/alt_irq.h): the table of *)
(* handlers, which the program changes while devices raise interrupts, and *)
(* the dispatcher.  Each write of a table entry or a processor register is *)
(* a step.  A handler of the model quiets its device, and may disable an   *)
(* interrupt.                                                              *)
(***************************************************************************)
EXTENDS Integers, Sequences

CONSTANTS
    ALT_NIRQ,           \* interrupts of the processor
    HANDLERS            \* handlers a program registers, each with its context

ASSUME IrqAssumption == ALT_NIRQ \in Nat /\ "NULL" \notin HANDLERS

Irqs == 0 .. ALT_NIRQ - 1

VARIABLES
    irq_handler, irq_context,       \* alt_irq
    alt_irq_active, ienable, pie,   \* enabled interrupts, by the code and in the registers
    raised,             \* external: devices that ask for an interrupt
    irq_at,             \* program: next step, or "idle"
    irq_id, irq_isr,    \* arguments of alt_iic_isr_register
    saved,       \* contexts of nested alt_irq_disable_all
    critical,           \* the program is in a section of its own with interrupts disabled
    serving             \* interrupt whose handler is called, or -1

irqTable == <<irq_handler, irq_context>>
irqRegs == <<alt_irq_active, ienable>>
irqArgs == <<irq_at, irq_id, irq_isr>>
irqVars == <<irqTable, irqRegs, pie, raised, irqArgs, saved, critical, serving>>

\* alt_irq_init clears IENABLE, then lets the processor take interrupts.
IrqInit ==
    /\ irq_handler = [i \in Irqs |-> "NULL"] /\ irq_context = [i \in Irqs |-> "NULL"]
    /\ alt_irq_active = {} /\ ienable = {} /\ pie = TRUE
    /\ raised = {} /\ irq_at = "idle" /\ irq_id = 0 /\ irq_isr = "NULL"
    /\ saved = <<>> /\ critical = FALSE /\ serving = -1

Raise(i) ==
    /\ i \notin raised /\ raised' = raised \cup {i}
    /\ UNCHANGED <<irqTable, irqRegs, pie, irqArgs, saved, critical, serving>>

-----------------------------------------------------------------------------
(* The program.  It waits while an interrupt is served.                    *)

Running == serving = -1

\* Fault: the bit is set whatever it was.
Restored_Set(context) == TRUE

\* alt_irq_enable_all
Restored(context) == context

DisableAll == saved' = <<pie>> \o saved /\ pie' = FALSE
EnableAll == pie' = Restored(Head(saved)) /\ saved' = Tail(saved)

EnterCritical ==
    /\ Running /\ irq_at = "idle" /\ ~critical
    /\ critical' = TRUE /\ DisableAll
    /\ UNCHANGED <<irqTable, irqRegs, raised, irqArgs, serving>>

LeaveCritical ==
    /\ Running /\ irq_at = "idle" /\ critical
    /\ critical' = FALSE /\ EnableAll
    /\ UNCHANGED <<irqTable, irqRegs, raised, irqArgs, serving>>

\* alt_iic_isr_register: no such interrupt, or the table entry with interrupts
\* disabled.  alt_irq_enable and alt_irq_disable, which the program calls nowhere else, are
\* nested in it and set the bit and write the register with interrupts disabled.
Register(i, isr) ==
    /\ Running /\ irq_at = "idle" /\ irq_id' = i /\ irq_isr' = isr
    /\ IF i < ALT_NIRQ THEN irq_at' = "handler" /\ DisableAll
       ELSE irq_at' = "idle" /\ UNCHANGED <<pie, saved>>
    /\ UNCHANGED <<irqTable, irqRegs, raised, critical, serving>>

SetHandler ==
    /\ Running /\ irq_at = "handler" /\ irq_at' = "context"
    /\ irq_handler' = [irq_handler EXCEPT ![irq_id] = irq_isr]
    /\ UNCHANGED <<irq_context, irqRegs, pie, raised, irq_id, irq_isr, saved, critical, serving>>

SetContext ==
    /\ Running /\ irq_at = "context" /\ irq_at' = "mask"
    /\ irq_context' = [irq_context EXCEPT ![irq_id] = irq_isr]
    /\ UNCHANGED <<irq_handler, irqRegs, pie, raised, irq_id, irq_isr, saved, critical, serving>>

\* alt_irq_enable or alt_irq_disable
EnableOrDisable ==
    /\ Running /\ irq_at = "mask" /\ irq_at' = "ienable"
    /\ DisableAll
    /\ alt_irq_active' = IF irq_isr = "NULL" THEN alt_irq_active \ {irq_id} ELSE alt_irq_active \cup {irq_id}
    /\ UNCHANGED <<irqTable, ienable, raised, irq_id, irq_isr, critical, serving>>

WriteIenable ==
    /\ Running /\ irq_at = "ienable" /\ irq_at' = "leave"
    /\ ienable' = alt_irq_active /\ EnableAll
    /\ UNCHANGED <<irqTable, alt_irq_active, raised, irq_id, irq_isr, critical, serving>>

LeaveRegister ==
    /\ Running /\ irq_at = "leave" /\ irq_at' = "idle" /\ EnableAll
    /\ UNCHANGED <<irqTable, irqRegs, raised, irq_id, irq_isr, critical, serving>>

-----------------------------------------------------------------------------
(* The dispatcher, alt_irq_handler.  The processor enters it with          *)
(* interrupts disabled, and leaves it with interrupts enabled.  It is not  *)
(* entered with nothing pending, with which its search would not end: the  *)
(* entry code tests for that (alt_irq_entry.S, lines 79-82).               *)

Pending == ienable \cap raised

Exception ==
    /\ Running /\ pie /\ Pending # {}
    /\ pie' = FALSE /\ serving' = CHOOSE i \in Pending : \A j \in Pending : i <= j
    /\ UNCHANGED <<irqTable, irqRegs, raised, irqArgs, saved, critical>>

\* The handler has quieted its device, and disabled the interrupts in off; the
\* lowest of those pending is next.
Served(off) ==
    /\ ~Running
    /\ raised' = raised \ {serving}
    /\ alt_irq_active' = alt_irq_active \ off /\ ienable' = IF off = {} THEN ienable ELSE alt_irq_active'
    /\ IF Pending' = {} THEN serving' = -1 /\ pie' = TRUE
       ELSE /\ serving' = CHOOSE i \in Pending' : \A j \in Pending' : i <= j
            /\ UNCHANGED pie
    /\ UNCHANGED <<irqTable, irqArgs, saved, critical>>

IrqNext ==
    \/ \E i \in Irqs : Raise(i)
    \/ \E i \in 0 .. ALT_NIRQ, isr \in HANDLERS \cup {"NULL"} : Register(i, isr)
    \/ EnterCritical \/ LeaveCritical
    \/ SetHandler \/ SetContext \/ EnableOrDisable \/ WriteIenable \/ LeaveRegister
    \/ Exception
    \/ \E off \in {{}} \cup {{i} : i \in Irqs} : Served(off)

IrqSpec == IrqInit /\ [][IrqNext]_irqVars

-----------------------------------------------------------------------------

\* A handler is called with its own context, and never where there is none: not
\* while the table is changed (alt_iic_isr_register.c lines 75-101), not after the
\* interrupt was disabled, and not in a section the program has guarded, whatever
\* it calls there (alt_irq.h lines 117-150: nested sections).
HandlersAreWhole ==
    ~Running => /\ irq_handler[serving] # "NULL" /\ irq_context[serving] = irq_handler[serving]
                /\ ~critical /\ irq_at = "idle"
=============================================================================
