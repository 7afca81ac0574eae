-------------------------------- MODULE Irq --------------------------------
(***************************************************************************)
(* Interrupt entry, dispatch and return on the single Cortex-A7 core:      *)
(* Reset_Handler and IRQ_Handler (start.S), the software vector table      *)
(* (int.c), the GIC helpers (core_ca7.h), and the order in which each      *)
(* driver's init function opens the path from its device to the core.      *)
(*                                                                         *)
(* What a driver's handler does to its device is reduced to clearing the   *)
(* source; the handlers themselves are modelled in the driver modules.     *)
(***************************************************************************)
EXTENDS Integers, Sequences

CONSTANTS
  NUMBER_OF_INT_VECTORS,  \* size of irq_table
  EPIT1, GPIO1_0_15, GPIO1_16_31, PWM1, \* the lines the drivers use
  MaxEvents               \* bound on the device events of a behaviour

Vectors == 0 .. NUMBER_OF_INT_VECTORS - 1
Irqs == {EPIT1, GPIO1_0_15, GPIO1_16_31, PWM1}

\* GICC_IAR & 0x3FF when no interrupt is pending.
Spurious == 1023

ASSUME IrqAssumption ==
  /\ NUMBER_OF_INT_VECTORS \in 1 .. Spurious
  /\ Irqs \subseteq Vectors
  /\ MaxEvents \in Nat

VARIABLES
  pc,         \* what main executes next
  cur, step,  \* the driver being initialised (a set of at most one), and
              \* how many of its stores each driver has done
  mode,       \* where the core is: main, or a stage of IRQ_Handler
  masked,     \* CPSR.I
  lr, saved,  \* whose return address LR_svc holds; what IRQ_Handler pushed
  iar,        \* the GICC_IAR value IRQ_Handler read
  irq_count, irq_table, vbar,
  gicOn, gicEnabled, active, \* GIC: D_CTLR/C_CTLR, D_ISENABLER, acknowledged
  devEnabled, raised,        \* devices: interrupt enable bit, status flag
  running,    \* EPIT1_CR.EN: the timer counts
  leftover,   \* EPIT1_SR.OCIF was already latched when the program started
  events      \* device events so far

mainVars == <<pc, cur, step>>
cpuVars  == <<mode, masked, lr, saved, iar, irq_count>>
gicVars  == <<gicOn, gicEnabled, active>>
devVars  == <<devEnabled, raised, running, leftover, events>>
vars == <<mainVars, cpuVars, irq_table, vbar, gicVars, devVars>>

\* The lines the GIC would report to the core. Every priority is 0, so
\* nothing preempts an interrupt that has not been ended.
Signalled ==
  IF gicOn /\ active = {} THEN raised \cap devEnabled \cap gicEnabled ELSE {}

-----------------------------------------------------------------------------
(* Power-on: devices raise nothing to the GIC until a driver enables them; *)
(* the boot ROM may have left lines enabled and flags latched.             *)
Init ==
  /\ pc = "Reset_Handler" /\ cur = {} /\ step = [d \in Irqs |-> 0]
  /\ mode = "main" /\ masked = TRUE /\ lr = "main" /\ saved = <<>>
  /\ iar = Spurious /\ irq_count = 0
  /\ irq_table = [v \in Vectors |-> "unset"] /\ vbar = FALSE
  /\ gicOn = FALSE /\ gicEnabled \in SUBSET Irqs /\ active = {}
  /\ devEnabled = {} /\ raised \in SUBSET Irqs /\ running = FALSE
  /\ leftover = (EPIT1 \in raised) /\ events = 0

\* main advances only while no handler runs.
MainAt(p, q) == mode = "main" /\ pc = p /\ pc' = q /\ UNCHANGED <<cur, step>>

\* cpsid i ... cpsie i; b main
Reset_Handler ==
  /\ MainAt("Reset_Handler", "GIC_Init")
  /\ masked' = FALSE
  /\ UNCHANGED <<mode, lr, saved, iar, irq_count, irq_table, vbar, gicVars, devVars>>

GIC_Init ==
  /\ MainAt("GIC_Init", "irq_table_init")
  /\ gicEnabled' = {} /\ gicOn' = TRUE
  /\ UNCHANGED <<cpuVars, irq_table, vbar, active, devVars>>

irq_table_init ==
  /\ MainAt("irq_table_init", "set_VBAR")
  /\ irq_count' = 0
  /\ irq_table' = [v \in Vectors |-> "default_irq_handler"]
  /\ UNCHANGED <<mode, masked, lr, saved, iar, vbar, gicVars, devVars>>

set_VBAR ==
  /\ MainAt("set_VBAR", "drivers")
  /\ vbar' = TRUE
  /\ UNCHANGED <<cpuVars, irq_table, gicVars, devVars>>

-----------------------------------------------------------------------------
(* The order of the stores that open an interrupt path. "device" is the    *)
(* device's own interrupt enable: IMR of a GPIO bank, OCIEN in the first    *)
(* write of EPIT1_CR, FIE of the PWM. "start" sets EN in EPIT1_CR. The PWM  *)
(* is started too, but its flag (an empty FIFO) does not wait for that.     *)
\* Mutated form: EN is set together with OCIEN, in the first write of CR.
epit1_initStartFirst == <<"device", "start", "GIC_EnableIRQ", "irq_handler_register">>

exit_init      == <<"GIC_EnableIRQ", "irq_handler_register", "device">>
epit1_init     == <<"device", "GIC_EnableIRQ", "irq_handler_register", "start">>
gt9147_init    == <<"GIC_EnableIRQ", "irq_handler_register", "device">>
backlight_init == <<"device", "irq_handler_register", "GIC_EnableIRQ">>

InitOrder(d) ==
  IF d = EPIT1 THEN epit1_init
  ELSE IF d = GPIO1_0_15 THEN gt9147_init
  ELSE IF d = GPIO1_16_31 THEN exit_init
  ELSE backlight_init

GIC_EnableIRQ(d) ==
  /\ gicEnabled' = gicEnabled \cup {d}
  /\ UNCHANGED <<irq_table, devEnabled, running>>

irq_handler_register(d) ==
  /\ irq_table' = [irq_table EXCEPT ![d] = "driver"]
  /\ UNCHANGED <<gicEnabled, devEnabled, running>>

EnableDevice(d) ==
  /\ devEnabled' = devEnabled \cup {d}
  /\ UNCHANGED <<gicEnabled, irq_table, running>>

StartTimer ==
  /\ running' = TRUE
  /\ UNCHANGED <<gicEnabled, irq_table, devEnabled>>

\* Mutated form: a driver is initialised without waiting for int_init.
InitStepEarly(d) ==
  /\ mode = "main" /\ cur \subseteq {d} /\ step[d] < Len(InitOrder(d))
  /\ LET op == InitOrder(d)[step[d] + 1] IN
       \/ op = "GIC_EnableIRQ" /\ GIC_EnableIRQ(d)
       \/ op = "irq_handler_register" /\ irq_handler_register(d)
       \/ op = "device" /\ EnableDevice(d)
       \/ op = "start" /\ StartTimer
  /\ step' = [step EXCEPT ![d] = @ + 1]
  /\ cur' = IF step'[d] = Len(InitOrder(d)) THEN {} ELSE {d}
  /\ UNCHANGED <<pc, cpuVars, vbar, gicOn, active, raised, leftover, events>>

\* main calls one init function after another, each to its end.
InitStep(d) ==
  /\ mode = "main" /\ pc = "drivers" /\ cur \subseteq {d} /\ step[d] < Len(InitOrder(d))
  /\ LET op == InitOrder(d)[step[d] + 1] IN
       \/ op = "GIC_EnableIRQ" /\ GIC_EnableIRQ(d)
       \/ op = "irq_handler_register" /\ irq_handler_register(d)
       \/ op = "device" /\ EnableDevice(d)
       \/ op = "start" /\ StartTimer
  /\ step' = [step EXCEPT ![d] = @ + 1]
  /\ cur' = IF step'[d] = Len(InitOrder(d)) THEN {} ELSE {d}
  /\ UNCHANGED <<pc, cpuVars, vbar, gicOn, active, raised, leftover, events>>

-----------------------------------------------------------------------------
(* The interrupt path.                                                     *)

\* The exception itself: the core masks IRQs and jumps to the vector.
TakeIrq ==
  /\ mode = "main" /\ ~masked /\ Signalled # {}
  /\ mode' = "irq" /\ masked' = TRUE
  /\ UNCHANGED <<mainVars, lr, saved, iar, irq_count, irq_table, vbar, gicVars, devVars>>

\* IRQ_Handler up to the call: read GICC_IAR, cps #0x13 (which leaves CPSR.I
\* set), push LR_svc.
IRQ_Handler ==
  /\ mode = "irq"
  /\ \/ /\ Signalled = {}
        /\ iar' = Spurious /\ UNCHANGED active
     \/ \E i \in Signalled :
          /\ \A j \in Signalled : i <= j
          /\ iar' = i /\ active' = {i}
  /\ saved' = <<lr>>
  /\ mode' = "svc"
  /\ UNCHANGED <<mainVars, masked, lr, irq_count, irq_table, vbar, gicOn, gicEnabled, devVars>>

\* blx sys_irq_handler, up to the call through the table.
sys_irq_handler ==
  /\ mode = "svc"
  /\ lr' = "IRQ_Handler"
  /\ \/ iar >= NUMBER_OF_INT_VECTORS /\ mode' = "eoi" /\ UNCHANGED irq_count
     \/ iar < NUMBER_OF_INT_VECTORS /\ mode' = "handler" /\ irq_count' = irq_count + 1
  /\ UNCHANGED <<mainVars, masked, saved, iar, irq_table, vbar, gicVars, devVars>>

\* A registered handler clears its source and returns; default_irq_handler
\* never returns, so it has no step.
HandlerReturns ==
  /\ mode = "handler" /\ irq_table[iar] = "driver"
  /\ raised' = raised \ {iar}
  /\ irq_count' = irq_count - 1
  /\ mode' = "eoi"
  /\ UNCHANGED <<mainVars, masked, lr, saved, iar, irq_table, vbar, gicVars, devEnabled, running, leftover, events>>

\* Mutated form: GICC_EOIR is not written.
EndOfInterruptNoEoir ==
  /\ mode = "eoi"
  /\ lr' = Head(saved) /\ saved' = <<>>
  /\ mode' = "main" /\ masked' = FALSE
  /\ UNCHANGED <<mainVars, iar, irq_count, irq_table, vbar, gicVars, devVars>>

\* IRQ_Handler after the call: pop LR_svc, write GICC_EOIR (a spurious id is
\* ignored), restore SPSR and return.
EndOfInterrupt ==
  /\ mode = "eoi"
  /\ lr' = Head(saved) /\ saved' = <<>>
  /\ active' = active \ {iar}
  /\ mode' = "main" /\ masked' = FALSE
  /\ UNCHANGED <<mainVars, iar, irq_count, irq_table, vbar, gicOn, gicEnabled, devVars>>

-----------------------------------------------------------------------------
(* Devices: a flag is raised at any time, the EPIT's only while it counts;  *)
(* a level that has not been acknowledged may fall again.                  *)
Raise(d) ==
  /\ d = EPIT1 => running
  /\ d \notin raised /\ events < MaxEvents
  /\ raised' = raised \cup {d} /\ events' = events + 1
  /\ UNCHANGED <<mainVars, cpuVars, irq_table, vbar, gicVars, devEnabled, running, leftover>>

Withdraw(d) ==
  /\ d \in raised \ active
  /\ raised' = raised \ {d}
  /\ UNCHANGED <<mainVars, cpuVars, irq_table, vbar, gicVars, devEnabled, running, leftover, events>>

Boot == Reset_Handler \/ GIC_Init \/ irq_table_init \/ set_VBAR
InterruptPath ==
  TakeIrq \/ IRQ_Handler \/ sys_irq_handler \/ HandlerReturns \/ EndOfInterrupt
Device == \E d \in Irqs : Raise(d) \/ Withdraw(d)

Next == Boot \/ (\E d \in Irqs : InitStep(d)) \/ InterruptPath \/ Device

Spec == Init /\ [][Next]_vars

\* The core keeps executing: an exception that is signalled is taken, and a
\* handler that can return does.
FairSpec == Spec /\ WF_vars(InterruptPath)

-----------------------------------------------------------------------------
TypeOK ==
  /\ pc \in {"Reset_Handler", "GIC_Init", "irq_table_init", "set_VBAR", "drivers"}
  /\ cur \subseteq Irqs /\ step \in [Irqs -> 0 .. 4]
  /\ mode \in {"main", "irq", "svc", "handler", "eoi"} /\ masked \in BOOLEAN
  /\ lr \in {"main", "IRQ_Handler"} /\ saved \in {<<>>, <<"main">>}
  /\ iar \in Irqs \cup {Spurious} /\ irq_count \in 0 .. 1
  /\ irq_table \in [Vectors -> {"unset", "default_irq_handler", "driver"}]
  /\ vbar \in BOOLEAN /\ gicOn \in BOOLEAN
  /\ gicEnabled \subseteq Irqs /\ active \subseteq Irqs
  /\ devEnabled \subseteq Irqs /\ raised \subseteq Irqs
  /\ running \in BOOLEAN /\ leftover \in BOOLEAN
  /\ events \in 0 .. MaxEvents

\* The core never reaches default_irq_handler (which spins for ever with IRQs
\* masked), nor an entry nobody has written, although exit_init, epit1_init
\* and gt9147_init enable the GIC line before they register the handler: a
\* GPIO's own enable, and the EPIT's start, come last. There is one exception.
\* epit1_init sets OCIEN without clearing the status register, so a compare
\* flag that was latched when the program started is dispatched to the default
\* handler between GIC_EnableIRQ and irq_handler_register.
NoDefaultDispatch ==
  mode = "handler" /\ irq_table[iar] # "driver" => iar = EPIT1 /\ leftover

\* An exception is never taken before int_init has moved VBAR to the image's
\* vectors, although Reset_Handler unmasks IRQs before main runs.
VectorsReady == mode # "main" => vbar

\* Whatever was interrupted resumes in the state it was left: IRQs unmasked,
\* LR_svc its own, no interrupt left active in the GIC, the nesting counter
\* back at zero -- also when the interrupt turned out to be spurious.
MainResumesIntact ==
  mode = "main" /\ pc # "Reset_Handler" =>
    /\ ~masked /\ lr = "main" /\ saved = <<>>
    /\ active = {} /\ irq_count = 0

\* The nesting counter counts the handlers running, and never exceeds one.
CountsNesting == irq_count = (IF mode = "handler" THEN 1 ELSE 0)

\* An interrupt that can reach the core is served (or withdrawn): no end of
\* interrupt is missed on any path, so the GIC never stops signalling. The
\* exception is that of NoDefaultDispatch: the default handler never returns.
Served ==
  \A d \in Irqs :
    d \in (raised \cap devEnabled \cap gicEnabled) /\ ~leftover
      ~> d \notin raised

\* What IRQ_Handler's comment at "cps #0x13" says: other interrupts are
\* allowed while the handler runs in SVC mode. The code does not do this: the
\* I bit set on entry is never cleared, and TLC violates it.
NestingAllowed == mode = "handler" => ~masked
=============================================================================
