----------------------------- MODULE IrqProofs -----------------------------
(***************************************************************************)
(* Proofs, for every vector table size, every numbering of the lines and   *)
(* every number of device events, that the interrupt path of Irq is safe.  *)
(***************************************************************************)
EXTENDS Irq, TLAPS

\* How far main is; no driver is initialised before the vectors are in place.
BootInv ==
  /\ pc \in {"Reset_Handler", "GIC_Init"} <=> ~gicOn
  /\ pc = "drivers" <=> vbar
  /\ pc # "drivers" => \A d \in Irqs : step[d] = 0
  /\ pc = "Reset_Handler" => masked /\ mode = "main"

\* What each driver has opened by then. A GPIO's and the PWM's line is open at
\* both ends only after the handler is registered, the second of three stores.
\* The EPIT's may be open before, but then its timer does not count yet, and
\* its flag can only be one that was left over.
PathInv ==
  /\ \A d \in devEnabled : step[d] >= 1
  /\ gicOn => \A d \in gicEnabled : step[d] >= 1
  /\ gicOn => \A d \in gicEnabled \cap devEnabled : d # EPIT1 => step[d] >= 2
  /\ \A d \in Irqs : step[d] >= (IF d = EPIT1 THEN 3 ELSE 2) => irq_table[d] = "driver"
  /\ running => step[EPIT1] = 4
  /\ EPIT1 \in raised => running \/ leftover

\* A line whose dispatch is accounted for.
Dispatchable(d) == irq_table[d] = "driver" \/ (d = EPIT1 /\ leftover)

\* Where the core is in IRQ_Handler, and what it has saved by then.
CpuInv ==
  /\ mode = "main" => lr = "main" /\ saved = <<>> /\ active = {}
  /\ mode = "main" /\ pc # "Reset_Handler" => ~masked
  /\ mode = "irq" => lr = "main" /\ saved = <<>> /\ active = {} /\ gicOn /\ vbar
  /\ mode = "svc" => lr = "main" /\ saved = <<"main">>
  /\ mode \in {"handler", "eoi"} => saved = <<"main">> /\ lr = "IRQ_Handler"
  /\ mode # "main" => vbar /\ masked
  /\ mode \in {"svc", "handler", "eoi"} => active \subseteq {iar}
  /\ mode = "handler" => iar \in Irqs
  /\ mode \in {"svc", "handler"} /\ iar \in Irqs => Dispatchable(iar)
  /\ irq_count = (IF mode = "handler" THEN 1 ELSE 0)

IInv == TypeOK /\ BootInv /\ PathInv /\ CpuInv

-----------------------------------------------------------------------------
\* Every init function but the EPIT's registers its handler as the second of
\* three stores, so that the last store is the one that opens the path.
LEMMA RegisterIsSecond ==
  ASSUME NEW d \in Irqs, d # EPIT1
  PROVE  /\ Len(InitOrder(d)) = 3
         /\ InitOrder(d)[1] \in {"GIC_EnableIRQ", "device"}
         /\ InitOrder(d)[2] = "irq_handler_register"
         /\ InitOrder(d)[3] \in {"GIC_EnableIRQ", "device"}
  BY DEF InitOrder, exit_init, gt9147_init, backlight_init

\* epit1_init opens the path, registers the handler, and starts the timer.
LEMMA StartIsLast ==
  /\ Len(InitOrder(EPIT1)) = 4
  /\ InitOrder(EPIT1)[1] = "device"
  /\ InitOrder(EPIT1)[2] = "GIC_EnableIRQ"
  /\ InitOrder(EPIT1)[3] = "irq_handler_register"
  /\ InitOrder(EPIT1)[4] = "start"
  BY DEF InitOrder, epit1_init

\* The initial states satisfy the inductive invariant.
LEMMA InitEstablishes == Init => IInv
  <1> SUFFICES ASSUME Init PROVE IInv
    OBVIOUS
  <1>1. TypeOK
    <2>1. /\ masked \in BOOLEAN /\ vbar \in BOOLEAN /\ gicOn \in BOOLEAN
          /\ running \in BOOLEAN
      BY Zenon DEF Init
    <2>2. leftover \in BOOLEAN
      BY DEF Init
    <2>3. step \in [Irqs -> 0 .. 4]
      BY DEF Init
    <2>4. irq_table \in [Vectors -> {"unset", "default_irq_handler", "driver"}]
      BY DEF Init
    <2>5. QED
      BY <2>1, <2>3, <2>4, <2>2, IrqAssumption DEF Init, TypeOK
  <1>2. BootInv /\ PathInv
    <2>1. EPIT1 \in raised => leftover
      BY Zenon DEF Init
    <2>2. QED
      BY <2>1 DEF Init, BootInv, PathInv
  <1>3. CpuInv
    BY DEF Init, CpuInv
  <1>4. QED
    BY <1>1, <1>2, <1>3 DEF IInv

\* The four steps of Reset_Handler and int_init preserve the invariant.
LEMMA BootPreserves == IInv /\ Boot => IInv'
  <1> SUFFICES ASSUME IInv, Boot PROVE IInv'
    OBVIOUS
  <1> USE DEF IInv, TypeOK, BootInv, PathInv, CpuInv, Dispatchable, MainAt,
              mainVars, cpuVars, gicVars, devVars
  <1>1. CASE Reset_Handler
    BY <1>1, Zenon DEF Reset_Handler
  <1>2. CASE GIC_Init
    BY <1>2 DEF GIC_Init
  <1>3. CASE irq_table_init
    BY <1>3 DEF irq_table_init
  <1>4. CASE set_VBAR
    BY <1>4 DEF set_VBAR
  <1>5. QED
    BY <1>1, <1>2, <1>3, <1>4 DEF Boot

\* A store of an init function other than the EPIT's preserves the invariant.
LEMMA InitStepPreserves ==
  ASSUME NEW d \in Irqs, d # EPIT1 PROVE IInv /\ InitStep(d) => IInv'
  <1> SUFFICES ASSUME IInv, InitStep(d) PROVE IInv'
    OBVIOUS
  <1>1. step[d] \in 0 .. 2 /\ d \in Vectors
    BY IrqAssumption, RegisterIsSecond DEF IInv, TypeOK, InitStep
  <1>2. step' = [step EXCEPT ![d] = @ + 1] /\ step' \in [Irqs -> 0 .. 4]
    BY <1>1 DEF IInv, TypeOK, InitStep
  <1>3. cur' \subseteq Irqs
    BY DEF InitStep
  <1> USE DEF IInv, TypeOK, BootInv, PathInv, CpuInv, Dispatchable,
              mainVars, cpuVars, gicVars, devVars
  <1>4. /\ mode = "main" /\ pc = "drivers"
        /\ UNCHANGED <<pc, cpuVars, vbar, gicOn, active, raised, leftover, events>>
    BY DEF InitStep
  <1>5. CASE InitOrder(d)[step[d] + 1] = "GIC_EnableIRQ"
    <2>1. step[d] \in {0, 2}
      BY <1>1, <1>5, RegisterIsSecond
    <2>2. GIC_EnableIRQ(d)
      BY <1>5 DEF InitStep
    <2>3. QED
      BY <1>3, <1>1, <1>2, <1>4, <2>1, <2>2 DEF GIC_EnableIRQ
  <1>6. CASE InitOrder(d)[step[d] + 1] = "device"
    <2>1. step[d] \in {0, 2}
      BY <1>1, <1>6, RegisterIsSecond
    <2>2. EnableDevice(d)
      BY <1>6 DEF InitStep
    <2>3. QED
      BY <1>3, <1>1, <1>2, <1>4, <2>1, <2>2 DEF EnableDevice
  <1>7. CASE InitOrder(d)[step[d] + 1] = "irq_handler_register"
    <2>1. step[d] = 1
      BY <1>1, <1>7, RegisterIsSecond
    <2>2. irq_handler_register(d)
      BY <1>7 DEF InitStep
    <2>3. QED
      BY <1>3, <1>1, <1>2, <1>4, <2>1, <2>2 DEF irq_handler_register
  <1>8. QED
    BY <1>1, <1>5, <1>6, <1>7, RegisterIsSecond

\* A store of epit1_init preserves the invariant: the timer starts counting
\* only after the handler is registered.
LEMMA EpitStepPreserves == IInv /\ InitStep(EPIT1) => IInv'
  <1> SUFFICES ASSUME IInv, InitStep(EPIT1) PROVE IInv'
    OBVIOUS
  <1>1. EPIT1 \in Irqs
    BY DEF Irqs
  <1>2. step[EPIT1] \in 0 .. 3 /\ EPIT1 \in Vectors
    BY <1>1, IrqAssumption, StartIsLast DEF IInv, TypeOK, InitStep
  <1>3. step' = [step EXCEPT ![EPIT1] = @ + 1] /\ step' \in [Irqs -> 0 .. 4]
    BY <1>1, <1>2 DEF IInv, TypeOK, InitStep
  <1>4. cur' \subseteq Irqs
    BY <1>1 DEF InitStep
  <1> USE DEF IInv, TypeOK, BootInv, PathInv, CpuInv, Dispatchable,
              mainVars, cpuVars, gicVars, devVars
  <1>5. /\ mode = "main" /\ pc = "drivers"
        /\ UNCHANGED <<pc, cpuVars, vbar, gicOn, active, raised, leftover, events>>
    BY DEF InitStep
  <1>6. CASE step[EPIT1] = 0
    <2>1. EnableDevice(EPIT1)
      BY <1>6, StartIsLast DEF InitStep
    <2>2. QED
      BY <1>1, <1>2, <1>3, <1>4, <1>5, <1>6, <2>1 DEF EnableDevice
  <1>7. CASE step[EPIT1] = 1
    <2>1. GIC_EnableIRQ(EPIT1)
      BY <1>7, StartIsLast DEF InitStep
    <2>2. QED
      BY <1>1, <1>2, <1>3, <1>4, <1>5, <1>7, <2>1 DEF GIC_EnableIRQ
  <1>8. CASE step[EPIT1] = 2
    <2>1. irq_handler_register(EPIT1)
      BY <1>8, StartIsLast DEF InitStep
    <2>2. QED
      BY <1>1, <1>2, <1>3, <1>4, <1>5, <1>8, <2>1 DEF irq_handler_register
  <1>9. CASE step[EPIT1] = 3
    <2>1. StartTimer
      BY <1>9, StartIsLast DEF InitStep
    <2>2. QED
      BY <1>1, <1>2, <1>3, <1>4, <1>5, <1>9, <2>1 DEF StartTimer
  <1>10. QED
    BY <1>2, <1>6, <1>7, <1>8, <1>9

\* Every stage of the interrupt path preserves the invariant.
LEMMA PathPreserves == IInv /\ InterruptPath => IInv'
  <1> SUFFICES ASSUME IInv, InterruptPath PROVE IInv'
    OBVIOUS
  <1>1. Irqs \subseteq Vectors /\ Vectors \subseteq Int /\ Spurious \notin Vectors
    BY IrqAssumption DEF Vectors, Spurious
  <1> USE DEF IInv, TypeOK, BootInv, PathInv, CpuInv, Dispatchable,
              mainVars, cpuVars, gicVars, devVars
  <1>2. CASE TakeIrq
    BY <1>2 DEF TakeIrq, Signalled
  <1>3. CASE IRQ_Handler
    <2>1. CASE Signalled = {}
      BY <1>1, <1>3, <2>1, Zenon DEF IRQ_Handler
    <2>2. CASE Signalled # {}
      <3>1. PICK i \in Signalled : iar' = i /\ active' = {i}
        BY <1>3, <2>2, Zenon DEF IRQ_Handler
      <3>2. i \in Irqs /\ i \in raised \cap devEnabled \cap gicEnabled /\ gicOn
        BY <3>1, Zenon DEF Signalled
      <3>3. Dispatchable(i)
        BY <3>2
      <3>4. Dispatchable(i)'
        BY <1>3, <3>3, Zenon DEF IRQ_Handler
      <3>5. QED
        BY <1>1, <1>3, <3>1, <3>2, <3>4, Zenon DEF IRQ_Handler
    <2>3. QED
      BY <2>1, <2>2
  <1>4. CASE sys_irq_handler
    BY <1>1, <1>4, IrqAssumption DEF sys_irq_handler, Vectors
  <1>5. CASE HandlerReturns
    BY <1>5 DEF HandlerReturns
  <1>6. CASE EndOfInterrupt
    <2>1. lr' = "main" /\ saved' = <<>>
      BY <1>6 DEF EndOfInterrupt
    <2>2. active' = {}
      BY <1>6 DEF EndOfInterrupt
    <2>3. QED
      BY <1>6, <2>1, <2>2, Zenon DEF EndOfInterrupt
  <1>7. QED
    BY <1>2, <1>3, <1>4, <1>5, <1>6 DEF InterruptPath

\* A device raising or withdrawing its flag preserves the invariant.
LEMMA DevicePreserves == IInv /\ Device => IInv'
  <1> SUFFICES ASSUME IInv, NEW d \in Irqs, Raise(d) \/ Withdraw(d) PROVE IInv'
    BY DEF Device
  <1> USE DEF IInv, TypeOK, BootInv, PathInv, CpuInv, Dispatchable,
              mainVars, cpuVars, gicVars, devVars
  <1>1. CASE Raise(d)
    BY <1>1, IrqAssumption DEF Raise
  <1>2. CASE Withdraw(d)
    BY <1>2 DEF Withdraw
  <1>3. QED
    BY <1>1, <1>2

\* The inductive invariant holds in every reachable state.
THEOREM Inductive == Spec => []IInv
  <1>1. IInv /\ [Next]_vars => IInv'
    <2> SUFFICES ASSUME IInv, [Next]_vars PROVE IInv'
      OBVIOUS
    <2>1. CASE UNCHANGED vars
      BY <2>1 DEF vars, mainVars, cpuVars, gicVars, devVars, IInv, TypeOK,
                  BootInv, PathInv, CpuInv, Dispatchable
    <2>2. QED
      BY <2>1, BootPreserves, InitStepPreserves, EpitStepPreserves, PathPreserves,
         DevicePreserves
      DEF Next
  <1>2. QED
    BY InitEstablishes, <1>1, PTL DEF Spec

\* Type correctness of the interrupt path.
THEOREM TypeCorrect == Spec => []TypeOK
  BY Inductive, PTL DEF IInv

\* The core never dispatches to default_irq_handler or to an unset entry, but
\* for a compare flag of the EPIT that was latched when the program started.
THEOREM DispatchIsSafe == Spec => []NoDefaultDispatch
  <1>1. IInv => NoDefaultDispatch
    BY DEF IInv, CpuInv, Dispatchable, NoDefaultDispatch
  <1>2. QED
    BY Inductive, <1>1, PTL

\* No exception is taken before int_init has set VBAR.
THEOREM VectorsAreReady == Spec => []VectorsReady
  <1>1. IInv => VectorsReady
    BY DEF IInv, CpuInv, VectorsReady
  <1>2. QED
    BY Inductive, <1>1, PTL

\* Interrupted code resumes with its context, the GIC and the nesting counter
\* as they were.
THEOREM ResumesIntact == Spec => []MainResumesIntact
  <1>1. IInv => MainResumesIntact
    BY DEF IInv, CpuInv, MainResumesIntact
  <1>2. QED
    BY Inductive, <1>1, PTL

\* The nesting counter is the number of handlers running, at most one.
THEOREM NestingIsCounted == Spec => []CountsNesting
  <1>1. IInv => CountsNesting
    BY DEF IInv, CpuInv, CountsNesting
  <1>2. QED
    BY Inductive, <1>1, PTL
=============================================================================
