---------------------------- MODULE TouchProofs -----------------------------
(***************************************************************************)
(* The touch driver, for every interrupt mode of the panel, any number of  *)
(* reports and points, and whichever transfers fail: the handler keeps off *)
(* the bus while main uses it, a report is not overwritten by a second run *)
(* of the handler, and a failed initialisation leaves the handler closed.  *)
(***************************************************************************)
EXTENDS Touch, TLAPS

-----------------------------------------------------------------------------
(* The inductive invariant: how far gt9147_init has come says which of its *)
(* effects are there.                                                      *)

\* main is in a transfer only at one of the four that gt9147_init makes, and
\* the interrupt path is opened, and initfalg set, after them and in order.
InitInv ==
  /\ bus = "main" => pc \in 2 .. 5
  /\ pc \in 7 .. 9 => gic
  /\ pc \in 8 .. 9 => IMR
  /\ IMR => pc >= 8 /\ ~gt_init_fail
  /\ initfalg => pc >= 9
  /\ gt_init_fail => pc = Done

\* The handler runs through an open interrupt only, and reads the panel only
\* when initfalg says so.
HandlerInv ==
  /\ mode # "main" \/ handled => IMR
  /\ mode \in {"gstid", "ack", "points"} => initfalg
  /\ mode = "clear" => ~initfalg
  /\ taken # None => initfalg

\* As long as no transfer fails the pin is configured for the panel's mode.
PinInv == (idLost => failed) /\ (~failed => irq_mode \in {None, intMode})

\* What the handler is run for: once initfalg is set, a flag that main finds
\* belongs to a report that is still in the buffer, and so it is when the
\* handler reads the status and when it acknowledges.
ReportInv ==
  ~failed =>
    /\ mode = "main" /\ initfalg => (ISR => ready)
    /\ mode = "gt9147_irqhandler" /\ initfalg => ready
    /\ mode = "gstid" => ready
    /\ mode = "ack" => ready /\ regvalue = num
    /\ mode \in {"main", "points"} /\ taken # None => point_num = taken

\* The type invariant, the Boolean variables apart.
Bools ==
  /\ initfalg \in BOOLEAN /\ intflag \in BOOLEAN /\ gt_init_fail \in BOOLEAN
  /\ gic \in BOOLEAN /\ IMR \in BOOLEAN /\ ISR \in BOOLEAN /\ ready \in BOOLEAN
  /\ idLost \in BOOLEAN /\ failed \in BOOLEAN /\ handled \in BOOLEAN
Places ==
  /\ pc \in 1 .. Done /\ bus \in {"idle", "main"}
  /\ mode \in {"main", "gt9147_irqhandler", "gstid", "ack", "points", "clear"}
Values ==
  /\ point_num \in 0 .. MaxPoints /\ regvalue \in 0 .. MaxPoints
  /\ i \in 0 .. MaxPoints /\ buf \in Reports \cup {Garbage}
  /\ irq_mode \in RisingEdge .. HighLevel \cup {None} /\ intMode \in IntModes
  /\ report \in Reports /\ num \in 0 .. MaxPoints
  /\ col \in 0 .. MaxPoints /\ taken \in 0 .. MaxPoints \cup {None}
Arrays ==
  /\ xy \in [Points -> Reports \cup {Garbage}]
  /\ shown \in [0 .. MaxPoints -> Reports \cup 0 .. MaxPoints \cup {Garbage}]

Types == Bools /\ Places /\ Values /\ Arrays

IInv == Types /\ InitInv /\ HandlerInv /\ PinInv /\ ReportInv

-----------------------------------------------------------------------------
USE TouchAssumption DEF Points, Reports, Garbage, None, RisingEdge, FallingEdge, LowLevel, HighLevel

\* The places of gt9147_init.
LEMMA Order ==
  /\ Done = 10
  /\ \A op : MainAt(op) => mode = "main" /\ ~Pending /\ op = InitOrder[pc]
  /\ InitOrder[1] = "reset" /\ InitOrder[2] = "id" /\ InitOrder[3] = "mode"
  /\ InitOrder[4] = "ctrl" /\ InitOrder[5] = "ctrl0" /\ InitOrder[6] = "gic"
  /\ InitOrder[7] = "enable" /\ InitOrder[8] = "finished" /\ InitOrder[9] = "intflag"
BY DEF Done, InitOrder, MainAt

\* The statement that is executed says where main is.
LEMMA At ==
  ASSUME Places, NEW op, MainAt(op)
  PROVE  /\ mode = "main" /\ ~Pending /\ pc \in 1 .. 9
         /\ op = "reset" => pc = 1
         /\ op = "id" => pc = 2
         /\ op = "mode" => pc = 3
         /\ op = "ctrl" => pc = 4
         /\ op = "ctrl0" => pc = 5
         /\ op = "gic" => pc = 6
         /\ op = "enable" => pc = 7
         /\ op = "finished" => pc = 8
         /\ op = "intflag" => pc = 9
<1>1. pc \in 1 .. 9 /\ op = InitOrder[pc]
  BY Order DEF Places, MainAt
<1>2. \/ pc = 1 \/ pc = 2 \/ pc = 3 \/ pc = 4 \/ pc = 5 \/ pc = 6 \/ pc = 7 \/ pc = 8 \/ pc = 9
  BY <1>1
<1>3. QED
  BY <1>1, <1>2, Order DEF MainAt

\* A pin that is configured for the panel's mode has its level only while the
\* buffer is full.
LEMMA LevelIsReport ==
  ASSUME irq_mode \in {None, intMode}, Level(FALSE)
  PROVE  FALSE
BY DEF Level, High

LEMMA Initially == Init => IInv
<1> SUFFICES ASSUME Init PROVE IInv
  OBVIOUS
<1>1. Bools
  BY Zenon DEF Init, Bools
<1>2. Places /\ Values
  BY Order DEF Init, Places, Values
<1>3. Arrays
  BY DEF Init, Arrays
<1>4. InitInv /\ HandlerInv /\ PinInv /\ ReportInv
  BY Order DEF Init, InitInv, HandlerInv, PinInv, ReportInv
<1>5. QED
  BY <1>1, <1>2, <1>3, <1>4 DEF IInv, Types

\* The statements of gt9147_init that are no transfers, by their places.
LEMMA InitStepAt ==
  Places /\ InitStep =>
         /\ mode = "main" /\ ~Pending /\ pc' = pc + 1
         /\ \/ pc = 1 /\ initfalg' = FALSE /\ point_num' = 0
               /\ xy' = [p \in Points |-> 0] /\ UNCHANGED <<intflag, gic, IMR>>
            \/ pc = 6 /\ gic' = TRUE /\ UNCHANGED <<initfalg, point_num, xy, intflag, IMR>>
            \/ pc = 7 /\ IMR' = TRUE /\ UNCHANGED <<initfalg, point_num, xy, intflag, gic>>
            \/ pc = 8 /\ initfalg' = TRUE /\ UNCHANGED <<point_num, xy, intflag, gic, IMR>>
            \/ pc = 9 /\ intflag' = FALSE /\ UNCHANGED <<initfalg, point_num, xy, gic, IMR>>
         /\ UNCHANGED <<bus, gt_init_fail, mode, tpVars, ISR, irq_mode, device, display, idLost,
                        failed, handled, taken>>
BY At DEF InitStep

\* They keep the invariant. An interrupt cannot be pending, so the one that
\* sets initfalg finds no flag.
LEMMA InitStepInv ==
  ASSUME IInv, InitStep
  PROVE  IInv'
<1> USE DEF IInv, Types, tpVars, device, display
<1>1. Places /\ Done = 10
  BY Order
<1>2. Bools'
  BY <1>1, InitStepAt, ZenonT(40) DEF Bools
<1>3. Places'
  BY <1>1, InitStepAt, Order DEF Places
<1>4. Values'
  BY <1>1, InitStepAt DEF Values
<1>5. Arrays'
  BY <1>1, InitStepAt DEF Arrays
<1>6. InitInv'
  BY <1>1, InitStepAt DEF InitInv, Places
<1>7. HandlerInv'
  BY <1>1, InitStepAt DEF InitInv, HandlerInv
<1>8. PinInv'
  BY <1>1, InitStepAt DEF PinInv
<1>9. ReportInv'
  BY <1>1, InitStepAt DEF InitInv, HandlerInv, ReportInv, Pending
<1>10. QED
  BY <1>2, <1>3, <1>4, <1>5, <1>6, <1>7, <1>8, <1>9

LEMMA StartTransferInv ==
  ASSUME IInv, StartTransfer
  PROVE  IInv'
<1> USE DEF IInv, Types, StartTransfer, tpVars, device, display
<1>1. mode = "main" /\ pc \in 2 .. 5
  BY At DEF Transfers
<1>2. Bools'
  BY Zenon DEF Bools
<1>3. Places' /\ Values' /\ Arrays'
  BY DEF Places, Values, Arrays
<1>4. InitInv' /\ HandlerInv' /\ PinInv' /\ ReportInv'
  BY <1>1 DEF InitInv, HandlerInv, PinInv, ReportInv
<1>5. QED
  BY <1>2, <1>3, <1>4

\* The end of a transfer of gt9147_init: main leaves the bus.
LEMMA EndTransferAt ==
  ASSUME Places, NEW op, NEW ok, EndTransfer(op, ok)
  PROVE  /\ mode = "main" /\ MainAt(op) /\ bus' = "idle" /\ failed' = (failed \/ ~ok)
         /\ op = "id" => pc = 2
         /\ op = "mode" => pc = 3
         /\ op = "ctrl" => pc = 4
         /\ op = "ctrl0" => pc = 5
         /\ UNCHANGED <<mode, initfalg, intflag, point_num, xy, tpVars, gic, IMR, device,
                        display, handled, taken>>
BY At DEF EndTransfer, Count

LEMMA TransferInv ==
  ASSUME IInv, NEW ok \in Outcomes, ReadId(ok) \/ ReadMode(ok) \/ WriteCtrl(ok) \/ WriteCtrl0(ok)
  PROVE  IInv'
<1> USE DEF IInv, Types, tpVars, device, display
<1>1. ok \in BOOLEAN
  BY Zenon DEF Outcomes
<1>2. CASE ReadId(ok)
  <2>1. /\ pc = 2 /\ pc' = 3 /\ mode = "main" /\ bus' = "idle" /\ idLost' = ~ok
        /\ failed' = (failed \/ ~ok)
        /\ UNCHANGED <<mode, initfalg, intflag, point_num, xy, tpVars, gic, IMR, device, display,
                       handled, taken, gt_init_fail, ISR, irq_mode>>
    BY <1>2, EndTransferAt DEF ReadId
  <2>2. Bools'
    BY <2>1, Zenon DEF Bools
  <2>3. Places' /\ Values' /\ Arrays'
    BY <2>1, Order DEF Places, Values, Arrays
  <2>4. InitInv' /\ HandlerInv'
    BY <1>1, <2>1, Order DEF InitInv, HandlerInv
  <2>5. PinInv'
    BY <1>1, <2>1, Zenon DEF PinInv
  <2>6. ReportInv'
    BY <2>1 DEF ReportInv, InitInv, HandlerInv
  <2>7. QED
    BY <2>2, <2>3, <2>4, <2>5, <2>6
<1>3. CASE ReadMode(ok)
  <2>1. /\ pc = 3 /\ pc' = 4 /\ mode = "main" /\ bus' = "idle" /\ failed' = (failed \/ ~ok)
        /\ irq_mode' \in IF ~ok THEN {RisingEdge}
                         ELSE IF idLost THEN RisingEdge .. HighLevel ELSE {intMode}
        /\ ISR' = (ISR \/ Level(ready)')
        /\ UNCHANGED <<mode, initfalg, intflag, point_num, xy, tpVars, gic, IMR, device, display,
                       handled, taken, gt_init_fail, idLost>>
    BY <1>3, EndTransferAt DEF ReadMode
  <2>2. Bools'
    BY <2>1, Zenon DEF Bools
  <2>3. Places' /\ Arrays'
    BY <2>1, Order DEF Places, Arrays
  <2>4. Values'
    BY <2>1 DEF Values
  <2>5. InitInv' /\ HandlerInv'
    BY <2>1, Order DEF InitInv, HandlerInv
  <2>6. PinInv'
    BY <1>1, <2>1, Zenon DEF PinInv
  <2>7. ReportInv'
    BY <2>1 DEF ReportInv, InitInv, HandlerInv
  <2>8. QED
    BY <2>2, <2>3, <2>4, <2>5, <2>6, <2>7
<1>4. CASE WriteCtrl(ok)
  <2>1. /\ pc = 4 /\ pc' = (IF ok THEN 5 ELSE Done) /\ gt_init_fail' = ~ok
        /\ mode = "main" /\ bus' = "idle" /\ failed' = (failed \/ ~ok)
        /\ UNCHANGED <<mode, initfalg, intflag, point_num, xy, tpVars, gic, IMR, device, display,
                       handled, taken, ISR, irq_mode, idLost>>
    BY <1>4, EndTransferAt DEF WriteCtrl
  <2>2. Bools'
    BY <2>1, Zenon DEF Bools
  <2>3. Places' /\ Values' /\ Arrays'
    BY <2>1, Order DEF Places, Values, Arrays
  <2>4. InitInv'
    <3>1. ~IMR' /\ ~initfalg' /\ pc' \in {5, 10}
      BY <2>1, Order DEF InitInv
    <3>2. gt_init_fail' => pc' = Done
      BY <2>1, Zenon
    <3>3. QED
      BY <2>1, <3>1, <3>2, Order DEF InitInv
  <2>5. HandlerInv'
    BY <2>1 DEF HandlerInv
  <2>6. PinInv'
    BY <1>1, <2>1, Zenon DEF PinInv
  <2>7. ReportInv'
    BY <2>1 DEF ReportInv, InitInv, HandlerInv
  <2>8. QED
    BY <2>2, <2>3, <2>4, <2>5, <2>6, <2>7
<1>5. CASE WriteCtrl0(ok)
  <2>1. /\ pc = 5 /\ pc' = 6 /\ mode = "main" /\ bus' = "idle" /\ failed' = (failed \/ ~ok)
        /\ UNCHANGED <<mode, initfalg, intflag, point_num, xy, tpVars, gic, IMR, device, display,
                       handled, taken, gt_init_fail, ISR, irq_mode, idLost>>
    BY <1>5, EndTransferAt DEF WriteCtrl0
  <2>2. Bools'
    BY <2>1, Zenon DEF Bools
  <2>3. Places' /\ Values' /\ Arrays'
    BY <2>1, Order DEF Places, Values, Arrays
  <2>4. InitInv' /\ HandlerInv'
    BY <1>1, <2>1, Order DEF InitInv, HandlerInv
  <2>5. PinInv'
    BY <1>1, <2>1, Zenon DEF PinInv
  <2>6. ReportInv'
    BY <2>1 DEF ReportInv, InitInv, HandlerInv
  <2>7. QED
    BY <2>2, <2>3, <2>4, <2>5, <2>6
<1>6. QED
  BY <1>2, <1>3, <1>4, <1>5

LEMMA ShowInv ==
  ASSUME IInv, Show
  PROVE  IInv'
<1> USE DEF IInv, Types, Show, mainVars, tpVars, device
<1>1. Bools'
  BY Zenon DEF Bools
<1>2. Places' /\ Values'
  BY DEF Places, Values
<1>3. Arrays'
  <2>1. (IF col = 0 THEN point_num ELSE xy[col]) \in Reports \cup 0 .. MaxPoints \cup {Garbage}
    BY DEF Values, Arrays
  <2>2. QED
    BY <2>1 DEF Values, Arrays
<1>4. InitInv' /\ HandlerInv' /\ PinInv' /\ ReportInv'
  BY DEF InitInv, HandlerInv, PinInv, ReportInv
<1>5. QED
  BY <1>1, <1>2, <1>3, <1>4

-----------------------------------------------------------------------------
(* The handler.                                                            *)

\* What no step of the handler touches.
LEMMA HandlerKeeps ==
  ASSUME IInv, NEW from, Handler(from), mode' \in {"main", "gt9147_irqhandler", "gstid", "ack", "points", "clear"}
  PROVE  Places' /\ InitInv' /\ shown' = shown
BY DEF IInv, Types, Handler, mainVars, display, Places, InitInv

LEMMA TakeIrqInv ==
  ASSUME IInv, TakeIrq
  PROVE  IInv'
<1> USE DEF TakeIrq, tpVars
<1>1. Places' /\ InitInv'
  BY HandlerKeeps
<1> USE DEF IInv, Types, Handler, display, mainVars
<1>2. Bools'
  BY Zenon DEF Bools
<1>3. Values' /\ Arrays'
  BY DEF Values, Arrays
<1>4. HandlerInv' /\ PinInv' /\ ReportInv'
  BY DEF HandlerInv, PinInv, ReportInv, Pending
<1>5. QED
  BY <1>1, <1>2, <1>3, <1>4

LEMMA IrqHandlerInv ==
  ASSUME IInv, gt9147_irqhandler
  PROVE  IInv'
<1> USE DEF gt9147_irqhandler, tpVars
<1>1. Places' /\ InitInv'
  BY HandlerKeeps
<1> USE DEF IInv, Types, Handler, display, mainVars
<1>2. Bools'
  BY Zenon DEF Bools
<1>3. Values' /\ Arrays'
  BY DEF Values, Arrays
<1>4. HandlerInv'
  BY DEF HandlerInv
<1>5. PinInv' /\ ReportInv'
  BY DEF HandlerInv, PinInv, ReportInv
<1>6. QED
  BY <1>1, <1>2, <1>3, <1>4, <1>5

\* A flag means a report, so the status that is read is that of a full buffer.
LEMMA ReadStatusInv ==
  ASSUME IInv, NEW ok \in BOOLEAN, ReadStatus(ok)
  PROVE  IInv'
<1> USE DEF ReadStatus
<1>1. Places' /\ InitInv'
  BY HandlerKeeps
<1> USE DEF IInv, Types, Handler, Count, display, mainVars
<1>2. Bools'
  BY Zenon DEF Bools
<1>3. Values' /\ Arrays'
  BY DEF Values, Arrays
<1>4. HandlerInv' /\ PinInv'
  BY Zenon DEF HandlerInv, PinInv
<1>5. ReportInv'
  BY Zenon DEF ReportInv
<1>6. QED
  BY <1>1, <1>2, <1>3, <1>4, <1>5

\* Acknowledging takes the points of the report whose status was read.
LEMMA AcknowledgeInv ==
  ASSUME IInv, NEW ok \in BOOLEAN, Acknowledge(ok)
  PROVE  IInv'
<1> USE DEF Acknowledge, tpVars
<1>1. Places' /\ InitInv'
  BY HandlerKeeps
<1> USE DEF IInv, Types, Handler, Count, display, mainVars
<1>2. Bools'
  BY Zenon DEF Bools, Flagged
<1>3. Values' /\ Arrays'
  BY Zenon DEF Values, Arrays
<1>4. HandlerInv' /\ PinInv'
  BY Zenon DEF HandlerInv, PinInv
<1>5. ReportInv'
  BY Zenon DEF ReportInv
<1>6. QED
  BY <1>1, <1>2, <1>3, <1>4, <1>5

\* The points that are counted fit into x and y.
LEMMA ReadPointInv ==
  ASSUME IInv, NEW ok \in BOOLEAN, ReadPoint(ok)
  PROVE  IInv'
<1> USE DEF ReadPoint
<1>1. Places' /\ InitInv'
  BY HandlerKeeps DEF IInv, Types, Places
<1> USE DEF IInv, Types, Handler, Count, display, mainVars
<1>2. Bools'
  BY Zenon DEF Bools
<1>3. Values'
  BY DEF Values
<1>4. Arrays'
  <2>1. i' \in Points /\ buf' \in Reports \cup {Garbage}
    BY DEF Values
  <2>2. QED
    BY <2>1 DEF Arrays
<1>5. HandlerInv' /\ PinInv'
  BY Zenon DEF HandlerInv, PinInv
<1>6. ReportInv'
  BY Zenon DEF ReportInv
<1>7. QED
  BY <1>1, <1>2, <1>3, <1>4, <1>5, <1>6

\* The handler returns with the flag of a new report only.
LEMMA ClearInv ==
  ASSUME IInv, pin_int_clear
  PROVE  IInv'
<1> USE DEF pin_int_clear, tpVars
<1>1. Places' /\ InitInv'
  BY HandlerKeeps
<1> USE DEF IInv, Types, Handler, display, mainVars
<1>2. Bools'
  <2>1. Level(ready) \in BOOLEAN
    BY Zenon DEF Level
  <2>2. QED
    BY <2>1, Zenon DEF Bools
<1>3. Values' /\ Arrays'
  BY DEF Values, Arrays
<1>4. HandlerInv' /\ PinInv'
  BY DEF HandlerInv, PinInv
<1>5. ~failed /\ Level(ready) => ready
  <2>1. ready = FALSE \/ ready = TRUE
    BY DEF Bools
  <2>2. ~failed => irq_mode \in {None, intMode}
    BY DEF PinInv
  <2>3. QED
    BY <2>1, <2>2, LevelIsReport, Zenon
<1>6. ReportInv'
  BY <1>5 DEF ReportInv, HandlerInv
<1>7. QED
  BY <1>1, <1>2, <1>3, <1>4, <1>6

-----------------------------------------------------------------------------
(* The panel.                                                              *)

LEMMA PanelInv ==
  ASSUME IInv, NewReport \/ Pulse
  PROVE  IInv'
<1> USE DEF IInv, Types, Panel, mainVars, tpVars, display
<1>1. CASE NewReport
  <2>1. Bools'
    BY <1>1, Zenon DEF Bools, NewReport, Flagged
  <2>2. Places' /\ Values'
    BY <1>1 DEF Places, Values, NewReport
  <2>3. Arrays' /\ InitInv' /\ HandlerInv' /\ PinInv'
    BY <1>1 DEF Arrays, InitInv, HandlerInv, PinInv, NewReport
  <2>4. ReportInv'
    BY <1>1 DEF ReportInv, NewReport
  <2>5. QED
    BY <2>1, <2>2, <2>3, <2>4
<1>2. CASE Pulse
  <2>1. Bools'
    BY <1>2, Zenon DEF Bools, Pulse
  <2>2. Places' /\ Values'
    BY <1>2 DEF Places, Values, Pulse
  <2>3. Arrays' /\ InitInv' /\ HandlerInv' /\ PinInv'
    BY <1>2 DEF Arrays, InitInv, HandlerInv, PinInv, Pulse
  <2>4. ReportInv'
    BY <1>2 DEF ReportInv, Pulse
  <2>5. QED
    BY <2>1, <2>2, <2>3, <2>4
<1>3. QED
  BY <1>1, <1>2

-----------------------------------------------------------------------------
\* The invariant holds in every state, whatever fails and whenever the panel
\* reports.
THEOREM Inductive == Spec => []IInv
<1>1. IInv /\ UNCHANGED vars => IInv'
  BY DEF vars, mainVars, tpVars, device, display, IInv, Types, Bools, Places, Values, Arrays,
         InitInv, HandlerInv, PinInv, ReportInv
<1>2. \A ok \in Outcomes : ok \in BOOLEAN
  BY Zenon DEF Outcomes
<1>3. IInv /\ gt9147_init => IInv'
  BY InitStepInv, StartTransferInv, TransferInv DEF gt9147_init
<1>4. IInv /\ HandlerStep => IInv'
  BY <1>2, TakeIrqInv, IrqHandlerInv, ReadStatusInv, AcknowledgeInv, ReadPointInv, ClearInv
  DEF HandlerStep
<1>5. IInv /\ [Next]_vars => IInv'
  BY <1>1, <1>3, <1>4, ShowInv, PanelInv DEF Next
<1>6. QED
  BY Initially, <1>5, PTL DEF Spec

\* gt9147_read_tpcoord stays within x and y, and every variable in its type.
THEOREM TypesKept == Spec => []TypeOK
<1>1. IInv => TypeOK
  <2>1. SUFFICES ASSUME IInv PROVE TypeOK
    OBVIOUS
  <2>2. {initfalg, intflag, gt_init_fail, gic, IMR, ISR, ready, idLost, failed, handled} \subseteq BOOLEAN
    BY <2>1, Zenon DEF IInv, Types, Bools
  <2>3. QED
    BY <2>1, <2>2 DEF IInv, Types, Places, Values, Arrays, TypeOK
<1>2. QED
  BY Inductive, <1>1, PTL

\* gt9147_irqhandler and gt9147_init: the handler never finds main in a
\* transfer when it starts one.
THEOREM HandlerKeepsOffBus == Spec => []BusExclusive
<1>1. IInv => BusExclusive
  BY DEF IInv, Types, Places, InitInv, HandlerInv, BusExclusive
<1>2. QED
  BY Inductive, <1>1, PTL

\* gt9147_read_tpcoord: the number of points is that of the last report that
\* was acknowledged.
THEOREM ReportIsKept == Spec => []LastReportKept
<1>1. IInv => LastReportKept
  BY DEF IInv, ReportInv, LastReportKept
<1>2. QED
  BY Inductive, <1>1, PTL

\* gt9147_init: a failed one has not opened the interrupt.
THEOREM FailureIsClosed == Spec => []FailedInitIsClosed
<1>1. IInv => FailedInitIsClosed
  BY DEF IInv, InitInv, HandlerInv, FailedInitIsClosed
<1>2. QED
  BY Inductive, <1>1, PTL
=============================================================================
