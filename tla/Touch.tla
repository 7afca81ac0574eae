------------------------------- MODULE Touch -------------------------------
(***************************************************************************)
(* The touch driver (gt9147.c) under the main of 19_touch: gt9147_init     *)
(* opens an interrupt of a device that is already reporting, the handler   *)
(* reads the report over I2C2, and main shows what the handler stored.     *)
(*                                                                         *)
(* A report is a number; the coordinates of its points are represented by  *)
(* the report they belong to, Garbage standing for bytes of no report. A   *)
(* transfer of the handler is one step, a transfer of main two, because an *)
(* interrupt may come in between.                                          *)
(***************************************************************************)
EXTENDS Integers, Sequences

CONSTANTS
  IntModes,    \* interrupt modes (0x804D / 0x8056, bits 0-1) the panel has
  MaxPoints,   \* points of a report
  MaxReports,  \* bound on the reports of a behaviour
  Fails        \* whether I2C transfers may fail

RisingEdge == 0
FallingEdge == 1
LowLevel == 2
HighLevel == 3

ASSUME TouchAssumption ==
  /\ IntModes \subseteq RisingEdge .. HighLevel /\ IntModes # {}
  /\ MaxPoints \in 1 .. 5   \* x[5] and y[5]
  /\ MaxReports \in Nat /\ Fails \in BOOLEAN

Points == 1 .. MaxPoints
Reports == 0 .. MaxReports
Garbage == -1
None == -1

VARIABLES
  pc, bus,                \* main: its place, and whether it holds I2C2
  mode,                   \* main, or the place in gt9147_irqhandler
  initfalg, intflag, point_num, xy,  \* gt9147_dev
  gt_init_fail,
  regvalue, i, buf,       \* locals of gt9147_read_tpcoord
  gic, IMR, ISR, irq_mode,\* interrupt path, GPIO1 pin 9
  intMode, ready, report, num,       \* GT9147: mode; buffer full, its report
  col, shown,             \* main's display
  idLost, failed, handled, taken     \* history: ID read failed, any transfer
                          \* failed, handler read, points of the last report
                          \* acknowledged

mainVars == <<pc, bus, gt_init_fail>>
tpVars == <<regvalue, i, buf>>
device == <<intMode, ready, report, num>>
display == <<col, shown>>
vars == <<mainVars, mode, initfalg, intflag, point_num, xy, tpVars, gic, IMR, ISR,
          irq_mode, device, display, idLost, failed, handled, taken>>

-----------------------------------------------------------------------------
(* The INT pin. A panel in an edge mode pulses the pin, one in a level     *)
(* mode holds it while its buffer is full.                                 *)

High(full) ==
  \/ intMode = FallingEdge
  \/ intMode = LowLevel /\ ~full
  \/ intMode = HighLevel /\ full

\* A pin in a level mode is flagged for as long as it has that level.
Level(full) ==
  \/ irq_mode = LowLevel /\ ~High(full)
  \/ irq_mode = HighLevel /\ High(full)

\* What the buffer's filling or emptying flags.
Edge(full) ==
  \/ irq_mode = RisingEdge /\ ~High(ready) /\ High(full)
  \/ irq_mode = FallingEdge /\ High(ready) /\ ~High(full)

Flagged(full) == ISR \/ Level(full) \/ Edge(full)

Pending == gic /\ IMR /\ ISR

Init ==
  /\ pc = 1 /\ bus = "idle" /\ mode = "main" /\ gt_init_fail = FALSE
  /\ initfalg = FALSE /\ intflag = FALSE /\ point_num = 0
  /\ xy = [p \in Points |-> 0]
  /\ regvalue = 0 /\ i = 0 /\ buf = Garbage
  /\ gic = FALSE /\ IMR = FALSE /\ ISR \in BOOLEAN /\ irq_mode = None
  /\ intMode \in IntModes /\ ready = FALSE /\ report = 0 /\ num = 0
  /\ col = 0 /\ shown = [p \in 0 .. MaxPoints |-> 0]
  /\ idLost = FALSE /\ failed = FALSE /\ handled = FALSE /\ taken = None

-----------------------------------------------------------------------------
(* gt9147_init. Its statements in their order; main executes nothing while *)
(* an interrupt is pending.                                                *)

\* Mutated form: the panel's soft reset ends after the interrupt is opened.
InitOrderLate ==
  <<"reset", "id", "mode", "ctrl", "gic", "enable", "finished", "ctrl0", "intflag">>

InitOrder ==
  <<"reset", "id", "mode", "ctrl", "ctrl0", "gic", "enable", "finished", "intflag">>

Transfers == {"id", "mode", "ctrl", "ctrl0"}
Done == Len(InitOrder) + 1

MainAt(op) == mode = "main" /\ ~Pending /\ pc < Done /\ InitOrder[pc] = op

\* Whether a transfer succeeds.
Outcomes == IF Fails THEN BOOLEAN ELSE {TRUE}
Count(ok) == failed' = (failed \/ ~ok)

StartTransfer ==
  /\ \E op \in Transfers : MainAt(op)
  /\ bus = "idle" /\ bus' = "main"
  /\ UNCHANGED <<pc, gt_init_fail, mode, initfalg, intflag, point_num, xy, tpVars, gic,
                 IMR, ISR, irq_mode, device, display, idLost, failed, handled, taken>>

EndTransfer(op, ok) ==
  /\ MainAt(op) /\ bus = "main" /\ bus' = "idle" /\ Count(ok)
  /\ UNCHANGED <<mode, initfalg, intflag, point_num, xy, tpVars, gic, IMR, device,
                 display, handled, taken>>

\* The product ID; a failed read leaves it uninitialised.
ReadId(ok) ==
  /\ EndTransfer("id", ok)
  /\ pc' = pc + 1 /\ idLost' = ~ok
  /\ UNCHANGED <<gt_init_fail, ISR, irq_mode>>

\* The mode register depends on the ID; gpio_init then configures the pin. A
\* failed gt9147_read_byte returns 0.
ReadMode(ok) ==
  /\ EndTransfer("mode", ok)
  /\ pc' = pc + 1
  /\ irq_mode' \in IF ~ok THEN {RisingEdge}
                   ELSE IF idLost THEN RisingEdge .. HighLevel ELSE {intMode}
  /\ ISR' = (ISR \/ Level(ready)')
  /\ UNCHANGED <<gt_init_fail, idLost>>

\* Mutated form: the init goes on after a failure.
WriteCtrlGoOn(ok) ==
  /\ EndTransfer("ctrl", ok)
  /\ pc' = pc + 1 /\ gt_init_fail' = ~ok
  /\ UNCHANGED <<ISR, irq_mode, idLost>>

\* The soft reset; the init is given up if it cannot be written.
WriteCtrl(ok) ==
  /\ EndTransfer("ctrl", ok)
  /\ pc' = (IF ok THEN pc + 1 ELSE Done) /\ gt_init_fail' = ~ok
  /\ UNCHANGED <<ISR, irq_mode, idLost>>

WriteCtrl0(ok) ==
  /\ EndTransfer("ctrl0", ok)
  /\ pc' = pc + 1
  /\ UNCHANGED <<gt_init_fail, ISR, irq_mode, idLost>>

InitStep ==
  /\ \/ MainAt("reset") /\ initfalg' = FALSE /\ point_num' = 0
        /\ xy' = [p \in Points |-> 0] /\ UNCHANGED <<intflag, gic, IMR>>
     \/ MainAt("gic") /\ gic' = TRUE
        /\ UNCHANGED <<initfalg, point_num, xy, intflag, IMR>>
     \/ MainAt("enable") /\ IMR' = TRUE
        /\ UNCHANGED <<initfalg, point_num, xy, intflag, gic>>
     \/ MainAt("finished") /\ initfalg' = TRUE
        /\ UNCHANGED <<point_num, xy, intflag, gic, IMR>>
     \/ MainAt("intflag") /\ intflag' = FALSE
        /\ UNCHANGED <<initfalg, point_num, xy, gic, IMR>>
  /\ pc' = pc + 1
  /\ UNCHANGED <<bus, gt_init_fail, mode, tpVars, ISR, irq_mode, device, display, idLost,
                 failed, handled, taken>>

gt9147_init ==
  \/ InitStep \/ StartTransfer
  \/ \E ok \in Outcomes : ReadId(ok) \/ ReadMode(ok) \/ WriteCtrl(ok) \/ WriteCtrl0(ok)

\* main's loop: the number of points, then each point, and again.
Show ==
  /\ mode = "main" /\ ~Pending /\ pc = Done
  /\ shown' = [shown EXCEPT ![col] = IF col = 0 THEN point_num ELSE xy[col]]
  /\ col' = (col + 1) % (MaxPoints + 1)
  /\ UNCHANGED <<mainVars, mode, initfalg, intflag, point_num, xy, tpVars, gic, IMR, ISR,
                 irq_mode, device, idLost, failed, handled, taken>>

-----------------------------------------------------------------------------
(* gt9147_irqhandler and gt9147_read_tpcoord.                              *)

Handler(from) ==
  /\ mode = from
  /\ UNCHANGED <<mainVars, initfalg, gic, IMR, irq_mode, intMode, report, num, display, idLost>>

TakeIrq ==
  /\ Handler("main") /\ Pending /\ mode' = "gt9147_irqhandler"
  /\ UNCHANGED <<intflag, point_num, xy, tpVars, ISR, ready, failed, handled, taken>>

gt9147_irqhandler ==
  /\ Handler("gt9147_irqhandler")
  /\ IF initfalg
     THEN mode' = "gstid" /\ intflag' = TRUE /\ handled' = TRUE
     ELSE mode' = "clear" /\ UNCHANGED <<intflag, handled>>
  /\ UNCHANGED <<point_num, xy, tpVars, ISR, ready, failed, taken>>

ReadStatus(ok) ==
  /\ Handler("gstid") /\ mode' = "ack" /\ Count(ok)
  /\ regvalue' = (IF ok /\ ready THEN num ELSE 0) /\ i' = 0 /\ buf' = Garbage
  /\ UNCHANGED <<intflag, point_num, xy, ISR, ready, handled, taken>>

\* Writing 0 to the status register gives the buffer back to the panel.
Acknowledge(ok) ==
  /\ Handler("ack") /\ mode' = "points" /\ Count(ok)
  /\ point_num' = regvalue
  /\ IF ok /\ ready
     THEN ready' = FALSE /\ taken' = num /\ ISR' = Flagged(FALSE)
     ELSE UNCHANGED <<ready, taken, ISR>>
  /\ UNCHANGED <<intflag, xy, tpVars, handled>>

\* Mutated form: the loop starts at the second point.
ReadPointSkip(ok) ==
  /\ Handler("points") /\ i < point_num /\ UNCHANGED mode /\ Count(ok)
  /\ buf' \in IF ok THEN {report} ELSE {buf, Garbage, report}
  /\ i' = i + 1
  /\ xy' = IF i = 0 THEN xy ELSE [xy EXCEPT ![i + 1] = buf']
  /\ UNCHANGED <<intflag, point_num, regvalue, ISR, ready, handled, taken>>

\* A read that fails leaves some of buf as it was.
ReadPoint(ok) ==
  /\ Handler("points") /\ i < point_num /\ UNCHANGED mode /\ Count(ok)
  /\ buf' \in IF ok THEN {report} ELSE {buf, Garbage, report}
  /\ i' = i + 1 /\ xy' = [xy EXCEPT ![i'] = buf']
  /\ UNCHANGED <<intflag, point_num, regvalue, ISR, ready, handled, taken>>

\* Mutated form: the handler returns without clearing the flag.
pin_int_clearNot ==
  /\ \/ Handler("clear")
     \/ Handler("points") /\ i >= point_num
  /\ mode' = "main"
  /\ UNCHANGED <<intflag, point_num, xy, tpVars, ISR, ready, failed, handled, taken>>

\* The end of the loop, pin_int_clear and the return. The flag comes back at
\* once if the pin still has the level it is flagged for.
pin_int_clear ==
  /\ \/ Handler("clear")
     \/ Handler("points") /\ i >= point_num
  /\ mode' = "main" /\ ISR' = Level(ready)
  /\ UNCHANGED <<intflag, point_num, xy, tpVars, ready, failed, handled, taken>>

HandlerStep ==
  \/ TakeIrq \/ gt9147_irqhandler \/ pin_int_clear
  \/ \E ok \in Outcomes : ReadStatus(ok) \/ Acknowledge(ok) \/ ReadPoint(ok)

-----------------------------------------------------------------------------
(* The panel. It keeps a report until it is acknowledged, and in an edge   *)
(* mode pulses the pin until then.                                         *)

Panel ==
  UNCHANGED <<mainVars, mode, initfalg, intflag, point_num, xy, tpVars, gic, IMR, irq_mode,
              intMode, display, idLost, failed, handled, taken>>

NewReport ==
  /\ pc > 1 /\ ~ready /\ report < MaxReports
  /\ ready' = TRUE /\ report' = report + 1 /\ num' \in 0 .. MaxPoints
  /\ ISR' = Flagged(TRUE) /\ Panel

Pulse ==
  /\ ready /\ intMode \in {RisingEdge, FallingEdge}
  /\ ISR' = (ISR \/ irq_mode # None)
  /\ UNCHANGED <<ready, report, num>> /\ Panel

Next == gt9147_init \/ Show \/ HandlerStep \/ NewReport \/ Pulse

Spec == Init /\ [][Next]_vars

\* Handlers run to their end; a panel in an edge mode keeps pulsing; main runs
\* on if it can again and again, the pulses being milliseconds apart.
Fairness == SF_vars(gt9147_init \/ Show) /\ WF_vars(HandlerStep) /\ WF_vars(Pulse)

FairSpec == Spec /\ Fairness

-----------------------------------------------------------------------------
TypeOK ==
  /\ pc \in 1 .. Done /\ bus \in {"idle", "main"}
  /\ mode \in {"main", "gt9147_irqhandler", "gstid", "ack", "points", "clear"}
  /\ {initfalg, intflag, gt_init_fail, gic, IMR, ISR, ready, idLost, failed, handled}
       \subseteq BOOLEAN
  /\ point_num \in 0 .. MaxPoints /\ regvalue \in 0 .. MaxPoints
  /\ i \in 0 .. MaxPoints /\ buf \in Reports \cup {Garbage}
  /\ xy \in [Points -> Reports \cup {Garbage}]
  /\ irq_mode \in RisingEdge .. HighLevel \cup {None} /\ intMode \in IntModes
  /\ report \in Reports /\ num \in 0 .. MaxPoints
  /\ col \in 0 .. MaxPoints
  /\ shown \in [0 .. MaxPoints -> Reports \cup 0 .. MaxPoints \cup {Garbage}]
  /\ taken \in 0 .. MaxPoints \cup {None}

\* The handler never starts a transfer on I2C2 while gt9147_init is in one of
\* its own, whenever the panel raises its interrupt.
BusExclusive == mode \in {"gstid", "ack", "points"} => bus = "idle"

\* Once the handler has returned, the number of points is that of the last
\* report it acknowledged: no second run of the handler for the same report
\* finds an empty buffer and overwrites it. (As long as no transfer fails.)
LastReportKept == mode = "main" /\ ~failed /\ taken # None => point_num = taken

\* gt9147_init gives up before it opens the interrupt: after a failed init
\* the handler has not run and cannot run.
FailedInitIsClosed == gt_init_fail => ~IMR /\ ~handled /\ mode = "main"

\* With a panel in an edge mode, and as long as no transfer fails, the display
\* ends up showing the last report, its number of points and each of them,
\* although edges are lost while the handler runs.
ShowsLast ==
  /\ ~ready
  /\ report > 0 => shown[0] = num /\ \A p \in 1 .. num : shown[p] = report
Undisturbed == ~failed /\ intMode \in {RisingEdge, FallingEdge}
DisplaySettles == []Undisturbed => <>[]ShowsLast

\* gt9147_init returns ("Init Done!"), with the interrupt open since
\* pin_int_enable.
InitFinishes == <>(pc = Done)

\* What the header says of intflag, that it marks whether an interrupt has
\* happened: it is set once the handler has read a report. The
\* code does not do this: gt9147_init resets it after it has set initfalg, and
\* TLC violates it.
IntFlagMarks == handled => intflag

\* What the comment on gt9147_read_tpcoord says, that it reads the current
\* points: when it has returned without a failed transfer, the points it
\* counted are all of one report, the one whose count it read. The code does
\* not do this: it acknowledges the report first, and TLC violates it.
PointsOfOneReport ==
  mode = "main" /\ ~failed => \A p, q \in 1 .. point_num : xy[p] = xy[q]
=============================================================================
