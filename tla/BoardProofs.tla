---------------------------- MODULE BoardProofs -----------------------------
(***************************************************************************)
(* What main of the stages 11, 16, 17 and 18 relies on, for every value of *)
(* the constants. Each component has an inductive invariant of its own:    *)
(* they share no variable, and a step of the board is a step of one of     *)
(* them. The invariants of the sensors are in SensorProofs.                *)
(***************************************************************************)
EXTENDS Board, SensorProofs, TLAPS

-----------------------------------------------------------------------------
(* The components.                                                         *)

\* The rest of the board leaves the key, its pin and its timer alone.
LEMMA KeySteps == [Next]_vars => KeyMain \/ KeyEvent \/ UNCHANGED keyVars
BY DEF Next, Program, ClockInit, SetUp, Key, KeyEvents, Clock, LightSensor, MotionSensor, Switched,
       TimePasses, Measures, vars

\* The rest of the board leaves the clock alone.
LEMMA RtcSteps == [Next]_vars => Ticks \/ RtcMain \/ UNCHANGED rtcVars
BY DEF Next, Program, ClockInit, SetUp, Key, KeyEvents, Clock, LightSensor, MotionSensor, Switched,
       TimePasses, Measures, vars

\* Only clock_init and the hardware change the clocks.
LEMMA ClkSteps == [Next]_vars => Store \/ Handshake \/ UNCHANGED clkVars
BY DEF Next, Program, ClockInit, SetUp, Key, KeyEvents, Clock, LightSensor, MotionSensor, Switched,
       TimePasses, Measures, vars

\* The rest of the board leaves the light sensor alone.
LEMMA ApSteps ==
  [Next]_vars => ApCall \/ ApReturn \/ ApWait \/ ApShow \/ ApAgain \/ Measure \/ UNCHANGED apVars
BY DEF Next, Program, ClockInit, SetUp, Key, KeyEvents, Clock, LightSensor, MotionSensor, Switched,
       TimePasses, Measures, vars

\* The rest of the board leaves the motion sensor alone.
LEMMA IcmSteps ==
  [Next]_vars =>
    \/ Select \/ spi_ch0_rw_byte \/ Deselect \/ CheckId \/ InitEnds \/ DataEnds \/ IcmAgain
    \/ UNCHANGED icmVars
BY DEF Next, Program, ClockInit, SetUp, Key, KeyEvents, Clock, LightSensor, MotionSensor, Switched,
       TimePasses, Measures, vars

-----------------------------------------------------------------------------
(* clock_init: the rates it leaves, whatever the ROM had set.              *)

Fields ==
  {"pll1_sw", "step_sel", "arm_div", "arm_podf", "pfd2", "pre_periph", "periph", "ahb_podf",
   "ipg_podf", "perclk_sel", "perclk_podf", "busy"}

\* What the stores so far have left. The core is on step_clk when its PLL is
\* set, and a handshake holds up the store behind the one that started it.
ClkInv ==
  /\ store \in 1 .. 14 /\ DOMAIN ccm = Fields /\ ccm = [f \in Fields |-> ccm[f]]
  /\ ccm.ahb_podf = 2
  /\ ccm.busy => store = 10
  /\ store \in {3, 4} => ccm.pll1_sw = 1
  /\ store > 3 => ccm.arm_div = 66
  /\ store > 4 => ccm.pll1_sw = 0
  /\ store > 5 => ccm.arm_podf = 0
  /\ store > 6 => ccm.pfd2 = 24
  /\ store > 8 => ccm.pre_periph = 1
  /\ store > 9 => ccm.periph = 0
  /\ store > 11 => ccm.ipg_podf = 1
  /\ store > 12 => ccm.perclk_sel = 0
  /\ store > 13 => ccm.perclk_podf = 0

\* A store sets its field and leaves the others alone.
LEMMA StoreSets ==
  ASSUME ClkInv, Store
  PROVE  /\ store \in 1 .. 13 /\ store' = store + 1 /\ DOMAIN ccm' = Fields /\ ccm' = [f \in Fields |-> ccm'[f]]
         /\ \A f \in Fields \ {"busy"} : ccm'[f] = IF f = Stores[store][1] THEN Stores[store][2] ELSE ccm[f]
         /\ ccm'.busy = (ccm.busy \/ (store = 9 /\ ccm.periph # 0))
<1>1. store \in 1 .. 13 /\ store' = store + 1
  <2>1. store <= Len(Stores) /\ store' = store + 1
    BY Zenon DEF Store
  <2>2. Len(Stores) = 13
    BY DEF Stores
  <2>3. QED
    BY <2>1, <2>2 DEF ClkInv
<1>2. Stores[store][1] \in Fields \ {"busy"}
  BY <1>1 DEF Stores, Fields
<1>3. QED
  BY <1>1, <1>2, Zenon DEF ClkInv, Store, Fields

LEMMA ClkStoreInv == ASSUME ClkInv, Store PROVE ClkInv'
<1>1. /\ store \in 1 .. 13 /\ store' = store + 1 /\ DOMAIN ccm' = Fields /\ ccm' = [f \in Fields |-> ccm'[f]]
      /\ ccm'.busy = (ccm.busy \/ (store = 9 /\ ccm.periph # 0))
  BY StoreSets
<1>2. \A f \in Fields \ {"busy"} : ccm'[f] = IF f = Stores[store][1] THEN Stores[store][2] ELSE ccm[f]
  BY StoreSets
<1>3. ccm'.busy => store' = 10
  <2>1. ccm.busy => store = 10
    BY DEF ClkInv
  <2>2. ~ccm.busy \/ store # 10
    BY Zenon DEF Store, MayStore
  <2>3. ccm'.busy => store = 9
    BY <1>1, <2>1, <2>2, Zenon
  <2>4. QED
    BY <1>1, <2>3
<1>4. /\ store' \in {3, 4} => ccm'.pll1_sw = 1
      /\ store' > 3 => ccm'.arm_div = 66
      /\ store' > 4 => ccm'.pll1_sw = 0
      /\ store' > 5 => ccm'.arm_podf = 0
      /\ ccm'.ahb_podf = 2
  BY <1>1, <1>2 DEF ClkInv, Stores, Fields
<1>5. /\ store' > 6 => ccm'.pfd2 = 24
      /\ store' > 8 => ccm'.pre_periph = 1
      /\ store' > 9 => ccm'.periph = 0
  BY <1>1, <1>2 DEF ClkInv, Stores, Fields
<1>6. /\ store' > 11 => ccm'.ipg_podf = 1
      /\ store' > 12 => ccm'.perclk_sel = 0
      /\ store' > 13 => ccm'.perclk_podf = 0
  <2>1. /\ Stores[11][1] = "ipg_podf" /\ Stores[11][2] = 1
        /\ Stores[12][1] = "perclk_sel" /\ Stores[12][2] = 0
        /\ Stores[13][1] = "perclk_podf" /\ Stores[13][2] = 0
    BY DEF Stores
  <2>2. /\ ccm'.ipg_podf = IF "ipg_podf" = Stores[store][1] THEN Stores[store][2] ELSE ccm.ipg_podf
        /\ ccm'.perclk_sel = IF "perclk_sel" = Stores[store][1] THEN Stores[store][2] ELSE ccm.perclk_sel
        /\ ccm'.perclk_podf = IF "perclk_podf" = Stores[store][1] THEN Stores[store][2] ELSE ccm.perclk_podf
    BY <1>2 DEF Fields
  <2>3. store > 11 => ccm.ipg_podf = 1
    BY DEF ClkInv
  <2>4. store > 12 => ccm.perclk_sel = 0
    BY DEF ClkInv
  <2>5. store' > 11 => store = 11 \/ store = 12 \/ store = 13
    BY <1>1
  <2>6. CASE store = 11
    BY <1>1, <2>1, <2>2, <2>6
  <2>7. CASE store = 12
    BY <1>1, <2>1, <2>2, <2>3, <2>7
  <2>8. CASE store = 13
    BY <1>1, <2>1, <2>2, <2>3, <2>4, <2>8
  <2>9. CASE store < 11
    BY <1>1, <2>9
  <2>10. QED
    BY <1>1, <2>5, <2>6, <2>7, <2>8, <2>9
<1>7. QED
  BY <1>1, <1>3, <1>4, <1>5, <1>6 DEF ClkInv

LEMMA ClkHandshakeInv == ASSUME ClkInv, Handshake PROVE ClkInv'
BY Zenon DEF ClkInv, Handshake, Fields

\* The inductive invariant of clock_init.
THEOREM ClkInductive == Spec => []ClkInv
<1>1. Init => ClkInv
  <2> SUFFICES ASSUME Init PROVE ClkInv
    OBVIOUS
  <2>1. ccm \in RomSettings /\ store = FirstStore
    BY DEF Init, ClkInit
  <2>2. ccm.pll1_sw \in {0, 1} /\ ccm.ahb_podf = 2 /\ ~ccm.busy
    BY <2>1, Zenon DEF RomSettings
  <2>3. DOMAIN ccm = Fields /\ ccm = [f \in Fields |-> ccm[f]]
    BY <2>1 DEF RomSettings, Fields
  <2>4. store = 1 \/ (store = 3 /\ ccm.pll1_sw = 1)
    BY <2>1, <2>2 DEF FirstStore
  <2>5. QED
    BY <2>2, <2>3, <2>4 DEF ClkInv
<1>2. ClkInv /\ UNCHANGED clkVars => ClkInv'
  BY DEF ClkInv, clkVars
<1>3. ClkInv /\ [Next]_vars => ClkInv'
  BY ClkSteps, ClkStoreInv, ClkHandshakeInv, <1>2
<1>4. QED
  BY <1>1, <1>3, PTL DEF Spec

\* clock_init leaves the core at 792 MHz, the buses at 132 and 66 and the
\* timers and UARTs at 66, whatever the ROM had set.
THEOREM RatesAreRight == Spec => []RatesRight
<1>1. ClkInv => RatesRight
  <2> SUFFICES ASSUME ClkInv, ClockDone PROVE Core = 792 /\ Ahb = 132 /\ Ipg = 66 /\ Perclk = 66
    BY DEF RatesRight
  <2>1. Len(Stores) = 13
    BY DEF Stores
  <2>2. store = 14
    BY <2>1 DEF ClkInv, ClockDone
  <2>3. /\ ccm.pll1_sw = 0 /\ ccm.arm_div = 66 /\ ccm.arm_podf = 0 /\ ccm.pfd2 = 24 /\ ccm.pre_periph = 1
        /\ ccm.periph = 0 /\ ccm.ahb_podf = 2 /\ ccm.ipg_podf = 1 /\ ccm.perclk_sel = 0 /\ ccm.perclk_podf = 0
    BY <2>2 DEF ClkInv
  <2>4. Core = 792 /\ Periph = 396
    BY <2>3 DEF Core, Periph
  <2>5. Ahb = 132
    BY <2>3, <2>4 DEF Ahb
  <2>6. Ipg = 66
    BY <2>3, <2>5 DEF Ipg
  <2>7. QED
    BY <2>3, <2>4, <2>5, <2>6 DEF Perclk
<1>2. QED
  BY ClkInductive, <1>1, PTL

\* clock_init does not set the PLL of the core while the core runs from it, and
\* changes nothing below the clock of the buses while that is being switched.
THEOREM SwitchesAreSafe == Spec => ClockSwitches
<1>1. ASSUME ClkInv, Store PROVE SwitchesSafely
  <2>1. /\ store \in 1 .. 13
        /\ \A f \in Fields \ {"busy"} : ccm'[f] = IF f = Stores[store][1] THEN Stores[store][2] ELSE ccm[f]
    BY <1>1, StoreSets
  <2>2. ccm'.arm_div # ccm.arm_div => store = 3
    BY <2>1 DEF Stores, Fields
  <2>3. store = 3 => ccm.pll1_sw = 1
    BY <1>1 DEF ClkInv
  <2>4. ~ccm.busy
    BY <1>1, Zenon DEF ClkInv, Store, MayStore
  <2>5. QED
    BY <2>2, <2>3, <2>4 DEF SwitchesSafely
<1>2. ASSUME ClkInv, Handshake PROVE SwitchesSafely
  BY <1>2 DEF ClkInv, Handshake, Fields, SwitchesSafely
<1>3. ClkInv /\ [Next]_vars => [SwitchesSafely]_clkVars
  BY <1>1, <1>2, ClkSteps
<1>4. QED
  BY ClkInductive, <1>3, PTL DEF Spec, ClockSwitches

-----------------------------------------------------------------------------
(* The sensors.                                                            *)

\* The inductive invariant of the light sensor: a transfer under way is the one
\* that ap3216c_init or ap3216c_read_data asked for, the sensor is not being
\* reset when it is switched on, and the bytes read are its registers.
THEOREM ApInductive == Spec => []ApInv
<1>1. Init => ApInv
  BY ApInitInv DEF Init
<1>2. ApInv /\ [Next]_vars => ApInv'
  BY ApSteps, ApNextInv
<1>3. QED
  BY <1>1, <1>2, PTL DEF Spec

\* The motion sensor: while nothing of icm20608_init and icm20608_get_data is
\* lost, the chip and the driver agree on where in which access they are, the
\* registers written so far hold what was written, and the bytes read so far
\* are the registers they stand for.
THEOREM IcmInductive == Spec => []IcmInv
<1>1. Init => IcmInv
  BY IcmInitInv DEF Init
<1>2. IcmInv /\ [Next]_vars => IcmInv'
  BY IcmSteps, IcmNextInv
<1>3. QED
  BY <1>1, <1>2, PTL DEF Spec

\* When main of stage 17 goes on the light sensor is on, and when
\* icm20608_init has lost no access the motion sensor is set up, whatever the
\* calls before did.
THEOREM SensorsAreReady == Spec => []SensorsReady
<1>1. ApInv /\ IcmInv => SensorsReady
  BY ApSetUp, IcmSetUp DEF SensorsReady
<1>2. QED
  BY ApInductive, IcmInductive, <1>1, PTL

\* What the mains of the stages 17 and 18 show is what the sensors hold, each
\* value in its field and on the sensor's own scale.
THEOREM ReadingsAreShown == Spec => []ReadingsShown
<1>1. ApInv /\ IcmInv => ReadingsShown
  BY ApShown, IcmShown DEF ReadingsShown
<1>2. QED
  BY ApInductive, IcmInductive, <1>1, PTL

-----------------------------------------------------------------------------
(* The debounced key: a press counts at most once, and once if it is held. *)

(* The inductive invariant says, for each phase of the key, how far the    *)
(* timer can be. While the timer runs, Debounce - cnt ticks have passed    *)
(* since it was started.                                                   *)

\* An edge has been flagged and not handled.
flagged == ISR \/ mode = "gpio1_16_31"

KeyTypes ==
  /\ step \in {"pin_int_enable", "clear", "config", "epit", "done"}
  /\ mode \in {"main", "gpio1_16_31"}
  /\ IMR \in BOOLEAN /\ ISR \in BOOLEAN /\ EN \in BOOLEAN /\ OCIEN \in BOOLEAN /\ SR \in BOOLEAN
  /\ epitOn \in BOOLEAN /\ pin \in BOOLEAN /\ fresh \in BOOLEAN
  /\ cnt \in 0 .. Debounce /\ since \in 0 .. Long /\ toggles \in 0 .. 1
  /\ key \in {"up", "press", "down", "release"}

\* No time passes during the initialisation, and after it all is enabled.
SetupInv ==
  /\ step # "done" => since = 0 /\ ~SR /\ toggles = 0 /\ (EN => cnt = Debounce)
  /\ step # "pin_int_enable" => IMR
  /\ step \in {"epit", "done"} => OCIEN
  /\ step = "done" => epitOn

\* Whatever the release started is over within the timer's time.
UpInv ==
  key = "up" =>
    /\ pin
    /\ flagged => since = 0
    /\ SR => since <= Debounce
    /\ EN /\ ~SR => cnt + since <= Debounce

\* The timer was started by this press, and does not expire while it bounces.
PressInv ==
  key = "press" =>
    /\ since <= MaxBounce /\ toggles = 0 /\ ~SR
    /\ EN => cnt + since >= Debounce
    /\ fresh => step = "done" /\ (EN \/ flagged)

\* One timer is left, or it has expired and toggled.
DownInv ==
  key = "down" =>
    /\ ~pin
    /\ toggles = 1 => ~EN /\ ~SR /\ ~flagged
    /\ flagged => since = 0 /\ ~SR
    /\ EN /\ ~SR => cnt + since >= Debounce - MaxBounce
    /\ fresh /\ toggles = 0 =>
         /\ step = "done" /\ (EN \/ SR \/ flagged) /\ since <= Debounce
         /\ EN /\ ~SR => cnt + since <= Debounce

\* A timer that runs after the toggle was started by the release, and expires
\* when the pin is quiet.
ReleaseInv ==
  key = "release" =>
    /\ since <= MaxBounce
    /\ toggles = 1 => ~SR /\ (EN => cnt + since >= Debounce)

KeyInv == KeyTypes /\ SetupInv /\ UpInv /\ PressInv /\ DownInv /\ ReleaseInv

-----------------------------------------------------------------------------
USE KeyFilterAssumption DEF Long, flagged, setup, timer, keyVars

\* The initial states satisfy the invariant.
LEMMA KeyInitInv == KeyInit => KeyInv
<1> SUFFICES ASSUME KeyInit PROVE KeyInv
  OBVIOUS
<1>1. KeyTypes
  <2>1. IMR \in BOOLEAN /\ ISR \in BOOLEAN /\ EN \in BOOLEAN /\ OCIEN \in BOOLEAN /\ SR \in BOOLEAN
    BY Zenon DEF KeyInit
  <2>2. epitOn \in BOOLEAN /\ pin \in BOOLEAN /\ fresh \in BOOLEAN
    BY Zenon DEF KeyInit
  <2>3. cnt \in 0 .. Debounce /\ since \in 0 .. Long /\ toggles \in 0 .. 1
    BY DEF KeyInit
  <2>4. QED
    BY <2>1, <2>2, <2>3 DEF KeyInit, KeyTypes
<1>2. SetupInv /\ UpInv /\ PressInv /\ DownInv /\ ReleaseInv
  BY DEF KeyInit, SetupInv, UpInv, PressInv, DownInv, ReleaseInv
<1>3. QED
  BY <1>1, <1>2 DEF KeyInv

\* So does every step of key_filter_init, of the handlers, of the timer and of
\* the key.
LEMMA KeyStepInv == KeyInv /\ (KeyMain \/ KeyEvent) => KeyInv'
<1> SUFFICES ASSUME KeyInv, KeyMain \/ KeyEvent PROVE KeyInv'
  OBVIOUS
<1> USE DEF KeyInv
<1>1. CASE pin_int_enable
  <2>1. KeyTypes'
    BY <1>1 DEF KeyTypes, SetupInv, pin_int_enable, InitAt
  <2>2. SetupInv'
    BY <1>1 DEF KeyTypes, SetupInv, UpInv, PressInv, pin_int_enable, InitAt
  <2>3. UpInv'
    BY <1>1 DEF KeyTypes, SetupInv, UpInv, ReleaseInv, pin_int_enable, InitAt
  <2>4. PressInv'
    BY <1>1 DEF KeyTypes, SetupInv, UpInv, PressInv, pin_int_enable, InitAt
  <2>5. DownInv'
    BY <1>1 DEF KeyTypes, SetupInv, PressInv, DownInv, pin_int_enable, InitAt
  <2>6. ReleaseInv'
    BY <1>1 DEF KeyTypes, SetupInv, DownInv, ReleaseInv, pin_int_enable, InitAt
  <2>7. QED
    BY <2>1, <2>2, <2>3, <2>4, <2>5, <2>6
<1>2. CASE key_filter_timer_init
  <2>1. KeyTypes'
    BY <1>2, Zenon DEF KeyTypes, SetupInv, key_filter_timer_init, InitAt
  <2>2. SetupInv'
    BY <1>2 DEF KeyTypes, SetupInv, UpInv, PressInv, key_filter_timer_init, InitAt
  <2>3. UpInv'
    BY <1>2 DEF KeyTypes, SetupInv, UpInv, ReleaseInv, key_filter_timer_init, InitAt
  <2>4. PressInv'
    BY <1>2, Zenon DEF KeyTypes, SetupInv, UpInv, PressInv, key_filter_timer_init, InitAt
  <2>5. DownInv'
    BY <1>2, Zenon DEF KeyTypes, SetupInv, PressInv, DownInv, key_filter_timer_init, InitAt
  <2>6. ReleaseInv'
    BY <1>2, Zenon DEF KeyTypes, SetupInv, DownInv, ReleaseInv, key_filter_timer_init, InitAt
  <2>7. QED
    BY <2>1, <2>2, <2>3, <2>4, <2>5, <2>6
<1>3. CASE TakeGpio
  <2>1. KeyTypes'
    BY <1>3 DEF KeyTypes, SetupInv, TakeGpio, gpioPending
  <2>2. SetupInv'
    BY <1>3 DEF KeyTypes, SetupInv, UpInv, PressInv, TakeGpio, gpioPending
  <2>3. UpInv'
    BY <1>3 DEF KeyTypes, SetupInv, UpInv, ReleaseInv, TakeGpio, gpioPending
  <2>4. PressInv'
    BY <1>3 DEF KeyTypes, SetupInv, UpInv, PressInv, TakeGpio, gpioPending
  <2>5. DownInv'
    BY <1>3 DEF KeyTypes, SetupInv, PressInv, DownInv, TakeGpio, gpioPending
  <2>6. ReleaseInv'
    BY <1>3 DEF KeyTypes, SetupInv, DownInv, ReleaseInv, TakeGpio, gpioPending
  <2>7. QED
    BY <2>1, <2>2, <2>3, <2>4, <2>5, <2>6
<1>4. CASE gpio1_16_31_irq_handler
  <2>1. KeyTypes'
    <3>1. ISR' \in BOOLEAN /\ EN' \in BOOLEAN
      BY <1>4, Zenon DEF gpio1_16_31_irq_handler, key_filter_timer_start
    <3>2. cnt' \in 0 .. Debounce
      BY <1>4 DEF gpio1_16_31_irq_handler, key_filter_timer_start
    <3>3. QED
      BY <1>4, <3>1, <3>2 DEF KeyTypes, gpio1_16_31_irq_handler, key_filter_timer_start
  <2>2. SetupInv'
    BY <1>4 DEF KeyTypes, SetupInv, UpInv, PressInv, gpio1_16_31_irq_handler, key_filter_timer_start
  <2>3. UpInv'
    BY <1>4 DEF KeyTypes, SetupInv, UpInv, ReleaseInv, gpio1_16_31_irq_handler, key_filter_timer_start
  <2>4. PressInv'
    BY <1>4 DEF KeyTypes, SetupInv, UpInv, PressInv, gpio1_16_31_irq_handler, key_filter_timer_start
  <2>5. DownInv'
    BY <1>4 DEF KeyTypes, SetupInv, PressInv, DownInv, gpio1_16_31_irq_handler, key_filter_timer_start
  <2>6. ReleaseInv'
    BY <1>4 DEF KeyTypes, SetupInv, DownInv, ReleaseInv, gpio1_16_31_irq_handler, key_filter_timer_start
  <2>7. QED
    BY <2>1, <2>2, <2>3, <2>4, <2>5, <2>6
<1>5. CASE key_filter_timer_irq_handler
  <2>1. KeyTypes'
    <3>1. EN' \in BOOLEAN /\ SR' \in BOOLEAN
      BY <1>5, Zenon DEF key_filter_timer_irq_handler, key_filter_timer_stop
    <3>2. SR /\ (~pin => toggles = 0)
      BY <1>5 DEF KeyTypes, UpInv, PressInv, DownInv, ReleaseInv, key_filter_timer_irq_handler, epitPending
    <3>3. toggles' \in 0 .. 1
      BY <1>5, <3>2 DEF KeyTypes, key_filter_timer_irq_handler, Toggle
    <3>4. QED
      BY <1>5, <3>1, <3>3 DEF KeyTypes, key_filter_timer_irq_handler
  <2>2. SetupInv'
    BY <1>5 DEF KeyTypes, SetupInv, UpInv, PressInv, key_filter_timer_irq_handler, key_filter_timer_stop, Toggle, epitPending
  <2>3. UpInv'
    BY <1>5 DEF KeyTypes, SetupInv, UpInv, ReleaseInv, key_filter_timer_irq_handler, key_filter_timer_stop, Toggle, epitPending
  <2>4. PressInv'
    BY <1>5 DEF KeyTypes, SetupInv, UpInv, PressInv, key_filter_timer_irq_handler, key_filter_timer_stop, Toggle, epitPending
  <2>5. DownInv'
    BY <1>5 DEF KeyTypes, SetupInv, PressInv, DownInv, key_filter_timer_irq_handler, key_filter_timer_stop, Toggle, epitPending
  <2>6. ReleaseInv'
    BY <1>5 DEF KeyTypes, SetupInv, DownInv, ReleaseInv, key_filter_timer_irq_handler, key_filter_timer_stop, Toggle, epitPending
  <2>7. QED
    BY <2>1, <2>2, <2>3, <2>4, <2>5, <2>6
<1>6. CASE Expire
  <2>1. KeyTypes'
    BY <1>6 DEF KeyTypes, SetupInv, Expire
  <2>2. SetupInv'
    BY <1>6 DEF KeyTypes, SetupInv, UpInv, PressInv, Expire
  <2>3. UpInv'
    BY <1>6 DEF KeyTypes, SetupInv, UpInv, ReleaseInv, Expire
  <2>4. PressInv'
    BY <1>6 DEF KeyTypes, SetupInv, UpInv, PressInv, Expire
  <2>5. DownInv'
    BY <1>6 DEF KeyTypes, SetupInv, PressInv, DownInv, Expire
  <2>6. ReleaseInv'
    BY <1>6 DEF KeyTypes, SetupInv, DownInv, ReleaseInv, Expire
  <2>7. QED
    BY <2>1, <2>2, <2>3, <2>4, <2>5, <2>6
<1>7. CASE Tick
  <2>1. KeyTypes'
    BY <1>7 DEF KeyTypes, SetupInv, Tick, Later, gpioPending, epitPending
  <2>2. SetupInv'
    BY <1>7 DEF KeyTypes, SetupInv, UpInv, PressInv, Tick, Later, gpioPending, epitPending
  <2>3. UpInv'
    BY <1>7 DEF KeyTypes, SetupInv, UpInv, ReleaseInv, Tick, Later, gpioPending, epitPending
  <2>4. PressInv'
    BY <1>7 DEF KeyTypes, SetupInv, UpInv, PressInv, Tick, Later, gpioPending, epitPending
  <2>5. DownInv'
    BY <1>7 DEF KeyTypes, SetupInv, PressInv, DownInv, Tick, Later, gpioPending, epitPending
  <2>6. ReleaseInv'
    BY <1>7 DEF KeyTypes, SetupInv, DownInv, ReleaseInv, Tick, Later, gpioPending, epitPending
  <2>7. QED
    BY <2>1, <2>2, <2>3, <2>4, <2>5, <2>6
<1>8. CASE Press
  <2>1. KeyTypes'
    <3>1. fresh' \in BOOLEAN /\ pin' \in BOOLEAN
      BY <1>8, Zenon DEF Press, SetPin
    <3>2. ISR' \in BOOLEAN
      BY <1>8, Zenon DEF KeyTypes, Press, SetPin
    <3>3. QED
      BY <1>8, <3>1, <3>2 DEF KeyTypes, Press, SetPin
  <2>2. SetupInv'
    BY <1>8 DEF KeyTypes, SetupInv, UpInv, PressInv, Press, SetPin
  <2>3. UpInv'
    BY <1>8 DEF KeyTypes, SetupInv, UpInv, ReleaseInv, Press, SetPin
  <2>4. PressInv'
    BY <1>8 DEF KeyTypes, SetupInv, UpInv, PressInv, Press, SetPin
  <2>5. DownInv'
    BY <1>8 DEF KeyTypes, SetupInv, PressInv, DownInv, Press, SetPin
  <2>6. ReleaseInv'
    BY <1>8 DEF KeyTypes, SetupInv, DownInv, ReleaseInv, Press, SetPin
  <2>7. QED
    BY <2>1, <2>2, <2>3, <2>4, <2>5, <2>6
<1>9. CASE Release
  <2>1. KeyTypes'
    BY <1>9 DEF KeyTypes, SetupInv, Release, SetPin
  <2>2. SetupInv'
    BY <1>9 DEF KeyTypes, SetupInv, UpInv, PressInv, Release, SetPin
  <2>3. UpInv'
    BY <1>9 DEF KeyTypes, SetupInv, UpInv, ReleaseInv, Release, SetPin
  <2>4. PressInv'
    BY <1>9 DEF KeyTypes, SetupInv, UpInv, PressInv, Release, SetPin
  <2>5. DownInv'
    BY <1>9 DEF KeyTypes, SetupInv, PressInv, DownInv, Release, SetPin
  <2>6. ReleaseInv'
    BY <1>9 DEF KeyTypes, SetupInv, DownInv, ReleaseInv, Release, SetPin
  <2>7. QED
    BY <2>1, <2>2, <2>3, <2>4, <2>5, <2>6
<1>10. CASE Bounce
  <2>1. KeyTypes'
    BY <1>10, Zenon DEF KeyTypes, SetupInv, Bounce, SetPin
  <2>2. SetupInv'
    BY <1>10 DEF KeyTypes, SetupInv, UpInv, PressInv, Bounce, SetPin
  <2>3. UpInv'
    BY <1>10 DEF KeyTypes, SetupInv, UpInv, ReleaseInv, Bounce, SetPin
  <2>4. PressInv'
    BY <1>10, Zenon DEF KeyTypes, SetupInv, UpInv, PressInv, Bounce, SetPin
  <2>5. DownInv'
    BY <1>10, Zenon DEF KeyTypes, SetupInv, PressInv, DownInv, Bounce, SetPin
  <2>6. ReleaseInv'
    BY <1>10 DEF KeyTypes, SetupInv, DownInv, ReleaseInv, Bounce, SetPin
  <2>7. QED
    BY <2>1, <2>2, <2>3, <2>4, <2>5, <2>6
<1>11. CASE Settle
  <2>1. KeyTypes'
    <3>1. pin' \in BOOLEAN
      BY <1>11, Zenon DEF Settle, SetPin
    <3>2. ISR' \in BOOLEAN
      BY <1>11, Zenon DEF KeyTypes, Settle, SetPin
    <3>3. QED
      BY <1>11, <3>1, <3>2 DEF KeyTypes, Settle, SetPin
  <2>2. SetupInv'
    BY <1>11 DEF KeyTypes, SetupInv, UpInv, PressInv, Settle, SetPin
  <2>3. UpInv'
    BY <1>11 DEF KeyTypes, SetupInv, UpInv, ReleaseInv, Settle, SetPin
  <2>4. PressInv'
    BY <1>11 DEF KeyTypes, SetupInv, UpInv, PressInv, Settle, SetPin
  <2>5. DownInv'
    BY <1>11 DEF KeyTypes, SetupInv, PressInv, DownInv, Settle, SetPin
  <2>6. ReleaseInv'
    BY <1>11, Zenon DEF KeyTypes, SetupInv, DownInv, ReleaseInv, Settle, SetPin
  <2>7. QED
    BY <2>1, <2>2, <2>3, <2>4, <2>5, <2>6
<1>12. QED
  BY <1>1, <1>2, <1>3, <1>4, <1>5, <1>6, <1>7, <1>8, <1>9, <1>10, <1>11, Zenon DEF KeyMain, KeyEvent

\* The invariant holds in every state of the board.
THEOREM KeyInductive == Spec => []KeyInv
<1>1. Init => KeyInv
  BY KeyInitInv DEF Init
<1>2. KeyInv /\ UNCHANGED keyVars => KeyInv'
  BY DEF KeyInv, KeyTypes, SetupInv, UpInv, PressInv, DownInv, ReleaseInv
<1>3. KeyInv /\ [Next]_vars => KeyInv'
  BY KeySteps, KeyStepInv, <1>2
<1>4. QED
  BY <1>1, <1>3, PTL DEF Spec

\* The handlers of key_filter.c toggle the beeper at most once per press,
\* however the contact bounces.
THEOREM PressCountsOnce == Spec => []OncePerPress
<1>1. KeyInv => OncePerPress
  BY DEF KeyInv, KeyTypes, OncePerPress
<1>2. QED
  BY KeyInductive, <1>1, PTL

\* A press that is held for the timer's time has been registered.
THEOREM HeldPressCounts == Spec => []HeldIsRegistered
<1>1. KeyInv => HeldIsRegistered
  BY DEF KeyInv, KeyTypes, DownInv, HeldIsRegistered
<1>2. QED
  BY KeyInductive, <1>1, PTL

HIDE KeyFilterAssumption DEF Long, flagged, setup, timer, keyVars

-----------------------------------------------------------------------------
(* The real-time clock: what is set is what the clock starts from, and it  *)
(* runs whenever main is at work.                                          *)

(* The inductive invariant. running follows SRTC_ENV with a delay, so that *)
(* the clock stands still from the end of the wait in rtc_disable to the   *)
(* store in rtc_enable; between the two, the registers are filled.         *)

Labels ==
  {"rtc_init", "enabling", "main", "disable", "disabling", "LPSRTCMR", "LPSRTCLR", "enable", "reading"}

\* The part of the type invariant that is needed.
RtcTypes ==
  /\ pc \in Labels
  /\ SRTC_ENV \in BOOLEAN /\ running \in BOOLEAN /\ tmp \in BOOLEAN
  /\ seconds \in Times \cup {None}
  /\ pc \in {"disable", "disabling", "LPSRTCMR", "LPSRTCLR", "enable"} => seconds \in Times

\* The clock is on whenever main works, and it was on when tmp was stored.
OnInv ==
  /\ pc \in {"main", "reading", "disable"} => SRTC_ENV /\ running
  /\ pc = "enabling" => SRTC_ENV
  /\ pc \in {"disable", "disabling", "LPSRTCMR", "LPSRTCLR", "enable"} => tmp

\* The clock stands still while it is being set.
OffInv ==
  /\ pc \in {"disabling", "LPSRTCMR", "LPSRTCLR", "enable"} => ~SRTC_ENV
  /\ pc \in {"LPSRTCMR", "LPSRTCLR", "enable"} => ~running

\* How far the two stores have got.
SetInv ==
  /\ pc \in {"LPSRTCLR", "enable"} => LPSRTCMR = seconds \div LowSize
  /\ pc = "enable" => LPSRTCLR = seconds % LowSize

RtcInv == RtcTypes /\ OnInv /\ OffInv /\ SetInv

\* The registers and the variables of a read.
ReadTypes ==
  /\ LPSRTCMR \in Nat /\ LPSRTCLR \in 0 .. LowSize - 1
  /\ high \in Nat \cup {None} /\ low \in Nat \cup {None}
  /\ began \in [at : Nat, high : Nat]

\* The low register when the read began.
beganLow == began.at - began.high * LowSize

\* The counter only moves forward during a read, so that a part that has been
\* read lies between its value at the beginning and its value now; the low
\* part only as long as the high one has not moved.
Between ==
  /\ began.high <= LPSRTCMR
  /\ high # None => began.high <= high /\ high <= LPSRTCMR
  /\ LPSRTCMR = began.high =>
       /\ beganLow <= LPSRTCLR
       /\ low # None => beganLow <= low /\ low <= LPSRTCLR

\* A result is that of the last read; before the first one there is none, and
\* the clock is not set once there is.
ReadInv ==
  /\ ReadTypes
  /\ pc = "reading" \/ (pc = "main" /\ got # None) => Between
  /\ pc = "main" /\ got # None => high # None /\ low # None /\ got = Combine(high, low)
  /\ pc \notin {"main", "reading"} => got = None

-----------------------------------------------------------------------------
(* Arithmetic.                                                             *)

\* The quotient and the remainder of a division, and that they are the only
\* numbers that give the dividend back.
LEMMA Rest ==
  ASSUME NEW L \in Nat \ {0}, NEW y \in Nat
  PROVE  y \div L \in Nat /\ y % L \in 0 .. L - 1
OBVIOUS

\* A time is put together from its two parts again.
LEMMA Parts ==
  ASSUME NEW L \in Nat \ {0}, NEW y \in Nat
  PROVE  (y \div L) * L + (y % L) = y
OBVIOUS

\* No other parts give the same time.
LEMMA Unique ==
  ASSUME NEW L \in Nat \ {0}, NEW m \in Nat, NEW q \in Int, NEW r \in 0 .. L - 1, NEW s \in 0 .. L - 1,
         q * L + s = m * L + r
  PROVE  q = m /\ s = r
<1>1. CASE q >= m + 1
  <2>1. q * L >= (m + 1) * L
    BY <1>1
  <2>2. QED
    BY <2>1
<1>2. CASE q <= m - 1
  <2>1. q * L <= (m - 1) * L
    BY <1>2
  <2>2. QED
    BY <2>1
<1>3. CASE q = m
  BY <1>3
<1>4. QED
  BY <1>1, <1>2, <1>3

\* What LPSRTCMR and LPSRTCLR are of a time that is given by its parts.
LEMMA DivOf ==
  ASSUME NEW L \in Nat \ {0}, NEW m \in Nat, NEW r \in 0 .. L - 1
  PROVE  (m * L + r) \div L = m /\ (m * L + r) % L = r
<1>1. m * L + r \in Nat
  OBVIOUS
<1>2. PICK x \in Nat : x = m * L + r
  BY <1>1
<1>3. x \div L \in Nat /\ x % L \in 0 .. L - 1
  BY Rest, Zenon
<1>4. (x \div L) * L + (x % L) = m * L + r
  BY Parts, <1>2
<1>5. x \div L = m /\ x % L = r
  BY <1>3, <1>4, Unique
<1>6. QED
  BY <1>2, <1>5
-----------------------------------------------------------------------------
USE DEF At, rtcVars, hw, setVars, getVars, Labels

\* The initial states satisfy the invariant.
LEMMA RtcInitInv == RtcInit => RtcInv
BY Zenon DEF RtcInit, RtcInv, RtcTypes, OnInv, OffInv, SetInv, None

\* The hardware keeps it: a tick needs a running clock, and nothing depends on
\* the registers while it runs.
LEMMA RtcTicksInv == RtcInv /\ Ticks => RtcInv'
<1>1. ASSUME RtcInv, Sync PROVE RtcInv'
  BY <1>1 DEF RtcInv, RtcTypes, OnInv, OffInv, SetInv, Sync
<1>2. ASSUME RtcInv, Second PROVE RtcInv'
  BY <1>2 DEF RtcInv, RtcTypes, OnInv, OffInv, SetInv, Second
<1>3. QED
  BY <1>1, <1>2 DEF Ticks

\* So does every step of main.
LEMMA RtcMainInv == RtcInv /\ RtcMain => RtcInv'
<1>1. ASSUME RtcInv, rtc_enable PROVE RtcInv'
  BY <1>1, Zenon DEF RtcInv, RtcTypes, OnInv, OffInv, SetInv, rtc_enable, StoreEnable, AwaitEnable
<1>2. ASSUME RtcInv, rtc_disable PROVE RtcInv'
  <2>1. CASE At("disable", "disabling") /\ StoreEnable(FALSE)
    BY <1>2, <2>1, Zenon DEF RtcInv, RtcTypes, OnInv, OffInv, SetInv, StoreEnable
  <2>2. CASE At("disabling", "LPSRTCMR") /\ AwaitEnable(FALSE)
    <3>1. RtcTypes' /\ OnInv'
      BY <1>2, <2>2 DEF RtcInv, RtcTypes, OnInv, AwaitEnable
    <3>2. ~running /\ UNCHANGED running /\ ~SRTC_ENV /\ UNCHANGED SRTC_ENV
      BY <1>2, <2>2, Zenon DEF RtcInv, RtcTypes, OffInv, AwaitEnable
    <3>3. OffInv' /\ SetInv'
      BY <1>2, <2>2, <3>2 DEF OffInv, SetInv
    <3>4. QED
      BY <3>1, <3>3 DEF RtcInv
  <2>3. QED
    BY <1>2, <2>1, <2>2, Zenon DEF rtc_disable
<1>3. ASSUME RtcInv, NEW s \in Times, rtc_set_date_time(s) PROVE RtcInv'
  BY <1>3 DEF RtcInv, RtcTypes, OnInv, OffInv, SetInv, rtc_set_date_time
<1>4. ASSUME RtcInv, StoreSeconds PROVE RtcInv'
  BY <1>4 DEF RtcInv, RtcTypes, OnInv, OffInv, SetInv, StoreSeconds
<1>5. ASSUME RtcInv, rtc_get_seconds \/ ReadPart PROVE RtcInv'
  BY <1>5, Zenon DEF RtcInv, RtcTypes, OnInv, OffInv, SetInv, rtc_get_seconds, ReadPart
<1>6. QED
  BY <1>1, <1>2, <1>3, <1>4, <1>5 DEF RtcMain

\* The invariant holds in every state of the board, whatever its stage.
THEOREM RtcInductive == Spec => []RtcInv
<1>1. Init => RtcInv
  BY RtcInitInv DEF Init
<1>2. RtcInv /\ UNCHANGED rtcVars => RtcInv'
  BY DEF RtcInv, RtcTypes, OnInv, OffInv, SetInv
<1>3. RtcInv /\ [Next]_vars => RtcInv'
  BY RtcSteps, RtcTicksInv, RtcMainInv, <1>2
<1>4. QED
  BY <1>1, <1>3, PTL DEF Spec

-----------------------------------------------------------------------------
\* rtc_set_date_time: the clock is started again from the seconds that were
\* asked for.
THEOREM SetIsTaken == Spec => []SetTakes
<1>1. Times \subseteq Nat
  BY DEF Times
<1>2. RtcInv => SetTakes
  BY <1>1, Parts, RtcAssumption, Zenon DEF RtcInv, RtcTypes, SetInv, SetTakes, count
<1>3. QED
  BY RtcInductive, <1>2, PTL

\* rtc_enable and the value rtc_set_date_time remembers: the clock runs
\* whenever main is at work.
THEOREM ClockKeepsRunning == Spec => []ClockRuns
<1>1. RtcInv => ClockRuns
  BY DEF RtcInv, OnInv, ClockRuns
<1>2. QED
  BY RtcInductive, <1>1, PTL

-----------------------------------------------------------------------------
(* The reads.                                                              *)

\* A second moves the low register on, or the high one.
LEMMA SecondMoves ==
  ASSUME ReadTypes, Second
  PROVE  \/ LPSRTCMR' = LPSRTCMR /\ LPSRTCLR' = LPSRTCLR + 1
         \/ LPSRTCMR' = LPSRTCMR + 1 /\ LPSRTCLR' = 0
<1>1. LowSize \in Nat \ {0} /\ LPSRTCMR \in Nat /\ LPSRTCLR \in 0 .. LowSize - 1
  BY RtcAssumption DEF ReadTypes
<1>2. CASE LPSRTCLR + 1 \in 0 .. LowSize - 1
  <2>1. count + 1 = LPSRTCMR * LowSize + (LPSRTCLR + 1)
    BY <1>1 DEF count
  <2>2. (count + 1) \div LowSize = LPSRTCMR /\ (count + 1) % LowSize = LPSRTCLR + 1
    BY <1>1, <1>2, <2>1, DivOf, Zenon
  <2>3. QED
    BY <2>2 DEF Second
<1>3. CASE LPSRTCLR + 1 = LowSize
  <2>1. PICK m \in Nat, z \in 0 .. LowSize - 1 : m = LPSRTCMR + 1 /\ z = 0
    BY <1>1
  <2>2. count + 1 = m * LowSize + z
    BY <1>1, <1>3, <2>1 DEF count
  <2>3. (count + 1) \div LowSize = m /\ (count + 1) % LowSize = z
    BY <1>1, <2>2, DivOf, Zenon
  <2>4. QED
    BY <2>1, <2>3 DEF Second
<1>4. QED
  BY <1>1, <1>2, <1>3

LEMMA ReadInit == RtcInit => ReadInv
BY RtcAssumption DEF RtcInit, ReadInv, ReadTypes, Between, None

LEMMA ReadTicks == ReadInv /\ Ticks => ReadInv'
<1>1. ASSUME ReadInv, Sync PROVE ReadInv'
  BY <1>1 DEF ReadInv, ReadTypes, Between, beganLow, Sync
<1>2. ASSUME ReadInv, Second PROVE ReadInv'
  <2>1. LowSize \in Nat \ {0} /\ ReadTypes
    BY <1>2, RtcAssumption DEF ReadInv
  <2>2. LPSRTCMR' \in Nat /\ LPSRTCLR' \in 0 .. LowSize - 1
    <3>1. count + 1 \in Nat
      BY <2>1 DEF count, ReadTypes
    <3>2. QED
      BY <1>2, <2>1, <3>1, Rest DEF Second
  <2>3. ReadTypes'
    BY <1>2, <2>1, <2>2 DEF ReadTypes, Second
  <2>4. beganLow' = beganLow /\ beganLow \in Int
    BY <1>2, <2>1 DEF Second, beganLow, ReadTypes
  <2>5. Between => Between'
    BY <1>2, <2>1, <2>4, SecondMoves DEF ReadTypes, Second, Between
  <2>6. QED
    BY <1>2, <2>3, <2>5 DEF ReadInv, Second, Combine
<1>3. QED
  BY <1>1, <1>2 DEF Ticks

LEMMA ReadMain == RtcInv /\ ReadInv /\ RtcMain => ReadInv'
<1>1. ASSUME ReadInv, rtc_enable PROVE ReadInv'
  BY <1>1 DEF ReadInv, ReadTypes, Between, beganLow, Combine, rtc_enable, StoreEnable, AwaitEnable
<1>2. ASSUME ReadInv, rtc_disable PROVE ReadInv'
  BY <1>2 DEF ReadInv, ReadTypes, Between, beganLow, Combine, rtc_disable, StoreEnable, AwaitEnable
<1>3. ASSUME ReadInv, NEW s \in Times, rtc_set_date_time(s) PROVE ReadInv'
  BY <1>3 DEF ReadInv, ReadTypes, rtc_set_date_time
<1>4. ASSUME RtcInv, ReadInv, StoreSeconds PROVE ReadInv'
  <2>1. seconds \in Nat /\ LowSize \in Nat \ {0}
    BY <1>4, RtcAssumption DEF RtcInv, RtcTypes, Times, StoreSeconds
  <2>2. seconds \div LowSize \in Nat /\ seconds % LowSize \in 0 .. LowSize - 1
    BY <2>1, Rest, Zenon
  <2>3. QED
    BY <1>4, <2>2 DEF ReadInv, ReadTypes, StoreSeconds
<1>5. ASSUME ReadInv, rtc_get_seconds PROVE ReadInv'
  <2>1. LowSize \in Nat \ {0} /\ ReadTypes
    BY <1>5, RtcAssumption DEF ReadInv
  <2>2. count \in Nat /\ count - LPSRTCMR * LowSize = LPSRTCLR
    BY <2>1 DEF count, ReadTypes
  <2>3. ReadTypes'
    BY <1>5, <2>1, <2>2 DEF ReadTypes, rtc_get_seconds
  <2>4. Between'
    BY <1>5, <2>1, <2>2 DEF ReadTypes, rtc_get_seconds, Between, beganLow
  <2>5. QED
    BY <1>5, <2>3, <2>4 DEF ReadInv, rtc_get_seconds
<1>6. ASSUME ReadInv, ReadPart PROVE ReadInv'
  <2>1. ReadTypes' /\ Between'
    BY <1>6, RtcAssumption DEF ReadInv, ReadTypes, Between, beganLow, ReadPart
  <2>2. QED
    BY <1>6, <2>1 DEF ReadInv, ReadPart, Combine
<1>7. QED
  BY <1>1, <1>2, <1>3, <1>4, <1>5, <1>6 DEF RtcMain

\* rtc_get_seconds: a read during which the high register stands still gives a
\* time of the clock between its beginning and its end.
THEOREM QuietReadsAreCurrent == Spec => []QuietReadIsCurrent
<1>1. Init => ReadInv
  BY ReadInit DEF Init
<1>2. ReadInv /\ UNCHANGED rtcVars => ReadInv'
  BY DEF ReadInv, ReadTypes, Between, beganLow, Combine
<1>3. RtcInv /\ ReadInv /\ [Next]_vars => ReadInv'
  BY RtcSteps, ReadTicks, ReadMain, <1>2
<1>4. ReadInv => QuietReadIsCurrent
  <2>1. SUFFICES ASSUME ReadInv, pc = "main", got # None, began.high = LPSRTCMR
                 PROVE  began.at <= got /\ got <= count
    BY DEF QuietReadIsCurrent
  <2>2. LowSize \in Nat \ {0} /\ ReadTypes /\ Between /\ high # None /\ low # None
    BY <2>1, RtcAssumption DEF ReadInv
  <2>3. high = LPSRTCMR /\ beganLow <= low /\ low <= LPSRTCLR
    BY <2>1, <2>2 DEF Between, ReadTypes
  <2>4. got = LPSRTCMR * LowSize + low /\ began.at = LPSRTCMR * LowSize + beganLow
    BY <2>1, <2>2, <2>3 DEF ReadInv, ReadTypes, Combine, beganLow
  <2>5. low \in Nat /\ beganLow \in Int /\ LPSRTCLR \in Nat /\ LPSRTCMR * LowSize \in Nat
    BY <2>2 DEF ReadTypes, beganLow
  <2>6. QED
    BY <2>3, <2>4, <2>5 DEF count
<1>5. QED
  BY RtcInductive, <1>1, <1>3, <1>4, PTL DEF Spec

HIDE DEF At, rtcVars, hw, setVars, getVars, Labels
=============================================================================
