----------------------------- MODULE BspProofs ------------------------------
(***************************************************************************)
(* Two helpers that the drivers of the bsp stand on. delay_ms neither      *)
(* returns early nor very late, for every counter width, every argument    *)
(* and every length of a poll gap. The pins of a port do not disturb each  *)
(* other, for every set of pins.                                           *)
(***************************************************************************)
EXTENDS Delay, Gpio, TLAPS

-----------------------------------------------------------------------------
(* delay_ms.                                                               *)

\* Ticks between the call and the last read of the counter.
Seen == elapsed - away

\* However often the counter has wrapped since the last read, at least the
\* distance it shows has passed.
AtLeastShown ==
  pc = "poll" =>
    /\ cnt > cnt_old => cnt - cnt_old <= away
    /\ cnt < cnt_old => Wrap - cnt_old + cnt <= away

\* No more time has been added up than has passed.
EarlyInv ==
  /\ away <= elapsed
  /\ pc = "delay_us" => i * UsPerMs <= Seen
  /\ pc = "poll" => i * UsPerMs + time <= Seen
  /\ pc \in {"delay_us", "poll"} => i < ms
  /\ pc = "returned" => i * UsPerMs <= elapsed /\ i = ms

NeverEarlyInv == TypeOK /\ AtLeastShown /\ EarlyInv

\* When a gap is shorter than a revolution, the counter shows it exactly.
ExactlyShown ==
  pc = "poll" =>
    away = (IF cnt >= cnt_old THEN cnt - cnt_old ELSE Wrap - cnt_old + cnt)

\* The time allowed to one pass of delay_ms's loop.
Pass == UsPerMs + 2 * MaxAway

\* The time that has passed and has not been added up is a poll gap at the
\* start of every pass, the overshoot at its end, and one tick per wrap.
LateInv ==
  /\ pc = "delay_us" => Seen <= i * Pass + wraps
  /\ pc = "poll" => /\ Seen <= i * Pass + MaxAway + time + wraps
                    /\ time <= UsPerMs
  /\ pc = "returned" => elapsed <= i * Pass + wraps

NeverVeryLateInv == NeverEarlyInv /\ ExactlyShown /\ LateInv

-----------------------------------------------------------------------------
\* One more pass adds one more multiple.
LEMMA Distribute == ASSUME NEW a \in Int, NEW b \in Int
                    PROVE  (a + 1) * b = a * b + b /\ a * b \in Int /\ 0 * b = 0
  OBVIOUS

\* A pass that has added up t >= u has taken at least u.
LEMMA PassTakesEnough ==
  ASSUME NEW j \in Nat, NEW u \in Nat, NEW t \in Nat, NEW e \in Nat,
         j * u + t <= e, t >= u
  PROVE  (j + 1) * u <= e
  <1> DEFINE p == j * u
  <1>1. p \in Int /\ (j + 1) * u = p + u /\ p + t <= e
    BY Distribute
  <1> HIDE DEF p
  <1>2. QED
    BY <1>1

\* A pass overshoots by at most a gap, and missed at most one at its start.
LEMMA PassAllowance ==
  ASSUME NEW p \in Int, NEW u \in Nat, NEW m \in Nat, NEW t \in Nat,
         NEW w \in Nat, NEW e \in Nat, e <= p + m + t + w, t <= u + m
  PROVE  e <= p + (u + 2 * m) + w
  OBVIOUS

\* A counter that has just been read is 0 ticks from its last value.
LEMMA JustRead ==
  ASSUME NEW c \in Int, NEW o, o = c
  PROVE  0 = (IF c >= o THEN c - o ELSE Wrap - o + c)
  OBVIOUS

\* What delay_us adds is at least 0 and, for a counter that has moved, less
\* than the distance from the old value to the new one by 0 or 1.
LEMMA AdvanceBounds ==
  ASSUME NEW old \in 0 .. Wrap - 1, NEW new \in 0 .. Wrap - 1, Moved(old, new)
  PROVE  /\ Advance(old, new) \in Nat
         /\ new > old => Advance(old, new) = new - old
         /\ new < old => Advance(old, new) = Wrap - old + new - 1
         /\ new > old \/ new < old
  BY DelayAssumption DEF Advance, Moved

\* The initial states satisfy both invariants.
LEMMA InitEstablishes == Init => NeverVeryLateInv
  BY DelayAssumption
  DEF Init, NeverVeryLateInv, NeverEarlyInv, TypeOK, AtLeastShown, EarlyInv,
      ExactlyShown, LateInv

\* The types are preserved by every step.
LEMMA TypePreserved == TypeOK /\ [Next]_vars => TypeOK'
  <1> SUFFICES ASSUME TypeOK, [Next]_vars PROVE TypeOK'
    OBVIOUS
  <1>1. CASE Tick
    BY <1>1, DelayAssumption DEF TypeOK, Tick
  <1>2. ASSUME NEW n \in Calls, delay_ms(n) PROVE TypeOK'
    BY <1>2, DelayAssumption DEF TypeOK, delay_ms, LoopTest
  <1>3. CASE delay_us
    BY <1>3, DelayAssumption DEF TypeOK, delay_us
  <1>4. CASE Poll
    BY <1>4, DelayAssumption, AdvanceBounds DEF TypeOK, Poll, LoopTest
  <1>5. CASE UNCHANGED vars
    BY <1>5 DEF TypeOK, vars
  <1>6. QED
    BY <1>1, <1>2, <1>3, <1>4, <1>5 DEF Next

\* No step makes delay_us add up more time than has passed.
LEMMA EarlyPreserved == NeverEarlyInv /\ [Next]_vars => NeverEarlyInv'
  <1> SUFFICES ASSUME NeverEarlyInv, [Next]_vars PROVE NeverEarlyInv'
    OBVIOUS
  <1>0. TypeOK'
    BY TypePreserved DEF NeverEarlyInv
  <1>a. ms \in Nat /\ i \in Nat /\ i * UsPerMs \in Int
    BY DelayAssumption, Distribute DEF NeverEarlyInv, TypeOK
  <1> USE DEF NeverEarlyInv, AtLeastShown, EarlyInv, Seen
  <1>1. CASE Tick
    BY <1>0, <1>1, <1>a, DelayAssumption DEF Tick, TypeOK
  <1>2. ASSUME NEW n \in Calls, delay_ms(n) PROVE NeverEarlyInv'
    BY <1>0, <1>2, <1>a, DelayAssumption, Distribute
    DEF delay_ms, LoopTest, TypeOK
  <1>3. CASE delay_us
    BY <1>0, <1>3, <1>a, DelayAssumption DEF delay_us, TypeOK
  <1>4. CASE Poll
    <2>1. CASE ~Moved(cnt_old, cnt)
      BY <1>0, <1>4, <1>a, <2>1, DelayAssumption DEF Poll, TypeOK, Moved
    <2>2. CASE Moved(cnt_old, cnt)
      <3>1. Advance(cnt_old, cnt) \in Nat /\ Advance(cnt_old, cnt) <= away
        BY <1>4, <2>2, AdvanceBounds, DelayAssumption DEF Poll, TypeOK
      <3>2. i * UsPerMs + time' <= elapsed
        BY <1>4, <1>a, <2>2, <3>1 DEF Poll, TypeOK
      <3>3. CASE Reached(time')
        <4>0. time' \in Nat /\ elapsed \in Nat /\ time' >= UsPerMs
          BY <1>0, <3>3 DEF Reached, TypeOK
        <4>1. (i + 1) * UsPerMs <= elapsed
          BY <1>a, <3>2, <4>0, DelayAssumption, PassTakesEnough, Zenon
        <4>2. QED
          BY <1>0, <1>4, <1>a, <2>2, <3>3, <4>1 DEF Poll, LoopTest, TypeOK
      <3>4. CASE ~Reached(time')
        BY <1>0, <1>4, <1>a, <2>2, <3>2, <3>4 DEF Poll, TypeOK
      <3>5. QED
        BY <3>3, <3>4
    <2>3. QED
      BY <2>1, <2>2
  <1>5. CASE UNCHANGED vars
    BY <1>0, <1>5 DEF vars
  <1>6. QED
    BY <1>1, <1>2, <1>3, <1>4, <1>5 DEF Next

\* Type correctness of the delay loops.
THEOREM DelayTypes == Spec => []TypeOK
  <1>1. Init => TypeOK
    BY InitEstablishes DEF NeverVeryLateInv, NeverEarlyInv
  <1>2. QED
    BY <1>1, TypePreserved, PTL DEF Spec

\* delay_ms never returns before ms * UsPerMs ticks have passed.
THEOREM DelayNeverEarly == Spec => []NeverEarly
  <1>1. Init => NeverEarlyInv
    BY InitEstablishes DEF NeverVeryLateInv
  <1>2. NeverEarlyInv => NeverEarly
    BY DEF NeverEarlyInv, EarlyInv, NeverEarly
  <1>3. QED
    BY <1>1, <1>2, EarlyPreserved, PTL DEF Spec

-----------------------------------------------------------------------------
\* With gaps shorter than a revolution, no step loses more than its share.
LEMMA LatePreserved ==
  ASSUME MaxAway < Wrap
  PROVE  NeverVeryLateInv /\ [Next]_vars => NeverVeryLateInv'
  <1> SUFFICES ASSUME NeverVeryLateInv, [Next]_vars PROVE NeverVeryLateInv'
    OBVIOUS
  <1>0. TypeOK /\ TypeOK' /\ NeverEarlyInv'
    BY EarlyPreserved DEF NeverVeryLateInv, NeverEarlyInv
  <1>a. /\ ms \in Nat /\ i \in Nat /\ Pass \in Nat
        /\ i * Pass \in Int /\ (i + 1) * Pass = i * Pass + Pass
    BY <1>0, DelayAssumption, Distribute DEF TypeOK, Pass
  <1>b. away <= elapsed
    BY DEF NeverVeryLateInv, NeverEarlyInv, EarlyInv
  <1> USE DEF NeverVeryLateInv, ExactlyShown, LateInv, Seen
  <1>1. CASE Tick
    BY <1>0, <1>1, <1>a, <1>b, DelayAssumption DEF Tick, TypeOK
  <1>2. ASSUME NEW n \in Calls, delay_ms(n) PROVE NeverVeryLateInv'
    <2>1. 0 * Pass = 0
      BY <1>a, Distribute
    <2>2. QED
      BY <1>0, <1>2, <2>1, DelayAssumption DEF delay_ms, LoopTest, TypeOK
  <1>3. CASE delay_us
    BY <1>0, <1>3, <1>a, <1>b, DelayAssumption DEF delay_us, TypeOK
  <1>4. CASE Poll
    <2>1. CASE ~Moved(cnt_old, cnt)
      <3>1. away = 0
        BY <1>0, <1>4, <2>1, DelayAssumption DEF Poll, TypeOK, Moved
      <3>2. QED
        BY <1>0, <1>4, <1>a, <2>1, <3>1, DelayAssumption, Zenon DEF Poll, TypeOK
    <2>2. CASE Moved(cnt_old, cnt)
      <3>1. /\ Advance(cnt_old, cnt) \in Nat /\ Advance(cnt_old, cnt) <= away
            /\ wraps' \in Nat
            /\ away + wraps <= Advance(cnt_old, cnt) + wraps'
            /\ wraps <= wraps'
        BY <1>0, <1>4, <2>2, AdvanceBounds, DelayAssumption DEF Poll, TypeOK
      <3>2. /\ time' \in Nat
            /\ time' <= time + MaxAway
            /\ elapsed <= i * Pass + MaxAway + time' + wraps'
        BY <1>0, <1>4, <1>a, <1>b, <2>2, <3>1, DelayAssumption DEF Poll, TypeOK
      <3>3. CASE Reached(time')
        <4>1. time' <= UsPerMs + MaxAway /\ Pass = UsPerMs + 2 * MaxAway
          BY <1>0, <1>4, <3>2, DelayAssumption DEF Poll, Pass, TypeOK
        <4>2. elapsed <= (i + 1) * Pass + wraps'
          <5>1. elapsed \in Nat /\ MaxAway \in Nat /\ UsPerMs \in Nat
            BY <1>0, DelayAssumption DEF TypeOK
          <5> DEFINE p == i * Pass
          <5>2. p \in Int /\ elapsed <= p + MaxAway + time' + wraps'
            BY <1>a, <3>2
          <5>3. (i + 1) * Pass = p + Pass
            BY <1>a
          <5> HIDE DEF p
          <5>4. elapsed <= p + (UsPerMs + 2 * MaxAway) + wraps'
            BY <3>1, <3>2, <4>1, <5>1, <5>2, PassAllowance, Zenon
          <5>5. QED
            BY <4>1, <5>3, <5>4
        <4>3. pc' = LoopTest(i + 1, ms) /\ i' = i + 1 /\ away' = 0 /\ elapsed' = elapsed
          BY <1>4, <2>2, <3>3 DEF Poll
        <4>4. pc' # "poll" /\ Seen' = elapsed
          BY <1>0, <4>3 DEF LoopTest, TypeOK
        <4>5. QED
          BY <1>0, <4>2, <4>3, <4>4
      <3>4. CASE ~Reached(time')
        <4>1. pc' = "poll" /\ i' = i /\ away' = 0 /\ elapsed' = elapsed /\ cnt_old' = cnt'
          BY <1>4, <2>2, <3>4 DEF Poll
        <4>2. time' <= UsPerMs
          BY <1>0, <3>2, <3>4, DelayAssumption DEF Reached, TypeOK
        <4>3. ExactlyShown'
          <5>1. cnt' \in Int
            BY <1>0, DelayAssumption DEF TypeOK
          <5>2. QED
            BY <4>1, <5>1, JustRead, Zenon
        <4>4. Seen' = elapsed
          BY <1>0, <4>1 DEF TypeOK
        <4>5. QED
          BY <1>0, <3>2, <4>1, <4>2, <4>3, <4>4
      <3>5. QED
        BY <3>3, <3>4
    <2>3. QED
      BY <2>1, <2>2
  <1>5. CASE UNCHANGED vars
    BY <1>0, <1>5 DEF vars
  <1>6. QED
    BY <1>1, <1>2, <1>3, <1>4, <1>5 DEF Next

\* delay_ms is late by at most two poll gaps per pass and a tick per wrap.
THEOREM DelayNeverVeryLate ==
  ASSUME MaxAway < Wrap
  PROVE  Spec => []NeverVeryLate
  <1>1. NeverVeryLateInv => NeverVeryLate
    BY DEF NeverVeryLateInv, NeverEarlyInv, EarlyInv, LateInv, NeverVeryLate, Pass
  <1>2. NeverVeryLateInv /\ [Next]_vars => NeverVeryLateInv'
    BY LatePreserved
  <1>3. QED
    BY <1>1, <1>2, InitEstablishes, PTL DEF Spec

-----------------------------------------------------------------------------
(* The pins. AsAsked says nothing of the pin a call is working on, so its  *)
(* strengthening GpioInv follows that pin through the stores of gpio_init. *)

\* The arguments of a call are what was asked for its pin, and each store
\* that is done has had its effect.
MidCall ==
  at # "idle" =>
    /\ DirAsAsked(pin) /\ OnAsAsked(pin)
    /\ asked[pin].mode = cfg.irq_mode
    /\ at = "pin_write" => asked[pin].level = cfg.def_val
    /\ at # "pin_write" => LevelAsAsked(pin)
    /\ at = "icr" => pin \notin EDGE_SEL

GpioInv == GpioTypeOK /\ AsAsked /\ MidCall

\* The types of what gpio_init's caller asks, and that other pins' are kept.
LEMMA AskFacts ==
  ASSUME GpioTypeOK, NEW p \in Pins, NEW c \in Configs, Ask(p, c)
  PROVE  /\ asked' \in [Pins -> [dir : Dirs \cup {"none"}, level : Levels \cup {"none"},
                                 mode : Modes \cup {"NONE"}, on : BOOLEAN]]
         /\ \A q \in Pins \ {p} : asked'[q] = asked[q]
         /\ asked'[p].dir = c.dir /\ asked'[p].mode = c.irq_mode
         /\ asked'[p].on = asked[p].on
         /\ c.dir = "GPIO_OUTPUT" => asked'[p].level = c.def_val
<1> DEFINE lev == IF c.dir = "GPIO_OUTPUT" THEN c.def_val ELSE "none"
           R == [dir : Dirs \cup {"none"}, level : Levels \cup {"none"},
                 mode : Modes \cup {"NONE"}, on : BOOLEAN]
<1>1. lev \in Levels \cup {"none"} /\ c.dir \in Dirs /\ c.irq_mode \in Modes \cup {"NONE"}
  BY DEF Configs
<1>2. asked' = [asked EXCEPT ![p] =
        [asked[p] EXCEPT !.dir = c.dir, !.mode = c.irq_mode, !.level = lev]]
  BY Zenon DEF Ask, GpioTypeOK
<1>3. asked \in [Pins -> R]
  BY DEF GpioTypeOK
<1> HIDE DEF lev
<1>4. [asked[p] EXCEPT !.dir = c.dir, !.mode = c.irq_mode, !.level = lev] \in R
  BY <1>1, <1>3, Zenon
<1> QED BY <1>1, <1>2, <1>3, <1>4 DEF lev

\* pin_write sets the level of its pin and keeps those of the other outputs.
LEMMA WriteFacts ==
  ASSUME GpioTypeOK, NEW p \in Pins, NEW level \in Levels, pin_write(p, level)
  PROVE  /\ DR' \subseteq Pins
         /\ (p \in DR' <=> level = "LEVEL_HIGH")
         /\ \A q \in GDIR \ {p} : (q \in DR' <=> q \in DR)
  BY DEF GpioTypeOK, pin_write, ReadDR, Levels

\* SetField sets the field of its pin and keeps every other pin's.
LEMMA FieldFacts ==
  ASSUME GpioTypeOK, NEW p \in Pins, NEW mode \in FieldModes, SetField(p, mode)
  PROVE  /\ ICR1' \in [0 .. 15 -> FieldModes] /\ ICR2' \in [0 .. 15 -> FieldModes]
         /\ Icr(p)' = mode
         /\ \A q \in Pins \ {p} : Icr(q)' = Icr(q)
  BY GpioAssumption DEF GpioTypeOK, SetField, Icr

\* GpioInv holds initially.
LEMMA GpioInitInv == GpioInit => GpioInv
<1> SUFFICES ASSUME GpioInit PROVE GpioInv
  OBVIOUS
<1>1. GpioTypeOK
  BY DEF GpioInit, GpioTypeOK, Configs, NoConfig, Dirs, Levels, Modes, FieldModes
<1>2. AsAsked
  BY DEF GpioInit, AsAsked, DirAsAsked, LevelAsAsked, TriggerAsAsked, OnAsAsked
<1>3. MidCall
  BY DEF GpioInit, MidCall
<1> QED BY <1>1, <1>2, <1>3 DEF GpioInv

\* GpioInv is preserved by every step.
LEMMA GpioNextInv == GpioInv /\ [GpioNext]_gpioVars => GpioInv'
<1> SUFFICES ASSUME GpioInv, [GpioNext]_gpioVars PROVE GpioInv'
  OBVIOUS
<1> USE DEF GpioInv
<1>0. pin \in Pins /\ cfg \in Configs /\ cfg.irq_mode \in Modes \cup {"NONE"}
      /\ cfg.def_val \in Levels /\ cfg.dir \in Dirs
  BY DEF GpioTypeOK, Configs
<1>1. ASSUME NEW p \in Pins, NEW c \in Configs, gpio_init(p, c) PROVE GpioInv'
  <2>1. Ask(p, c) /\ at = "idle" /\ UNCHANGED <<DR, EDGE_SEL, IMR, ISR, ICR1, ICR2>>
        /\ pin' = p /\ cfg' = c /\ at' \in {"pin_write", "pin_int_config"}
        /\ (c.dir = "GPIO_OUTPUT" => GDIR' = GDIR \cup {p} /\ at' = "pin_write")
        /\ (c.dir = "GPIO_INPUT" => GDIR' = GDIR \ {p} /\ at' = "pin_int_config")
        /\ c.dir \in Dirs
    BY <1>1 DEF gpio_init, Call, set_pin_intput, set_pin_output, Configs, Dirs
  <2>2. GpioTypeOK'
    BY <2>1, AskFacts DEF GpioTypeOK, Dirs
  <2>3. AsAsked'
    BY <2>1, AskFacts DEF GpioTypeOK, AsAsked, InCall, DirAsAsked, LevelAsAsked, TriggerAsAsked,
       OnAsAsked, Trigger, Icr, Dirs
  <2>4. MidCall'
    BY <2>1, AskFacts DEF GpioTypeOK, AsAsked, MidCall, InCall, DirAsAsked, LevelAsAsked, OnAsAsked, Dirs
  <2> QED BY <2>2, <2>3, <2>4
<1>2. ASSUME NEW p \in Pins, NEW level \in Levels, DriverWrites(p, level) PROVE GpioInv'
  <2>1. at = "idle" /\ asked[p].dir = "GPIO_OUTPUT" /\ pin_write(p, level)
        /\ asked' = [asked EXCEPT ![p].level = level]
        /\ UNCHANGED <<GDIR, EDGE_SEL, IMR, ISR, ICR1, ICR2, at, pin, cfg>>
    BY <1>2 DEF DriverWrites
  <2>2. /\ \A q \in Pins \ {p} : asked'[q] = asked[q]
        /\ asked'[p].dir = asked[p].dir /\ asked'[p].mode = asked[p].mode
        /\ asked'[p].on = asked[p].on /\ asked'[p].level = level
        /\ asked' \in [Pins -> [dir : Dirs \cup {"none"}, level : Levels \cup {"none"},
                                mode : Modes \cup {"NONE"}, on : BOOLEAN]]
    BY <2>1 DEF GpioTypeOK
  <2>3. GpioTypeOK'
    BY <2>1, <2>2, WriteFacts DEF GpioTypeOK
  <2>4. AsAsked'
    BY <2>1, <2>2, WriteFacts DEF GpioTypeOK, AsAsked, InCall, DirAsAsked, LevelAsAsked,
       TriggerAsAsked, OnAsAsked, Trigger, Icr
  <2> QED BY <2>1, <2>3, <2>4 DEF MidCall
<1>3. ASSUME NEW p \in Pins, pin_int_enable(p) PROVE GpioInv'
  <2>1. at = "idle" /\ IMR' = IMR \cup {p} /\ asked' = [asked EXCEPT ![p].on = TRUE]
        /\ UNCHANGED <<GDIR, DR, EDGE_SEL, ISR, ICR1, ICR2, at, pin, cfg>>
    BY <1>3 DEF pin_int_enable
  <2>2. /\ \A q \in Pins \ {p} : asked'[q] = asked[q]
        /\ asked'[p].dir = asked[p].dir /\ asked'[p].mode = asked[p].mode
        /\ asked'[p].on = TRUE /\ asked'[p].level = asked[p].level
        /\ asked' \in [Pins -> [dir : Dirs \cup {"none"}, level : Levels \cup {"none"},
                                mode : Modes \cup {"NONE"}, on : BOOLEAN]]
    BY <2>1, ZenonT(40) DEF GpioTypeOK
  <2>3. GpioTypeOK'
    BY <2>1, <2>2 DEF GpioTypeOK
  <2>4. AsAsked'
    BY <2>1, <2>2 DEF GpioTypeOK, AsAsked, InCall, DirAsAsked, LevelAsAsked, TriggerAsAsked,
       OnAsAsked, Trigger, Icr
  <2> QED BY <2>1, <2>3, <2>4 DEF MidCall
<1>4. ASSUME NEW p \in Pins, pin_int_disable(p) PROVE GpioInv'
  <2>1. at = "idle" /\ IMR' = IMR \ {p} /\ asked' = [asked EXCEPT ![p].on = FALSE]
        /\ UNCHANGED <<GDIR, DR, EDGE_SEL, ISR, ICR1, ICR2, at, pin, cfg>>
    BY <1>4 DEF pin_int_disable
  <2>2. /\ \A q \in Pins \ {p} : asked'[q] = asked[q]
        /\ asked'[p].dir = asked[p].dir /\ asked'[p].mode = asked[p].mode
        /\ asked'[p].on = FALSE /\ asked'[p].level = asked[p].level
        /\ asked' \in [Pins -> [dir : Dirs \cup {"none"}, level : Levels \cup {"none"},
                                mode : Modes \cup {"NONE"}, on : BOOLEAN]]
    BY <2>1, ZenonT(40) DEF GpioTypeOK
  <2>3. GpioTypeOK'
    BY <2>1, <2>2 DEF GpioTypeOK
  <2>4. AsAsked'
    BY <2>1, <2>2 DEF GpioTypeOK, AsAsked, InCall, DirAsAsked, LevelAsAsked, TriggerAsAsked,
       OnAsAsked, Trigger, Icr
  <2> QED BY <2>1, <2>3, <2>4 DEF MidCall
<1>5. ASSUME NEW p \in Pins, pin_int_clear(p) \/ Flag(p) PROVE GpioInv'
  <2>1. ISR' \subseteq Pins
        /\ UNCHANGED <<GDIR, DR, EDGE_SEL, IMR, ICR1, ICR2, at, pin, cfg, asked>>
    BY <1>5 DEF pin_int_clear, Flag, GpioTypeOK
  <2>2. GpioTypeOK'
    BY <2>1 DEF GpioTypeOK
  <2> QED
    BY <2>1, <2>2 DEF AsAsked, MidCall, InCall, DirAsAsked, LevelAsAsked, TriggerAsAsked,
       OnAsAsked, Trigger, Icr
<1>6. ASSUME InitWrites PROVE GpioInv'
  <2>1. at = "pin_write" /\ pin_write(pin, cfg.def_val) /\ at' = "pin_int_config"
        /\ UNCHANGED <<GDIR, EDGE_SEL, IMR, ISR, ICR1, ICR2, pin, cfg, asked>>
    BY <1>6 DEF InitWrites
  <2>2. /\ DR' \subseteq Pins
        /\ (pin \in DR' <=> cfg.def_val = "LEVEL_HIGH")
        /\ \A q \in GDIR \ {pin} : (q \in DR' <=> q \in DR)
    BY <1>0, <2>1, WriteFacts
  <2>3. GpioTypeOK'
    BY <2>1, <2>2 DEF GpioTypeOK
  <2>4. AsAsked'
    BY <2>1, <2>2 DEF GpioTypeOK, AsAsked, InCall, DirAsAsked, LevelAsAsked, TriggerAsAsked,
       OnAsAsked, Trigger, Icr
  <2>5. MidCall'
    BY <2>1, <2>2 DEF MidCall, DirAsAsked, LevelAsAsked, OnAsAsked
  <2> QED BY <2>3, <2>4, <2>5
<1>7. ASSUME pin_int_config PROVE GpioInv'
  <2>1. at = "pin_int_config" /\ at' = "icr" /\ EDGE_SEL' = EDGE_SEL \ {pin}
        /\ UNCHANGED <<GDIR, DR, IMR, ISR, ICR1, ICR2, pin, cfg, asked>>
    BY <1>7 DEF pin_int_config
  <2>2. GpioTypeOK'
    BY <2>1 DEF GpioTypeOK
  <2>3. AsAsked'
    BY <2>1 DEF AsAsked, InCall, DirAsAsked, LevelAsAsked, TriggerAsAsked, OnAsAsked, Trigger, Icr
  <2>4. MidCall'
    BY <2>1 DEF MidCall, DirAsAsked, LevelAsAsked, OnAsAsked
  <2> QED BY <2>2, <2>3, <2>4
<1>8. ASSUME SetTrigger PROVE GpioInv'
  <2>1. at = "icr" /\ at' = "idle" /\ cfg' = NoConfig
        /\ UNCHANGED <<GDIR, DR, IMR, ISR, pin, asked>>
    BY <1>8 DEF SetTrigger
  <2>2. /\ ICR1' \in [0 .. 15 -> FieldModes] /\ ICR2' \in [0 .. 15 -> FieldModes]
        /\ EDGE_SEL' \subseteq Pins
        /\ cfg.irq_mode # "NONE" => Trigger(pin)' = cfg.irq_mode
        /\ \A q \in Pins \ {pin} : Trigger(q)' = Trigger(q)
    <3>1. CASE cfg.irq_mode \in FieldModes
      <4>1. SetField(pin, cfg.irq_mode) /\ EDGE_SEL' = EDGE_SEL
        BY <1>8, <3>1 DEF SetTrigger
      <4>2. pin \notin EDGE_SEL
        BY <2>1 DEF MidCall
      <4>3. /\ ICR1' \in [0 .. 15 -> FieldModes] /\ ICR2' \in [0 .. 15 -> FieldModes]
            /\ Icr(pin)' = cfg.irq_mode
            /\ \A q \in Pins \ {pin} : Icr(q)' = Icr(q)
        BY <1>0, <2>1, <3>1, <4>1, FieldFacts DEF Icr
      <4> QED BY <1>0, <2>1, <3>1, <4>1, <4>2, <4>3 DEF Trigger, GpioTypeOK
    <3>2. CASE cfg.irq_mode = "RFEDGE"
      <4>1. EDGE_SEL' = EDGE_SEL \cup {pin} /\ UNCHANGED <<ICR1, ICR2>>
        BY <1>8, <3>2 DEF SetTrigger, FieldModes
      <4>2. Trigger(pin)' = "RFEDGE"
        BY <2>1, <4>1 DEF Trigger
      <4>3. \A q \in Pins \ {pin} : Trigger(q)' = Trigger(q)
        BY <4>1 DEF Trigger, Icr
      <4> QED BY <1>0, <3>2, <4>1, <4>2, <4>3 DEF GpioTypeOK
    <3>3. CASE cfg.irq_mode = "NONE"
      <4>1. EDGE_SEL' = EDGE_SEL /\ UNCHANGED <<ICR1, ICR2>>
        BY <1>8, <3>3 DEF SetTrigger, FieldModes
      <4>2. \A q \in Pins : Trigger(q)' = Trigger(q)
        BY <4>1 DEF Trigger, Icr
      <4> QED BY <1>0, <3>3, <4>1, <4>2 DEF GpioTypeOK
    <3> QED BY <1>0, <3>1, <3>2, <3>3 DEF Modes
  <2>3. GpioTypeOK'
    BY <2>1, <2>2 DEF GpioTypeOK, NoConfig, Configs, Dirs, Levels, Modes
  <2>4. AsAsked'
    BY <2>1, <2>2 DEF AsAsked, MidCall, InCall, DirAsAsked, LevelAsAsked, TriggerAsAsked, OnAsAsked
  <2> QED BY <2>1, <2>3, <2>4 DEF MidCall
<1>9. CASE UNCHANGED gpioVars
  BY <1>9 DEF gpioVars, GpioTypeOK, AsAsked, MidCall, InCall, DirAsAsked, LevelAsAsked, TriggerAsAsked,
     OnAsAsked, Trigger, Icr
<1> QED BY <1>1, <1>2, <1>3, <1>4, <1>5, <1>6, <1>7, <1>8, <1>9 DEF GpioNext

\* GpioInv is an invariant.
THEOREM GpioInductive == GpioSpec => []GpioInv
  BY GpioInitInv, GpioNextInv, PTL DEF GpioSpec

\* The registers and the history have their types.
THEOREM GpioTypes == GpioSpec => []GpioTypeOK
<1>1. GpioInv => GpioTypeOK
  BY DEF GpioInv
<1> QED BY <1>1, GpioInductive, PTL

\* Whatever calls are made for whatever pins, a pin outside a call of its own
\* has the direction, the level, the trigger and the enable that its own calls
\* asked for: no read-modify-write of a shared register touches another pin.
THEOREM PinsAsAsked == GpioSpec => []AsAsked
<1>1. GpioInv => AsAsked
  BY DEF GpioInv
<1> QED BY <1>1, GpioInductive, PTL
=============================================================================
