----------------------------- MODULE KeyFilter -----------------------------
(***************************************************************************)
(* The debounced key (key_filter.c): a falling edge of the key's pin       *)
(* starts EPIT1, and EPIT1's interrupt reads the pin and toggles the       *)
(* beeper.  Time passes in ticks, of which the timer takes Debounce; the   *)
(* handlers take no time, but the timer may expire while the key's handler *)
(* is being entered.  A key that is pressed or released bounces for at     *)
(* most MaxBounce ticks, less than the timer takes; a released key, and a  *)
(* key that was not touched during the initialisation, is then left alone  *)
(* for MinGap, which is more.                                              *)
(***************************************************************************)
EXTENDS Integers

CONSTANTS
  Debounce,   \* the 10 ms of key_filter_timer_start
  MaxBounce,  \* ticks for which a contact bounces
  MinGap      \* ticks between a release and the next press

ASSUME KeyFilterAssumption ==
  /\ Debounce \in Nat /\ MaxBounce \in Nat /\ MinGap \in Nat
  /\ MaxBounce < Debounce /\ Debounce < MinGap

VARIABLES
  step,                       \* key_filter_init
  mode,                     \* main, or entering gpio1_16_31_irq_handler
  IMR, ISR,                 \* GPIO1 pin 18: interrupt enable, edge flag
  EN, OCIEN, SR, cnt,       \* EPIT1: enables, compare flag, ticks left
  epitOn,                   \* EPIT1's interrupt: GIC line and handler
  state, beep,              \* the handler's static, and the beeper
  pin, key, since,          \* the pin is high; what the finger does, how long
  fallen,                   \* ticks since the last falling edge
  fresh, toggles            \* of this press: begun after the init; toggles

setup == <<step, IMR, epitOn, OCIEN>>
timer == <<EN, SR, cnt>>
keyVars == <<setup, mode, ISR, timer, state, beep, pin, key, since, fallen, fresh, toggles>>

\* The clocks count no further than the properties look.
Long == Debounce + MaxBounce + MinGap + 1
Later(t) == IF t < Long THEN t + 1 ELSE t

gpioPending == IMR /\ ISR
epitPending == epitOn /\ OCIEN /\ SR

\* gpio_init has made pin 18 an input that flags falling edges; nothing has
\* cleared the flag.
KeyInit ==
  /\ step = "pin_int_enable" /\ mode = "main"
  /\ IMR = FALSE /\ ISR \in BOOLEAN
  /\ EN = FALSE /\ OCIEN = FALSE /\ SR = FALSE /\ cnt = 0 /\ epitOn = FALSE
  /\ state = FALSE /\ beep = FALSE
  /\ pin = TRUE /\ key = "up" /\ since = 0 /\ fallen = Long
  /\ fresh = FALSE /\ toggles = 0

-----------------------------------------------------------------------------
(* key_filter_init, in the order of its stores.                            *)
InitAt(p, q) ==
  /\ mode = "main" /\ step = p /\ step' = q
  /\ UNCHANGED <<mode, ISR, SR, cnt, state, beep, pin, key, since, fallen, fresh, toggles>>

pin_int_enable ==
  InitAt("pin_int_enable", "clear") /\ IMR' = TRUE /\ UNCHANGED <<EN, OCIEN, epitOn>>

\* EPIT1->CR = 0, then the configuration with the timer off, then GIC_EnableIRQ
\* and the registration.  The last two are one step: the initialisation takes
\* no time, so a timer that a press has started cannot expire between them.
key_filter_timer_init ==
  \/ InitAt("clear", "config") /\ EN' = FALSE /\ OCIEN' = FALSE /\ UNCHANGED <<IMR, epitOn>>
  \/ InitAt("config", "epit") /\ EN' = FALSE /\ OCIEN' = TRUE /\ UNCHANGED <<IMR, epitOn>>
  \/ InitAt("epit", "done") /\ epitOn' = TRUE /\ UNCHANGED <<IMR, EN, OCIEN>>

-----------------------------------------------------------------------------
(* The handlers. Of two pending interrupts EPIT1's is taken, whose number  *)
(* is the lower.                                                           *)

\* The timer is set back to its full time whether it was running or not.
key_filter_timer_start == EN' = TRUE /\ cnt' = Debounce /\ UNCHANGED SR

TakeGpio ==
  /\ mode = "main" /\ gpioPending /\ ~epitPending
  /\ mode' = "gpio1_16_31"
  /\ UNCHANGED <<setup, ISR, timer, state, beep, pin, key, since, fallen, fresh, toggles>>

\* Mutated form: the timer is not started.
gpio1_16_31_irq_handlerNoStart ==
  /\ mode = "gpio1_16_31" /\ mode' = "main"
  /\ ISR' = FALSE
  /\ UNCHANGED <<setup, timer, state, beep, pin, key, since, fallen, fresh, toggles>>

gpio1_16_31_irq_handler ==
  /\ mode = "gpio1_16_31" /\ mode' = "main"
  /\ key_filter_timer_start
  /\ ISR' = FALSE
  /\ UNCHANGED <<setup, state, beep, pin, key, since, fallen, fresh, toggles>>

\* Mutated form: the timer is not stopped and reloads itself.
key_filter_timer_stopNot == UNCHANGED EN

key_filter_timer_stop == EN' = FALSE

\* state = !state; beep_switch(state)
Toggle ==
  /\ state' = ~state /\ beep' = state'
  /\ toggles' = IF toggles < 2 THEN toggles + 1 ELSE toggles

key_filter_timer_irq_handler ==
  /\ mode = "main" /\ epitPending
  /\ key_filter_timer_stop
  /\ \/ ~pin /\ Toggle
     \/ pin /\ UNCHANGED <<state, beep, toggles>>
  /\ SR' = FALSE
  /\ UNCHANGED <<setup, mode, ISR, cnt, pin, key, since, fallen, fresh>>

-----------------------------------------------------------------------------
(* EPIT1, time, and the key.                                               *)

\* The counter reaches 0 and reloads.
Expire ==
  /\ EN /\ cnt = 0
  /\ SR' = TRUE /\ cnt' = Debounce
  /\ UNCHANGED <<setup, EN, mode, ISR, state, beep, pin, key, since, fallen, fresh, toggles>>

\* Nothing that is due is left for the next tick.
Tick ==
  /\ step = "done" /\ mode = "main" /\ ~gpioPending /\ ~epitPending
  /\ ~(EN /\ cnt = 0)
  /\ key \in {"press", "release"} => since < MaxBounce
  /\ cnt' = IF EN THEN cnt - 1 ELSE cnt
  /\ since' = Later(since) /\ fallen' = Later(fallen)
  /\ UNCHANGED <<setup, mode, ISR, EN, SR, state, beep, pin, key, fresh, toggles>>

\* The pin goes to a level; a fall is flagged.
SetPin(level) ==
  /\ pin' = level
  /\ IF pin /\ ~level THEN ISR' = TRUE /\ fallen' = 0 ELSE UNCHANGED <<ISR, fallen>>
  /\ UNCHANGED <<setup, mode, timer, state, beep>>

Press ==
  /\ key = "up" /\ (since >= MinGap \/ step # "done")
  /\ key' = "press" /\ since' = 0 /\ SetPin(FALSE)
  /\ fresh' = (step = "done") /\ toggles' = 0
Release ==
  /\ key = "down"
  /\ key' = "release" /\ since' = 0 /\ SetPin(TRUE) /\ UNCHANGED <<fresh, toggles>>
Bounce ==
  /\ key \in {"press", "release"} /\ SetPin(~pin)
  /\ UNCHANGED <<key, since, fresh, toggles>>
Settle ==
  /\ \/ key = "press" /\ key' = "down" /\ SetPin(FALSE)
     \/ key = "release" /\ key' = "up" /\ SetPin(TRUE)
  /\ since' = 0 /\ UNCHANGED <<fresh, toggles>>

KeyMain == pin_int_enable \/ key_filter_timer_init

\* The handlers, EPIT1, time and the key.
KeyEvent ==
  \/ TakeGpio \/ gpio1_16_31_irq_handler \/ key_filter_timer_irq_handler
  \/ Expire \/ Tick \/ Press \/ Release \/ Bounce \/ Settle

-----------------------------------------------------------------------------
KeyTypeOK ==
  /\ step \in {"pin_int_enable", "clear", "config", "epit", "done"}
  /\ mode \in {"main", "gpio1_16_31"}
  /\ {IMR, ISR, EN, OCIEN, SR, epitOn, state, beep, pin, fresh} \subseteq BOOLEAN
  /\ cnt \in 0 .. Debounce
  /\ key \in {"up", "press", "down", "release"}
  /\ since \in 0 .. Long /\ fallen \in 0 .. Long /\ toggles \in 0 .. 2

\* However the contact bounces, a press toggles the beeper at most once, as
\* long as it bounces for less than the timer's 10 ms and is not followed at
\* once by another press. The toggle may be the timer's that raced an edge.
OncePerPress == toggles <= 1

\* A press that is held is registered: once the key has been down and quiet
\* for the timer's time, the beeper has been toggled for it.
HeldIsRegistered ==
  key = "down" /\ since > Debounce /\ fresh => toggles = 1

\* What key_filter_init's header says of the key: it is debounced by the
\* timer. The beeper is toggled only when no edge is younger than the timer's
\* time. The code does not do this: the timer's handler reads the pin without
\* regard to an edge that has just been flagged, and TLC violates it.
Debounced == [][beep' # beep => fallen >= Debounce]_keyVars
=============================================================================
