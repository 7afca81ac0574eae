----------------------------- MODULE Backlight -----------------------------
(***************************************************************************)
(* The PWM backlight (pwm.c) and the loop of main.c that sets it by key:   *)
(* main and pwm1_irq_handler both write duty samples to PWM1's FIFO, from  *)
(* which the output takes one per PWM period.                              *)
(*                                                                         *)
(* Not modelled: the LCD number and the blinking LED of the loop, which    *)
(* nothing here reads.                                                     *)
(***************************************************************************)
EXTENDS Integers, Sequences

CONSTANTS
  FifoDepth,  \* 4 samples
  WaterMark,  \* FWM: free places from which FE is set, 2
  MaxSets     \* bound on main's calls of pwm1_set_duty

ASSUME BacklightAssumption ==
  /\ FifoDepth \in Nat \ {0} /\ WaterMark \in 1 .. FifoDepth
  /\ MaxSets \in Nat \ {0}

VARIABLES
  pc, duty,             \* main
  bl_dev,               \* bl_dev.duty; version counts main's stores to it
  PWMPR, FE, EN, irqOn, \* PWM1: period, FIFO-empty flag, enable; its interrupt
  fifo, out,            \* samples waiting, and the one being output
  keyDown, steps        \* the key, and the duty steps since it went down

vars == <<pc, duty, bl_dev, PWMPR, FE, EN, irqOn, fifo, out, keyDown, steps>>

u8(n) == n % 256
U16 == 65536
u16(n) == n % U16

\* A sample, and the store to bl_dev it was computed from.
Entry(dev, pr) ==
  [version |-> dev.version, sample |-> u16((u16(pr + 2) * dev.duty) \div 100)]

\* A write of PWMSAR; the FIFO ignores it when it is full.
pwm1_set_sample(e) == fifo' = IF Len(fifo) < FifoDepth THEN Append(fifo, e) ELSE fifo

pwm1_set_period(val) == u16(IF val < 2 THEN 2 ELSE val - 2)

Init ==
  /\ pc = "backlight_init" /\ duty = 0
  /\ bl_dev = [duty |-> 0, version |-> 0]
  /\ PWMPR = 0 /\ FE = TRUE /\ EN = FALSE /\ irqOn = FALSE
  /\ fifo = <<>> /\ out = [version |-> 0, sample |-> 0]
  /\ keyDown \in BOOLEAN /\ steps = 0

-----------------------------------------------------------------------------
(* main.                                                                   *)

\* backlight_init up to its last loop: period 1000, duty 50, FIFO filled.
backlight_init ==
  /\ pc = "backlight_init"
  /\ PWMPR' = pwm1_set_period(1000)
  /\ bl_dev' = [duty |-> 50, version |-> 0]
  /\ fifo' = [k \in 1 .. FifoDepth |-> Entry(bl_dev', PWMPR')]
  /\ pc' = "enable_irq"
  /\ UNCHANGED <<duty, FE, EN, irqOn, out, keyDown, steps>>

\* PWMIR, the handler and the GIC; the store of 0 to PWMSR clears nothing,
\* its flags are cleared by ones.
enable_irq ==
  /\ pc = "enable_irq"
  /\ irqOn' = TRUE /\ pc' = "pwm1_enable"
  /\ UNCHANGED <<duty, bl_dev, PWMPR, FE, EN, fifo, out, keyDown, steps>>

pwm1_enable ==
  /\ pc = "pwm1_enable"
  /\ EN' = TRUE /\ pc' = "default"
  /\ UNCHANGED <<duty, bl_dev, PWMPR, FE, irqOn, fifo, out, keyDown, steps>>

\* 100 for an ATKVGA panel, 10 for the others.
default_duty ==
  /\ pc = "default"
  /\ duty' \in {10, 100} /\ pc' = "store"
  /\ UNCHANGED <<bl_dev, PWMPR, FE, EN, irqOn, fifo, out, keyDown, steps>>

\* Mutated form: the sample is written before bl_dev.duty is stored.
pwm1_set_dutySampleFirst ==
  LET dev == [duty |-> duty, version |-> bl_dev.version + 1] IN
  /\ \/ pc = "store" /\ pc' = "sample" /\ pwm1_set_sample(Entry(dev, PWMPR)) /\ UNCHANGED bl_dev
     \/ pc = "sample" /\ pc' = "loop" /\ bl_dev' = dev /\ UNCHANGED fifo
  /\ UNCHANGED <<duty, PWMPR, FE, EN, irqOn, out, keyDown, steps>>

\* Mutated form: bl_dev.duty is not stored.
pwm1_set_dutyNoStore ==
  LET dev == [duty |-> duty, version |-> bl_dev.version + 1] IN
  /\ \/ pc = "store" /\ pc' = "sample" /\ bl_dev' = [bl_dev EXCEPT !.version = @ + 1] /\ UNCHANGED fifo
     \/ pc = "sample" /\ pc' = "loop" /\ pwm1_set_sample(Entry(dev, PWMPR)) /\ UNCHANGED bl_dev
  /\ UNCHANGED <<duty, PWMPR, FE, EN, irqOn, out, keyDown, steps>>

\* pwm1_set_duty called by main: the interrupt can come between the store to
\* bl_dev and the write of the sample.
pwm1_set_duty ==
  /\ \/ /\ pc = "store" /\ pc' = "sample"
        /\ bl_dev' = [duty |-> duty, version |-> bl_dev.version + 1]
        /\ UNCHANGED fifo
     \/ /\ pc = "sample" /\ pc' = "loop"
        /\ pwm1_set_sample(Entry(bl_dev, PWMPR))
        /\ UNCHANGED bl_dev
  /\ UNCHANGED <<duty, PWMPR, FE, EN, irqOn, out, keyDown, steps>>

\* Mutated form: the duty is not brought back to 10.
StepDutyUnlimited(d) == u8(d + 10)

\* duty += 10, from 10 again above 100.
StepDuty(d) == IF u8(d + 10) > 100 THEN 10 ELSE u8(d + 10)

\* key_get_val: the pin is read, and read again after the debounce delay; the
\* variable that remembers a press is local and forgets it. main then steps
\* the duty, and waits before the next pass.
key_get_val ==
  /\ bl_dev.version < MaxSets
  /\ \/ pc = "loop" /\ pc' = (IF keyDown THEN "debounce" ELSE "loop") /\ UNCHANGED <<duty, steps>>
     \/ pc = "debounce" /\ ~keyDown /\ pc' = "loop" /\ UNCHANGED <<duty, steps>>
     \/ pc = "debounce" /\ keyDown /\ pc' = "store" /\ duty' = StepDuty(duty) /\ steps' = steps + 1
  /\ UNCHANGED <<bl_dev, PWMPR, FE, EN, irqOn, fifo, out, keyDown>>

-----------------------------------------------------------------------------
(* The interrupt, which main cannot interrupt, and the hardware.           *)
pwm1_irq_handler ==
  /\ irqOn /\ FE
  /\ pwm1_set_sample(Entry(bl_dev, PWMPR))
  /\ FE' = FALSE
  /\ UNCHANGED <<pc, duty, bl_dev, PWMPR, EN, irqOn, out, keyDown, steps>>

\* A PWM period ends: the next sample, or the last one again.
Period ==
  /\ EN
  /\ IF fifo = <<>> THEN UNCHANGED <<fifo, out>>
                    ELSE out' = Head(fifo) /\ fifo' = Tail(fifo)
  /\ FE' = (FE \/ FifoDepth - Len(fifo') >= WaterMark)
  /\ UNCHANGED <<pc, duty, bl_dev, PWMPR, EN, irqOn, keyDown, steps>>

\* FE may also be set again at once while the FIFO is still low.
StillLow ==
  /\ ~FE /\ FifoDepth - Len(fifo) >= WaterMark
  /\ FE' = TRUE
  /\ UNCHANGED <<pc, duty, bl_dev, PWMPR, EN, irqOn, fifo, out, keyDown, steps>>

Key ==
  /\ keyDown' = ~keyDown /\ steps' = (IF keyDown THEN steps ELSE 0)
  /\ UNCHANGED <<pc, duty, bl_dev, PWMPR, FE, EN, irqOn, fifo, out>>

Main == backlight_init \/ enable_irq \/ pwm1_enable \/ default_duty \/ pwm1_set_duty \/ key_get_val
Next == Main \/ pwm1_irq_handler \/ Period \/ StillLow \/ Key

Spec == Init /\ [][Next]_vars

\* The core executes, takes the interrupt, and the PWM runs.
FairSpec == Spec /\ WF_vars(Main) /\ WF_vars(pwm1_irq_handler) /\ WF_vars(Period)

-----------------------------------------------------------------------------
Samples == [version : Nat, sample : 0 .. U16 - 1]

TypeOK ==
  /\ pc \in {"backlight_init", "enable_irq", "pwm1_enable", "default",
             "store", "sample", "loop", "debounce"}
  /\ duty \in 0 .. 100
  /\ bl_dev \in [duty : 0 .. 100, version : Nat]
  /\ PWMPR \in 0 .. U16 - 1
  /\ FE \in BOOLEAN /\ EN \in BOOLEAN /\ irqOn \in BOOLEAN
  /\ fifo \in Seq(Samples) /\ Len(fifo) <= FifoDepth /\ out \in Samples
  /\ keyDown \in BOOLEAN /\ steps \in Nat

\* The brightness never goes back: once a sample of a new duty is waiting or
\* shown, no sample of an earlier duty follows it, whenever the interrupt
\* comes during main's pwm1_set_duty.
NeverBack ==
  /\ \A i, j \in 1 .. Len(fifo) : i < j => fifo[i].version <= fifo[j].version
  /\ \A i \in 1 .. Len(fifo) : out.version <= fifo[i].version

\* The output shows the duty main set last, in hundredths of a period of 1000
\* ticks.
Settled == out.version = bl_dev.version /\ 100 * out.sample = 1000 * duty

\* The output settles on exactly the duty main set last, even when main's own
\* write finds the FIFO full and is lost.
Settles == <>[]Settled

\* What the comments on key_act say (the press is marked, the release is
\* marked): a press of the key is one step of the duty.
\* The code does not do this: the mark is a local variable, a held key steps
\* again and again, and TLC violates it.
OneStepPerPress == steps <= 1
=============================================================================
