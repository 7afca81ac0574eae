-------------------------- MODULE BacklightProofs --------------------------
(***************************************************************************)
(* Proofs about the backlight for every FIFO depth, water mark and number  *)
(* of duty changes: its types, and that the brightness never goes back.    *)
(***************************************************************************)
EXTENDS Backlight, TLAPS

\* No sample is newer than bl_dev, from which each is computed.
NotNewer ==
  /\ out.version <= bl_dev.version
  /\ \A i \in 1 .. Len(fifo) : fifo[i].version <= bl_dev.version

\* backlight_init's samples are the first.
NothingShown ==
  pc = "backlight_init" => out.version = 0 /\ bl_dev.version = 0 /\ ~EN

IInv == TypeOK /\ NeverBack /\ NotNewer /\ NothingShown

-----------------------------------------------------------------------------
\* The remainder of a division is in range.
LEMMA ModRange == ASSUME NEW n \in Int, NEW w \in Nat \ {0} PROVE n % w \in 0 .. w - 1
  BY SMT

\* A conversion to 16 bits is in range.
LEMMA u16Range == U16 \in Nat \ {0} /\ \A n \in Int : u16(n) \in 0 .. U16 - 1
  <1>1. U16 \in Nat \ {0}
    BY SMT DEF U16
  <1>2. QED
    BY <1>1, ModRange DEF u16

\* A sample carries the version of the duty it was computed from.
LEMMA EntryType ==
  ASSUME NEW dev \in [duty : 0 .. 100, version : Nat], NEW pr \in 0 .. U16 - 1
  PROVE  Entry(dev, pr) \in Samples /\ Entry(dev, pr).version = dev.version
  <1>1. u16(pr + 2) \in Int /\ dev.duty \in Int
    BY u16Range
  <1>2. u16(pr + 2) * dev.duty \in Int
    BY <1>1
  <1>3. (u16(pr + 2) * dev.duty) \div 100 \in Int
    <2> DEFINE p == u16(pr + 2) * dev.duty
    <2>1. p \in Int
      BY <1>2
    <2> HIDE DEF p
    <2>2. p \div 100 \in Int
      BY <2>1
    <2>3. QED
      BY <2>2 DEF p
  <1>4. u16((u16(pr + 2) * dev.duty) \div 100) \in 0 .. U16 - 1
    BY <1>3, u16Range
  <1>5. QED
    BY <1>4 DEF Entry, Samples

\* Every sample that waits has a version.
LEMMA VersionsAreNat ==
  ASSUME TypeOK
  PROVE  (\A i \in 1 .. Len(fifo) : fifo[i].version \in Nat) /\ out.version \in Nat
  <1>1. \A i \in 1 .. Len(fifo) : fifo[i] \in Samples
    BY DEF TypeOK
  <1>2. \A s \in Samples : s.version \in Nat
    BY DEF Samples
  <1>3. QED
    BY <1>1, <1>2 DEF TypeOK

\* The step of the duty stays within 0 .. 100.
LEMMA StepRange == ASSUME NEW d \in 0 .. 100 PROVE StepDuty(d) \in 0 .. 100
  BY DEF StepDuty, u8

\* A sample as new as bl_dev may be put behind all that wait.
LEMMA PushPreserves ==
  ASSUME IInv, NEW e \in Samples, e.version = bl_dev.version,
         pwm1_set_sample(e), UNCHANGED <<out, bl_dev>>
  PROVE  /\ fifo' \in Seq(Samples) /\ Len(fifo') <= FifoDepth
         /\ NeverBack' /\ NotNewer'
  <1> USE BacklightAssumption DEF IInv, TypeOK, pwm1_set_sample
  <1>1. CASE Len(fifo) < FifoDepth
    <2>1. fifo' = Append(fifo, e)
      BY <1>1
    <2>2. /\ fifo' \in Seq(Samples) /\ Len(fifo') = Len(fifo) + 1
          /\ \A i \in 1 .. Len(fifo') :
               fifo'[i] = IF i <= Len(fifo) THEN fifo[i] ELSE e
      BY <2>1
    <2>3. \A i \in 1 .. Len(fifo) : fifo[i].version \in Nat
      BY VersionsAreNat
    <2>4. bl_dev.version \in Nat /\ out.version \in Nat
      BY VersionsAreNat
    <2>5. NeverBack'
      BY <2>2, <2>3, <2>4 DEF NeverBack, NotNewer
    <2>6. NotNewer'
      BY <2>2, <2>3, <2>4 DEF NotNewer
    <2>7. QED
      BY <1>1, <2>2, <2>5, <2>6
  <1>2. CASE ~(Len(fifo) < FifoDepth)
    BY <1>2 DEF NeverBack, NotNewer
  <1>3. QED
    BY <1>1, <1>2

LEMMA InitEstablishes == Init => IInv
  <1> SUFFICES ASSUME Init PROVE IInv
    OBVIOUS
  <1> USE BacklightAssumption DEF Init
  <1>1. fifo \in Seq(Samples) /\ Len(fifo) = 0
    OBVIOUS
  <1>2. out \in Samples /\ PWMPR \in 0 .. U16 - 1
    BY u16Range DEF Samples
  <1>3. FE \in BOOLEAN /\ EN \in BOOLEAN /\ irqOn \in BOOLEAN /\ keyDown \in BOOLEAN
    BY Zenon
  <1>4. TypeOK
    BY <1>1, <1>2, <1>3 DEF TypeOK
  <1>5. QED
    BY <1>1, <1>4 DEF IInv, NeverBack, NotNewer, NothingShown

-----------------------------------------------------------------------------
\* Steps of main that touch neither the samples nor bl_dev.
LEMMA QuietPreserves ==
  ASSUME IInv, enable_irq \/ pwm1_enable \/ default_duty \/ key_get_val
  PROVE  IInv'
  <1>1. UNCHANGED <<bl_dev, fifo, out, PWMPR, FE, keyDown>> /\ pc' # "backlight_init"
    BY DEF IInv, TypeOK, enable_irq, pwm1_enable, default_duty, key_get_val
  <1>2. duty' \in 0 .. 100
    <2>1. duty \in 0 .. 100
      BY DEF IInv, TypeOK
    <2>2. duty' = duty \/ duty' \in {10, 100} \/ duty' = StepDuty(duty)
      BY DEF enable_irq, pwm1_enable, default_duty, key_get_val
    <2>3. QED
      BY <2>1, <2>2, StepRange
  <1>3. pc' \in {"backlight_init", "enable_irq", "pwm1_enable", "default",
                 "store", "sample", "loop", "debounce"}
    BY DEF IInv, TypeOK, enable_irq, pwm1_enable, default_duty, key_get_val
  <1>4. EN' \in BOOLEAN /\ irqOn' \in BOOLEAN
    BY Zenon DEF IInv, TypeOK, enable_irq, pwm1_enable, default_duty, key_get_val
  <1>5. steps' \in Nat
    BY DEF IInv, TypeOK, enable_irq, pwm1_enable, default_duty, key_get_val
  <1>6. TypeOK'
    BY <1>1, <1>2, <1>3, <1>4, <1>5 DEF IInv, TypeOK
  <1>7. QED
    BY <1>1, <1>6 DEF IInv, NeverBack, NotNewer, NothingShown

LEMMA BacklightInitPreserves == ASSUME IInv, backlight_init PROVE IInv'
  <1> USE BacklightAssumption DEF IInv, backlight_init
  <1>1. PWMPR' \in 0 .. U16 - 1
    BY u16Range DEF pwm1_set_period
  <1>2. bl_dev' \in [duty : 0 .. 100, version : Nat] /\ bl_dev'.version = 0
    OBVIOUS
  <1>3. Entry(bl_dev', PWMPR') \in Samples /\ Entry(bl_dev', PWMPR').version = 0
    BY <1>1, <1>2, EntryType
  <1>4. /\ fifo' \in Seq(Samples) /\ Len(fifo') = FifoDepth
        /\ \A i \in 1 .. Len(fifo') : fifo'[i].version = 0
    BY <1>3
  <1>5. TypeOK'
    BY <1>1, <1>2, <1>4 DEF TypeOK
  <1>6. out'.version = 0
    BY DEF NothingShown
  <1>7. NeverBack' /\ NotNewer' /\ NothingShown'
    BY <1>2, <1>4, <1>6 DEF NeverBack, NotNewer, NothingShown
  <1>8. QED
    BY <1>5, <1>7

LEMMA SetDutyPreserves == ASSUME IInv, pwm1_set_duty PROVE IInv'
  <1> USE DEF IInv
  <1>1. CASE pc = "store"
    <2>1. bl_dev' = [duty |-> duty, version |-> bl_dev.version + 1] /\ UNCHANGED <<fifo, out>>
      BY <1>1 DEF pwm1_set_duty
    <2>2. bl_dev' \in [duty : 0 .. 100, version : Nat] /\ bl_dev'.version = bl_dev.version + 1
      BY <2>1 DEF TypeOK
    <2>3. TypeOK'
      BY <1>1, <2>1, <2>2 DEF TypeOK, pwm1_set_duty
    <2>4. (\A i \in 1 .. Len(fifo) : fifo[i].version \in Nat) /\ out.version \in Nat
      BY VersionsAreNat
    <2>5. NotNewer'
      BY <2>1, <2>2, <2>4 DEF NotNewer, TypeOK
    <2>6. QED
      BY <1>1, <2>1, <2>3, <2>5 DEF NeverBack, NothingShown, pwm1_set_duty
  <1>2. CASE pc = "sample"
    <2>1. pwm1_set_sample(Entry(bl_dev, PWMPR)) /\ UNCHANGED <<out, bl_dev>>
      BY <1>2 DEF pwm1_set_duty
    <2>2. Entry(bl_dev, PWMPR) \in Samples /\ Entry(bl_dev, PWMPR).version = bl_dev.version
      BY EntryType DEF TypeOK
    <2>3. /\ fifo' \in Seq(Samples) /\ Len(fifo') <= FifoDepth
          /\ NeverBack' /\ NotNewer'
      BY <2>1, <2>2, PushPreserves
    <2>4. TypeOK'
      BY <1>2, <2>1, <2>3 DEF TypeOK, pwm1_set_duty
    <2>5. QED
      BY <1>2, <2>3, <2>4 DEF NothingShown, pwm1_set_duty
  <1>3. QED
    BY <1>1, <1>2 DEF pwm1_set_duty

-----------------------------------------------------------------------------
LEMMA HandlerPreserves == ASSUME IInv, pwm1_irq_handler PROVE IInv'
  <1> USE DEF IInv
  <1>1. pwm1_set_sample(Entry(bl_dev, PWMPR)) /\ UNCHANGED <<out, bl_dev>>
    BY DEF pwm1_irq_handler
  <1>2. Entry(bl_dev, PWMPR) \in Samples /\ Entry(bl_dev, PWMPR).version = bl_dev.version
    BY EntryType DEF TypeOK
  <1>3. /\ fifo' \in Seq(Samples) /\ Len(fifo') <= FifoDepth
        /\ NeverBack' /\ NotNewer'
    BY <1>1, <1>2, PushPreserves
  <1>4. TypeOK'
    BY <1>3, Zenon DEF TypeOK, pwm1_irq_handler
  <1>5. QED
    BY <1>3, <1>4 DEF NothingShown, pwm1_irq_handler

\* Taking the oldest sample keeps the order of the others.
LEMMA PeriodPreserves == ASSUME IInv, Period PROVE IInv'
  <1> USE BacklightAssumption DEF IInv
  <1>1. FE' \in BOOLEAN
    BY DEF Period
  <1>2. CASE fifo = <<>>
    BY <1>1, <1>2 DEF Period, TypeOK, NeverBack, NotNewer, NothingShown
  <1>3. CASE fifo # <<>>
    <2>1. out' = Head(fifo) /\ fifo' = Tail(fifo) /\ bl_dev' = bl_dev
      BY <1>3 DEF Period
    <2>2. /\ out' = fifo[1] /\ out' \in Samples
          /\ fifo' \in Seq(Samples) /\ Len(fifo') = Len(fifo) - 1 /\ Len(fifo) \in Nat \ {0}
          /\ \A i \in 1 .. Len(fifo') : fifo'[i] = fifo[i + 1]
      BY <1>3, <2>1 DEF TypeOK
    <2>3. TypeOK'
      BY <1>1, <2>2 DEF TypeOK, Period
    <2>4. NeverBack' /\ NotNewer'
      BY <2>1, <2>2 DEF NeverBack, NotNewer
    <2>5. QED
      BY <2>3, <2>4 DEF NothingShown, Period
  <1>4. QED
    BY <1>2, <1>3

LEMMA FlagAndKeyPreserve == ASSUME IInv, StillLow \/ Key PROVE IInv'
  <1>1. UNCHANGED <<pc, duty, bl_dev, PWMPR, EN, irqOn, fifo, out>>
    BY DEF StillLow, Key
  <1>2. FE' \in BOOLEAN /\ keyDown' \in BOOLEAN
    BY Zenon DEF StillLow, Key, IInv, TypeOK
  <1>3. steps' \in Nat
    BY DEF StillLow, Key, IInv, TypeOK
  <1>4. QED
    BY <1>1, <1>2, <1>3 DEF IInv, TypeOK, NeverBack, NotNewer, NothingShown

\* IInv is an inductive invariant of main, the handler and the PWM together.
THEOREM Inductive == Spec => []IInv
  <1>1. IInv /\ [Next]_vars => IInv'
    <2> SUFFICES ASSUME IInv, [Next]_vars PROVE IInv'
      OBVIOUS
    <2>1. CASE backlight_init
      BY <2>1, BacklightInitPreserves
    <2>2. CASE pwm1_set_duty
      BY <2>2, SetDutyPreserves
    <2>3. CASE enable_irq \/ pwm1_enable \/ default_duty \/ key_get_val
      BY <2>3, QuietPreserves
    <2>4. CASE pwm1_irq_handler
      BY <2>4, HandlerPreserves
    <2>5. CASE Period
      BY <2>5, PeriodPreserves
    <2>6. CASE StillLow \/ Key
      BY <2>6, FlagAndKeyPreserve
    <2>7. CASE UNCHANGED vars
      BY <2>7 DEF vars, IInv, TypeOK, NeverBack, NotNewer, NothingShown
    <2>8. QED
      BY <2>1, <2>2, <2>3, <2>4, <2>5, <2>6, <2>7 DEF Next, Main
  <1>2. QED
    BY <1>1, InitEstablishes, PTL DEF Spec

\* The type invariant of pwm.c and of main's duty: in particular the duty
\* stays within 0 .. 100 and the FIFO within its depth.
THEOREM TypeCorrect == Spec => []TypeOK
  BY Inductive, PTL DEF IInv

\* Whenever pwm1_irq_handler interrupts main's pwm1_set_duty, no sample of an
\* earlier duty follows one of a later duty.
THEOREM BrightnessNeverBack == Spec => []NeverBack
  BY Inductive, PTL DEF IInv
=============================================================================
