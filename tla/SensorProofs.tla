---------------------------- MODULE SensorProofs ----------------------------
(***************************************************************************)
(* The inductive invariants of the two sensors and their drivers, for      *)
(* every measurement and any number of transfers and accesses that go      *)
(* wrong. BoardProofs concludes from them what the mains of the stages 17  *)
(* and 18 show.                                                            *)
(***************************************************************************)
EXTENDS Ap3216c, Icm20608, SequenceTheorems, TLAPS

-----------------------------------------------------------------------------
(* The light sensor: when main says that it is ready it is on, and a       *)
(* reading that nothing disturbed is what it measured.                     *)

ApTypes ==
  /\ sensor \in [mode : {0, 3}, busy : BOOLEAN, sample : Samples]
  /\ ap \in [pc : {"reset", "wait", "on", "check", "read", "show", "shown"},
             bytes : Seq(Nat), clean : BOOLEAN]

\* A transfer that is under way is the one the driver's step asks for.
AskedInv == active => ap.pc \in {"reset", "on", "check", "read"} /\ request = Wanted

\* The reset is over when the sensor is switched on; the check finds whether
\* it has been.
ReadyInv ==
  /\ ap.pc \notin {"reset", "wait"} => ~sensor.busy
  /\ ap.pc \in {"read", "show", "shown"} => sensor.mode = 3

\* The bytes that have been read are the registers, if nothing went wrong.
BytesInv ==
  /\ CASE ap.pc = "read" -> Len(ap.bytes) <= 5
       [] ap.pc \in {"show", "shown"} -> Len(ap.bytes) = 6
       [] OTHER -> Len(ap.bytes) = 0
  /\ ap.clean => \A k \in 1 .. Len(ap.bytes) : ap.bytes[k] = DataRegister(sensor.sample, 9 + k)

ApInv == ApTypes /\ AskedInv /\ ReadyInv /\ BytesInv

LEMMA ApInitInv == ApInit => ApInv
<1> SUFFICES ASSUME ApInit PROVE ApInv
  OBVIOUS
<1>1. /\ ap = [pc |-> "reset", bytes |-> <<>>, clean |-> TRUE] /\ active = FALSE
      /\ sensor \in [mode : {0, 3}, busy : {FALSE}, sample : Samples]
  BY Zenon DEF ApInit, Bus!Init
<1>2. ap.pc = "reset" /\ ap.bytes = <<>> /\ Len(ap.bytes) = 0
  BY <1>1
<1>3. ApTypes
  <2>1. TRUE \in BOOLEAN /\ <<>> \in Seq(Nat)
    OBVIOUS
  <2>2. QED
    BY <1>1, <2>1, Zenon DEF ApTypes
<1>4. AskedInv /\ ReadyInv /\ BytesInv
  BY <1>1, <1>2 DEF AskedInv, ReadyInv, BytesInv
<1>5. QED
  BY <1>3, <1>4 DEF ApInv

LEMMA ApCallInv == ASSUME ApInv, ApCall PROVE ApInv'
BY DEF ApCall, ApInv, ApTypes, AskedInv, ReadyInv, BytesInv, Wanted

LEMMA ApWaitInv == ASSUME ApInv, ApWait PROVE ApInv'
BY Zenon DEF ApWait, ApInv, ApTypes, AskedInv, ReadyInv, BytesInv

LEMMA ApShowInv == ASSUME ApInv, ApShow PROVE ApInv'
BY DEF ApShow, ApInv, ApTypes, AskedInv, ReadyInv, BytesInv

LEMMA ApAgainInv == ASSUME ApInv, ApAgain PROVE ApInv'
<1>1. /\ ap.pc = "shown" /\ ap'.pc = "read" /\ ap'.bytes = <<>> /\ Len(ap'.bytes) = 0
      /\ sensor' = sensor /\ active' = active
  BY DEF ApAgain, ApInv, ApTypes
<1>2. ApTypes'
  <2>1. ap' \in [pc : {"read"}, bytes : {<<>>}, clean : {TRUE}]
    BY Zenon DEF ApAgain, ApInv, ApTypes
  <2>2. <<>> \in Seq(Nat)
    OBVIOUS
  <2>3. QED
    BY <1>1, <2>1, <2>2, Zenon DEF ApInv, ApTypes
<1>3. AskedInv' /\ ReadyInv' /\ BytesInv'
  BY <1>1 DEF ApInv, AskedInv, ReadyInv, BytesInv
<1>4. QED
  BY <1>2, <1>3 DEF ApInv

LEMMA MeasureInv == ASSUME ApInv, Measure PROVE ApInv'
BY DEF Measure, ApInv, ApTypes, AskedInv, ReadyInv, BytesInv, Wanted

\* A measurement is made of numbers.
LEMMA SampleParts ==
  ASSUME NEW s \in Samples
  PROVE  /\ s.ir \in Nat /\ s.ir_of \in {0, 1} /\ s.als \in Nat
         /\ s.ps \in Nat /\ s.ps < 1024 /\ s.ps_of \in {0, 1}
BY ApConstants DEF Below

\* What a transfer reads.
LEMMA RegisterIsNat ==
  ASSUME NEW s \in Samples, NEW r \in 10 .. 15
  PROVE  DataRegister(s, r) \in Nat
<1>1. /\ s.ir \in Nat /\ s.ir_of \in {0, 1} /\ s.als \in Nat
      /\ s.ps \in Nat /\ s.ps < 1024 /\ s.ps_of \in {0, 1}
  BY SampleParts
<1>2. CASE r \in {10, 11}
  BY <1>1, <1>2 DEF DataRegister
<1>3. CASE r \in {12, 13}
  BY <1>1, <1>3 DEF DataRegister
<1>4. CASE r \in {14, 15}
  BY <1>1, <1>4 DEF DataRegister
<1>5. QED
  BY <1>2, <1>3, <1>4

LEMMA ApReturnInv == ASSUME ApInv, ApReturn PROVE ApInv'
<1> DEFINE good == ret' = "OK" /\ (request.dir = 0 => sent' = 1)
<1>1. active /\ active' = FALSE /\ request' = request /\ request = Wanted
  BY DEF ApReturn, Bus!Return, ApInv, AskedInv
<1>2. AskedInv'
  BY <1>1 DEF AskedInv
<1>3. CASE ap.pc = "reset"
  <2>1. ap' = [ap EXCEPT !.pc = "wait"] /\ sensor' \in {Taken, sensor}
    BY <1>3 DEF ApReturn, AfterReset
  <2>2. request.value = 4
    BY <1>1, <1>3 DEF Wanted
  <2>3. sensor' \in [mode : {0, 3}, busy : BOOLEAN, sample : Samples] /\ sensor'.sample = sensor.sample
    BY <2>1, <2>2, Zenon DEF Taken, ApInv, ApTypes
  <2>4. ApTypes' /\ ap'.pc = "wait" /\ ap'.bytes = ap.bytes /\ ap'.clean = ap.clean
    BY <2>1, <2>3 DEF ApInv, ApTypes
  <2>5. ReadyInv' /\ BytesInv'
    BY <1>3, <2>3, <2>4 DEF ApInv, ReadyInv, BytesInv
  <2>6. QED
    BY <1>2, <2>4, <2>5 DEF ApInv
<1>4. CASE ap.pc = "on"
  <2>1. ap' = [ap EXCEPT !.pc = "check"] /\ sensor' \in {Taken, sensor}
    BY <1>4 DEF ApReturn
  <2>2. request.value = 3 /\ ~sensor.busy
    BY <1>1, <1>4 DEF Wanted, ApInv, ReadyInv
  <2>3. /\ sensor' \in [mode : {0, 3}, busy : BOOLEAN, sample : Samples]
        /\ sensor'.sample = sensor.sample /\ ~sensor'.busy
    BY <2>1, <2>2 DEF Taken, ApInv, ApTypes
  <2>4. ApTypes' /\ ap'.pc = "check" /\ ap'.bytes = ap.bytes /\ ap'.clean = ap.clean
    BY <2>1, <2>3 DEF ApInv, ApTypes
  <2>5. ReadyInv' /\ BytesInv'
    BY <1>4, <2>3, <2>4 DEF ApInv, ReadyInv, BytesInv
  <2>6. QED
    BY <1>2, <2>4, <2>5 DEF ApInv
<1>5. CASE ap.pc = "check"
  <2>1. ap' = [ap EXCEPT !.pc = Checked(Got)] /\ sensor' = sensor
    BY <1>5 DEF ApReturn
  <2>2. Got = 3 => sensor.mode = 3
    BY <1>1, <1>5 DEF Got, Wanted
  <2>3. ApTypes' /\ ap'.pc = Checked(Got) /\ ap'.bytes = ap.bytes /\ ap'.clean = ap.clean
    BY <2>1 DEF ApInv, ApTypes, Checked
  <2>4. ReadyInv'
    BY <1>5, <2>1, <2>2, <2>3 DEF ApInv, ReadyInv, Checked
  <2>5. BytesInv'
    BY <1>5, <2>1, <2>3 DEF ApInv, BytesInv, Checked
  <2>6. QED
    BY <1>2, <2>3, <2>4, <2>5 DEF ApInv
<1>6. CASE ap.pc = "read"
  <2>1. /\ ap' = [ap EXCEPT !.bytes = Append(@, Got), !.clean = @ /\ good,
                            !.pc = IF Len(ap.bytes) = 5 THEN "show" ELSE "read"]
        /\ sensor' = sensor
    BY <1>6 DEF ApReturn
  <2>2. ap.bytes \in Seq(Nat) /\ Len(ap.bytes) \in Nat /\ Len(ap.bytes) <= 5 /\ sensor.sample \in Samples
    <3>1. ap.bytes \in Seq(Nat) /\ sensor.sample \in Samples
      BY DEF ApInv, ApTypes
    <3>2. Len(ap.bytes) <= 5
      BY <1>6 DEF ApInv, BytesInv
    <3>3. QED
      BY <3>1, <3>2, LenProperties
  <2>3. request.reg = 10 + Len(ap.bytes)
    BY <1>1, <1>6 DEF Wanted, IRDATALOW
  <2>4. ret' = "OK" => Got = DataRegister(sensor.sample, 10 + Len(ap.bytes))
    BY <2>2, <2>3 DEF Got, SYSTEMCONG
  <2>5. Got \in Nat
    <3>1. DataRegister(sensor.sample, 10 + Len(ap.bytes)) \in Nat
      <4>1. PICK r \in 10 .. 15 : r = 10 + Len(ap.bytes)
        BY <2>2
      <4>2. DataRegister(sensor.sample, r) \in Nat
        BY <2>2, RegisterIsNat
      <4>3. QED
        BY <4>1, <4>2, Zenon
    <3>2. ret' # "OK" => Got = 0
      BY DEF Got
    <3>3. QED
      BY <2>4, <3>1, <3>2
  <2>6. PICK b, g : b = ap'.bytes /\ g = Got /\ b = Append(ap.bytes, g)
    BY <2>1, Zenon DEF ApInv, ApTypes
  <2>7. /\ b \in Seq(Nat) /\ Len(b) = Len(ap.bytes) + 1 /\ b[Len(ap.bytes) + 1] = g
        /\ \A k \in 1 .. Len(ap.bytes) : b[k] = ap.bytes[k]
    BY <2>2, <2>5, <2>6, AppendProperties
  <2>8. /\ ap'.pc = IF Len(ap.bytes) = 5 THEN "show" ELSE "read"
        /\ ap'.clean = (ap.clean /\ good)
    BY <2>1 DEF ApInv, ApTypes
  <2>9. ApTypes'
    <3>1. (ap.clean /\ good) \in BOOLEAN
      BY Zenon
    <3>2. Append(ap.bytes, Got) \in Seq(Nat)
      BY <2>6, <2>7, Zenon
    <3>3. QED
      BY <2>1, <3>1, <3>2, Zenon DEF ApInv, ApTypes
  <2>10. ReadyInv'
    BY <1>6, <2>1, <2>8 DEF ApInv, ReadyInv
  <2>11. BytesInv'
    <3>1. ap'.clean => \A k \in 1 .. Len(b) : b[k] = DataRegister(sensor.sample, 9 + k)
      <4> SUFFICES ASSUME ap'.clean, NEW k \in 1 .. Len(b) PROVE b[k] = DataRegister(sensor.sample, 9 + k)
        OBVIOUS
      <4>1. ap.clean /\ good
        BY <2>8, Zenon
      <4>2. CASE k = Len(ap.bytes) + 1
        BY <2>2, <2>4, <2>6, <2>7, <4>1, <4>2
      <4>3. CASE k \in 1 .. Len(ap.bytes)
        BY <2>7, <4>1, <4>3 DEF ApInv, BytesInv
      <4>4. QED
        BY <2>2, <2>7, <4>2, <4>3
    <3>2. PICK n \in Nat : n <= 5 /\ Len(ap'.bytes) = n + 1 /\ ap'.pc = IF n = 5 THEN "show" ELSE "read"
      BY <2>2, <2>6, <2>7, <2>8, Zenon
    <3>3. CASE ap'.pc = "read"
      <4>1. n # 5
        BY <3>2, <3>3
      <4>2. Len(ap'.bytes) <= 5
        BY <3>2, <4>1
      <4>3. QED
        BY <2>1, <2>6, <3>1, <3>3, <4>2 DEF BytesInv
    <3>4. CASE ap'.pc = "show"
      <4>1. n = 5
        BY <3>2, <3>4
      <4>2. Len(ap'.bytes) = 6
        BY <3>2, <4>1
      <4>3. QED
        BY <2>1, <2>6, <3>1, <3>4, <4>2 DEF BytesInv
    <3>5. QED
      BY <2>8, <3>3, <3>4
  <2>12. QED
    BY <1>2, <2>9, <2>10, <2>11 DEF ApInv
<1>7. ap.pc \in {"reset", "on", "check", "read"}
  BY <1>1 DEF ApInv, AskedInv
<1>8. QED
  BY <1>3, <1>4, <1>5, <1>6, <1>7

LEMMA ApNextInv ==
  ASSUME ApInv, ApCall \/ ApReturn \/ ApWait \/ ApShow \/ ApAgain \/ Measure \/ UNCHANGED apVars
  PROVE  ApInv'
<1>1. CASE UNCHANGED apVars
  BY <1>1 DEF ApInv, ApTypes, AskedInv, ReadyInv, BytesInv, Wanted, apVars
<1>2. QED
  BY ApCallInv, ApReturnInv, ApWaitInv, ApShowInv, ApAgainInv, MeasureInv, <1>1

\* The valid bit of the proximity registers, and the bits beside it.
LEMMA ProximityBits ==
  ASSUME NEW q \in Nat, q < 64, NEW r \in Nat, r < 16
  PROVE  Bit(r, 64) = 0 /\ Bit(64 + r, 64) = 1 /\ q % 64 = q /\ r % 16 = r
<1>1. r \div 64 = 0 /\ (64 + r) \div 64 = 1
  OBVIOUS
<1>2. q % 64 = q /\ r % 16 = r /\ 0 % 2 = 0 /\ 1 % 2 = 1
  OBVIOUS
<1>3. QED
  BY <1>1, <1>2 DEF Bit

\* The end of ap3216c_read_data undoes what the registers do to a measurement.
LEMMA DecodeRight ==
  ASSUME NEW s \in Samples, NEW b, \A k \in 1 .. 6 : b[k] = DataRegister(s, 9 + k)
  PROVE  Decode(b) = [ir |-> (1 - s.ir_of) * s.ir, ps |-> (1 - s.ps_of) * s.ps, als |-> s.als]
<1>1. /\ s.ir \in Nat /\ s.ir_of \in {0, 1} /\ s.als \in Nat
      /\ s.ps \in Nat /\ s.ps < 1024 /\ s.ps_of \in {0, 1}
  BY SampleParts
<1>2. /\ b[1] = s.ir_of * 128 + (s.ir % 4) /\ b[2] = s.ir \div 4
      /\ b[3] = s.als % 256 /\ b[4] = s.als \div 256
      /\ b[5] = s.ps_of * 64 + (s.ps % 16) /\ b[6] = s.ps_of * 64 + s.ps \div 16
  BY DEF DataRegister
<1>3. b[4] * 256 + b[3] = s.als
  BY <1>1, <1>2
<1>4. (IF Bit(b[1], 128) = 1 THEN 0 ELSE b[2] * 4 + (b[1] % 4)) = (1 - s.ir_of) * s.ir
  <2>1. CASE s.ir_of = 0
    BY <1>1, <1>2, <2>1 DEF Bit
  <2>2. CASE s.ir_of = 1
    BY <1>1, <1>2, <2>2 DEF Bit
  <2>3. QED
    BY <1>1, <2>1, <2>2
<1>5. (IF Bit(b[5], 64) = 1 THEN 0 ELSE (b[6] % 64) * 16 + (b[5] % 16)) = (1 - s.ps_of) * s.ps
  <2>1. PICK q \in Nat, r \in Nat :
          q = s.ps \div 16 /\ r = s.ps % 16 /\ q < 64 /\ r < 16 /\ q * 16 + r = s.ps
    BY <1>1
  <2>2. b[5] = s.ps_of * 64 + r /\ b[6] = s.ps_of * 64 + q
    BY <1>2, <2>1
  <2>3. CASE s.ps_of = 0
    <3>1. b[5] = r /\ b[6] = q
      BY <2>1, <2>2, <2>3
    <3>2. Bit(r, 64) = 0 /\ q % 64 = q /\ r % 16 = r
      BY <2>1, ProximityBits, Zenon
    <3>3. QED
      BY <2>1, <2>3, <3>1, <3>2
  <2>4. CASE s.ps_of = 1
    <3>1. b[5] = 64 + r
      BY <2>1, <2>2, <2>4
    <3>2. Bit(64 + r, 64) = 1
      BY <2>1, ProximityBits, Zenon
    <3>3. (1 - s.ps_of) * s.ps = 0
      BY <1>1, <2>4
    <3>4. QED
      BY <3>1, <3>2, <3>3
  <2>5. QED
    BY <1>1, <2>3, <2>4
<1>6. QED
  BY <1>3, <1>4, <1>5 DEF Decode

LEMMA ApSetUp == ApInv => ApReady
BY DEF ApInv, ReadyInv, ApReady

LEMMA ApShown == ApInv => ReadingRight
<1> SUFFICES ASSUME ApInv, ap.pc \in {"show", "shown"}, ap.clean PROVE ReadingRight
  BY DEF ReadingRight
<1>1. Len(ap.bytes) = 6 /\ \A k \in 1 .. Len(ap.bytes) : ap.bytes[k] = DataRegister(sensor.sample, 9 + k)
  BY DEF ApInv, BytesInv
<1>2. \A k \in 1 .. 6 : ap.bytes[k] = DataRegister(sensor.sample, 9 + k)
  BY <1>1
<1>3. sensor.sample \in Samples
  BY DEF ApInv, ApTypes
<1>4. QED
  BY <1>2, <1>3, DecodeRight DEF ReadingRight

-----------------------------------------------------------------------------
(* The motion sensor: a call of icm20608_init that loses no access sets it *)
(* up, and a reading is scaled by the range it really has.                 *)

\* The accesses of icm20608_init by register and value, and the registers
\* that the bytes of a reading come from.
InitReg == <<107, 107, 117, 25, 27, 28, 26, 29, 108, 30, 35>>
InitVal == <<128, 1, 255, 0, 24, 24, 4, 4, 0, 0, 0>>
DataReg(m) == IF m <= 14 THEN 58 + m ELSE IF m = 15 THEN 27 ELSE 28

\* The access under way: its first byte, the register, and its length.
First == List[acc.k][1]
Register == IF First >= 128 THEN First - 128 ELSE First

IcmRecord == icm \in [dev : {icm.dev}, lost : Nat, clean : BOOLEAN]
IcmTypes ==
  /\ chip \in [selected : BOOLEAN, addr : Addresses \cup {NoAddr}, rd : BOOLEAN, resetting : BOOLEAN,
               motion : Motions, regs : [Addresses -> Nat]]
  /\ acc \in [list : {"init", "data"}, k : Nat, pc : {"select", "bytes", "id", "end", "shown"},
              sent : Nat, rx : Seq(Nat)]
  /\ IcmRecord

PlaceInv ==
  /\ acc.k >= 1 /\ acc.k <= Len(List)
  /\ acc.pc = "bytes" => acc.sent <= Len(List[acc.k])
  /\ acc.pc = "id" => acc.list = "init" /\ acc.k = 4
  /\ acc.pc = "end" => acc.k = Len(List)
  /\ acc.pc = "shown" => acc.list = "data" /\ acc.k = 3

\* The chip sees an access from its first byte to its last, or nothing of it;
\* between accesses it is selected only before the first of icm20608_init. It
\* is being reset only until the delay behind the first.
FrameInv ==
  /\ acc.pc # "bytes" /\ chip.selected =>
       acc.pc = "select" /\ acc.list = "init" /\ acc.k = 1 /\ chip.addr = NoAddr
  /\ acc.pc = "bytes" /\ icm.clean => chip.selected
  /\ acc.pc = "bytes" /\ chip.selected =>
       IF acc.sent = 0 THEN chip.addr = NoAddr
       ELSE chip.addr = Register + acc.sent - 1 /\ (chip.rd <=> First >= 128)
  /\ chip.resetting => acc.list = "init" /\ acc.k = 1 /\ acc.pc = "bytes" /\ acc.sent = 2

\* The registers that have been written in this call.
Passed(j) ==
  j < acc.k \/ (j = acc.k /\ (acc.pc = "end" \/ (acc.pc = "bytes" /\ acc.sent = 2)))
ConfigInv ==
  acc.list = "init" /\ icm.clean =>
    \A j \in 2 .. 11 : j # 3 /\ Passed(j) => chip.regs[InitReg[j]] = InitVal[j]

\* The bytes that have been read in this call, and what is made of them.
ReadSoFar ==
  (CASE acc.k = 1 -> 0 [] acc.k = 2 -> 14 [] OTHER -> 15)
    + (IF acc.pc = "bytes" /\ acc.sent > 0 THEN acc.sent - 1
       ELSE IF acc.pc \in {"end", "shown"} THEN 1 ELSE 0)
RxInv ==
  acc.list = "data" =>
    /\ Len(acc.rx) = ReadSoFar
    /\ icm.clean => \A m \in 1 .. Len(acc.rx) : acc.rx[m] = chip.regs[DataReg(m)]

Word(hi, lo) == (hi * 256 + lo) % 65536

\* The readings are the bytes of the data registers, and these the measurement.
ShownInv ==
  acc.pc = "shown" /\ icm.clean =>
    /\ \A i \in 1 .. 7 :
         icm.dev.adc[i] = Word(chip.regs[57 + 2 * i], chip.regs[58 + 2 * i])
    /\ icm.dev.gyroscale = GyroScale(chip.regs[ICM20.GYRO_CONFIG])
    /\ icm.dev.accelscale = AccelScale(chip.regs[ICM20.ACCEL_CONFIG])
HoldsMotion(regs, motion) ==
  \A i \in 1 .. 7 : regs[57 + 2 * i] = High(motion[i]) /\ regs[58 + 2 * i] = Low(motion[i])
MotionInv == HoldsMotion(chip.regs, chip.motion)

IcmInv ==
  IcmTypes /\ PlaceInv /\ FrameInv /\ ConfigInv /\ RxInv /\ ShownInv /\ MotionInv

LEMMA ReadBytes ==
  ASSUME NEW reg \in Nat, NEW len \in Nat
  PROVE  /\ Len(Read(reg, len)) = len + 1 /\ Read(reg, len)[1] = 128 + reg
         /\ \A i \in 2 .. len + 1 : Read(reg, len)[i] = 255
<1> DEFINE ones == [i \in 1 .. len |-> 255]
<1>1. <<128 + reg>> \in Seq(Nat) /\ Len(<<128 + reg>>) = 1
  OBVIOUS
<1>2. ones \in Seq(Nat) /\ Len(ones) = len
  OBVIOUS
<1>3. PICK s : s = <<128 + reg>> \o ones
  BY Zenon
<1>4. Len(s) = len + 1 /\ s[1] = 128 + reg /\ \A i \in 2 .. len + 1 : s[i] = ones[i - 1]
  BY <1>1, <1>2, <1>3
<1>5. \A i \in 2 .. len + 1 : ones[i - 1] = 255
  OBVIOUS
<1>6. s = Read(reg, len)
  BY <1>3 DEF Read
<1>7. QED
  BY <1>4, <1>5, <1>6

LEMMA InitLength == Len(InitList) = 11
BY DEF InitList

LEMMA InitBytes ==
  ASSUME NEW j \in 1 .. 11
  PROVE  /\ Len(InitList[j]) = 2 /\ InitList[j][2] = InitVal[j]
         /\ InitList[j][1] = IF j = 3 THEN 128 + InitReg[j] ELSE InitReg[j]
<1>1. /\ \A r \in Nat, v \in Nat : Len(Write(r, v)) = 2 /\ Write(r, v)[1] = r % 128 /\ Write(r, v)[2] = v
      /\ Len(Read(117, 1)) = 2 /\ Read(117, 1)[1] = 128 + 117 /\ Read(117, 1)[2] = 255
  <2>1. PICK reg \in Nat, len \in Nat : reg = 117 /\ len = 1
    OBVIOUS
  <2>2. /\ Len(Read(reg, len)) = len + 1 /\ Read(reg, len)[1] = 128 + reg
        /\ \A i \in 2 .. len + 1 : Read(reg, len)[i] = 255
    BY ReadBytes
  <2>3. QED
    BY <2>1, <2>2 DEF Write
<1>2. InitList[3] = Read(117, 1)
  BY DEF InitList, ICM20
<1>3. j # 3 => InitList[j] = Write(InitReg[j], InitVal[j])
  BY DEF InitList, InitReg, InitVal, ICM20
<1>4. InitReg[j] \in Nat /\ InitReg[j] < 128 /\ InitVal[j] \in Nat /\ InitReg[j] % 128 = InitReg[j]
  BY DEF InitReg, InitVal
<1>5. InitReg[3] = 117 /\ InitVal[3] = 255
  BY DEF InitReg, InitVal
<1>6. QED
  BY <1>1, <1>2, <1>3, <1>4, <1>5

LEMMA DataBytes ==
  /\ Len(DataList) = 3
  /\ Len(DataList[1]) = 15 /\ Len(DataList[2]) = 2 /\ Len(DataList[3]) = 2
  /\ DataList[1][1] = 128 + 59 /\ DataList[2][1] = 128 + 27 /\ DataList[3][1] = 128 + 28
<1>1. Len(DataList) = 3
  BY DEF DataList
<1>2. DataList[1] = Read(59, 14) /\ DataList[2] = Read(27, 1) /\ DataList[3] = Read(28, 1)
  BY DEF DataList, ICM20
<1>3. PICK r1 \in Nat, r2 \in Nat, r3 \in Nat, l1 \in Nat, l2 \in Nat :
        r1 = 59 /\ r2 = 27 /\ r3 = 28 /\ l1 = 14 /\ l2 = 1
  OBVIOUS
<1>4. Len(Read(r1, l1)) = l1 + 1 /\ Read(r1, l1)[1] = 128 + r1
  BY ReadBytes
<1>5. Len(Read(r2, l2)) = l2 + 1 /\ Read(r2, l2)[1] = 128 + r2
  BY ReadBytes
<1>6. Len(Read(r3, l2)) = l2 + 1 /\ Read(r3, l2)[1] = 128 + r3
  BY ReadBytes
<1>7. QED
  BY <1>1, <1>2, <1>3, <1>4, <1>5, <1>6

LEMMA AddressIs == \A n \in Nat : n < 128 => n \in Addresses
BY DEF Addresses

LEMMA AddressesAre == \A n \in Addresses : n \in Nat /\ n < 128
BY DEF Addresses

LEMMA InitRange ==
  ASSUME NEW j \in 1 .. 11
  PROVE  /\ InitReg[j] \in Nat /\ InitReg[j] < 127 /\ InitVal[j] \in Nat
         /\ j \notin {1, 3} => InitVal[j] < 128
         /\ \A i \in 2 .. 11 : i # j /\ j # 1 => InitReg[i] # InitReg[j]
BY DEF InitReg, InitVal

\* The access under way in icm20608_init, and in icm20608_get_data.
LEMMA InitAccess ==
  ASSUME acc.list = "init", acc.k \in 1 .. 11
  PROVE  /\ Len(List) = 11 /\ Len(List[acc.k]) = 2
         /\ Register = InitReg[acc.k] /\ (First >= 128 <=> acc.k = 3) /\ First % 128 = Register
         /\ List[acc.k][2] = InitVal[acc.k] /\ First \in Nat
<1>1. List = InitList
  BY DEF List
<1>2. Len(List) = 11
  BY <1>1, InitLength
<1>3. /\ Len(InitList[acc.k]) = 2 /\ InitList[acc.k][2] = InitVal[acc.k]
      /\ InitList[acc.k][1] = IF acc.k = 3 THEN 128 + InitReg[acc.k] ELSE InitReg[acc.k]
  BY InitBytes
<1>4. InitReg[acc.k] \in Nat /\ InitReg[acc.k] < 127
  BY InitRange
<1>5. First = IF acc.k = 3 THEN 128 + InitReg[acc.k] ELSE InitReg[acc.k]
  BY <1>1, <1>3 DEF First
<1>6. QED
  BY <1>1, <1>2, <1>3, <1>4, <1>5 DEF Register

LEMMA DataAccess ==
  ASSUME acc.list = "data", acc.k \in 1 .. 3
  PROVE  /\ Len(List) = 3 /\ Len(List[acc.k]) = IF acc.k = 1 THEN 15 ELSE 2
         /\ Register = IF acc.k = 1 THEN 59 ELSE IF acc.k = 2 THEN 27 ELSE 28
         /\ First >= 128 /\ First % 128 = Register /\ First \in Nat
<1>1. List = DataList
  BY DEF List
<1>2. First = IF acc.k = 1 THEN 187 ELSE IF acc.k = 2 THEN 155 ELSE 156
  BY <1>1, DataBytes DEF First
<1>3. Len(List) = 3 /\ Len(List[acc.k]) = IF acc.k = 1 THEN 15 ELSE 2
  <2>1. Len(List) = 3
    BY <1>1, DataBytes, Zenon
  <2>2. acc.k = 1 \/ acc.k = 2 \/ acc.k = 3
    OBVIOUS
  <2>3. acc.k = 1 => Len(List[acc.k]) = 15
    BY <1>1, DataBytes, Zenon
  <2>4. acc.k = 2 => Len(List[acc.k]) = 2
    BY <1>1, DataBytes, Zenon
  <2>5. acc.k = 3 => Len(List[acc.k]) = 2
    BY <1>1, DataBytes, Zenon
  <2>6. QED
    BY <2>1, <2>2, <2>3, <2>4, <2>5, Zenon
<1>4. /\ Register = IF acc.k = 1 THEN 59 ELSE IF acc.k = 2 THEN 27 ELSE 28
      /\ First >= 128 /\ First % 128 = Register /\ First \in Nat
  BY <1>2 DEF Register
<1>5. QED
  BY <1>3, <1>4

\* What the steps need to know of the access under way.
LEMMA AccessIs ==
  ASSUME IcmTypes, PlaceInv
  PROVE  /\ Len(List) = IF acc.list = "init" THEN 11 ELSE 3
         /\ acc.k \in 1 .. Len(List)
         /\ Len(List[acc.k]) = IF acc.list = "data" /\ acc.k = 1 THEN 15 ELSE 2
         /\ First \in Nat /\ First % 128 = Register
         /\ Register \in Nat /\ Register + Len(List[acc.k]) < 129
<1>1. Len(List) = IF acc.list = "init" THEN 11 ELSE 3
  BY InitLength, DataBytes, Zenon DEF List, IcmTypes
<1>2. acc.k \in Nat /\ acc.k \in 1 .. Len(List)
  BY <1>1 DEF IcmTypes, PlaceInv
<1>3. CASE acc.list = "init"
  <2>1. acc.k \in 1 .. 11
    BY <1>1, <1>2, <1>3
  <2>2. /\ Len(List[acc.k]) = 2 /\ First \in Nat /\ First % 128 = Register
        /\ Register = InitReg[acc.k] /\ Register \in Nat /\ Register < 127
    BY <1>3, <2>1, InitAccess, InitRange
  <2>3. QED
    BY <1>1, <1>2, <1>3, <2>2
<1>4. CASE acc.list = "data"
  <2>1. acc.k \in 1 .. 3
    BY <1>1, <1>2, <1>4
  <2>2. /\ Len(List[acc.k]) = IF acc.k = 1 THEN 15 ELSE 2
        /\ Register = IF acc.k = 1 THEN 59 ELSE IF acc.k = 2 THEN 27 ELSE 28
        /\ First \in Nat /\ First % 128 = Register
    BY <1>4, <2>1, DataAccess
  <2>3. QED
    BY <1>1, <1>2, <1>4, <2>2
<1>5. QED
  BY <1>3, <1>4 DEF IcmTypes

\* The two bytes of a measurement, and what they make together.
LEMMA Bytes ==
  ASSUME NEW w \in Words
  PROVE  /\ High(w) \in Nat /\ Low(w) \in Nat
         /\ Word(High(w), Low(w)) = Unsigned(w)
<1>1. PICK h \in Nat : h = Unsigned(w) /\ h < 65536
  BY SMT DEF Words, Unsigned
<1>2. Half(w) = h
  BY <1>1, SMT DEF Half, Words, Unsigned
<1>3. h \div 256 \in Nat /\ h % 256 \in Nat /\ (h \div 256) * 256 + (h % 256) = h
  BY SMT
<1>4. h % 65536 = h
  BY <1>1, SMT
<1>5. QED
  BY <1>1, <1>2, <1>3, <1>4, SMT DEF High, Low, Word

\* The registers after a reset.
LEMMA ResetRight ==
  ASSUME NEW id \in Nat, NEW motion \in Motions
  PROVE  /\ ResetRegs(id, motion) \in [Addresses -> Nat]
         /\ HoldsMotion(ResetRegs(id, motion), motion)
<1>1. \A i \in 1 .. 7 : motion[i] \in Words
  BY IcmConstants
<1>2. \A i \in 1 .. 7 : High(motion[i]) \in Nat /\ Low(motion[i]) \in Nat
  BY <1>1, Bytes
<1>3. ASSUME NEW a \in Addresses PROVE ResetRegs(id, motion)[a] \in Nat
  <2>1. a \in Nat /\ a < 128
    BY AddressesAre
  <2>2. CASE a \in 59 .. 72 /\ a % 2 = 1
    <3>1. (a - 57) \div 2 \in 1 .. 7
      BY <2>2
    <3>2. ResetRegs(id, motion)[a] = High(motion[(a - 57) \div 2])
      BY <2>2 DEF ResetRegs, ICM20
    <3>3. QED
      BY <1>2, <3>1, <3>2
  <2>3. CASE a \in 59 .. 72 /\ a % 2 # 1
    <3>1. (a - 58) \div 2 \in 1 .. 7
      BY <2>3
    <3>2. ResetRegs(id, motion)[a] = Low(motion[(a - 58) \div 2])
      BY <2>3 DEF ResetRegs, ICM20
    <3>3. QED
      BY <1>2, <3>1, <3>2
  <2>4. CASE a \notin 59 .. 72
    BY <2>4 DEF ResetRegs, ICM20
  <2>5. QED
    BY <2>2, <2>3, <2>4
<1>4. ASSUME NEW i \in 1 .. 7
      PROVE  /\ ResetRegs(id, motion)[57 + 2 * i] = High(motion[i])
             /\ ResetRegs(id, motion)[58 + 2 * i] = Low(motion[i])
  <2>1. /\ 57 + 2 * i \in 59 .. 72 /\ (57 + 2 * i) % 2 = 1 /\ ((57 + 2 * i) - 57) \div 2 = i
        /\ 58 + 2 * i \in 59 .. 72 /\ (58 + 2 * i) % 2 # 1 /\ ((58 + 2 * i) - 58) \div 2 = i
        /\ 57 + 2 * i \in Nat /\ 57 + 2 * i < 128 /\ 58 + 2 * i \in Nat /\ 58 + 2 * i < 128
    OBVIOUS
  <2>2. 57 + 2 * i \in Addresses /\ 58 + 2 * i \in Addresses
    BY <2>1, AddressIs
  <2>3. QED
    BY <2>1, <2>2 DEF ResetRegs, ICM20
<1>5. ResetRegs(id, motion) = [a \in Addresses |-> ResetRegs(id, motion)[a]]
  BY DEF ResetRegs
<1>6. QED
  BY <1>3, <1>4, <1>5 DEF HoldsMotion

\* A call begins: with the select line low when it is icm20608_init.
LEMMA StartInv ==
  ASSUME IcmTypes, MotionInv, NEW list \in {"init", "data"}, acc' = Start(list),
         chip' \in [selected : BOOLEAN, addr : Addresses \cup {NoAddr}, rd : BOOLEAN,
                    resetting : BOOLEAN, motion : Motions, regs : [Addresses -> Nat]],
         chip'.selected => list = "init" /\ chip'.addr = NoAddr,
         chip'.regs = chip.regs, chip'.motion = chip.motion, ~chip'.resetting, IcmRecord'
  PROVE  IcmInv'
<1>1. /\ acc'.list = list /\ acc'.k = 1 /\ acc'.pc = "select" /\ acc'.sent = 0 /\ acc'.rx = <<>>
  BY DEF Start
<1>2. IcmTypes'
  <2>1. <<>> \in Seq(Nat)
    OBVIOUS
  <2>2. acc' \in [list : {"init", "data"}, k : Nat, pc : {"select", "bytes", "id", "end", "shown"},
                  sent : Nat, rx : Seq(Nat)]
    BY <2>1 DEF Start
  <2>3. QED
    BY <2>2 DEF IcmTypes
<1>3. PlaceInv'
  <2>1. List' = InitList \/ List' = DataList
    BY DEF List
  <2>2. Len(List') = 11 \/ Len(List') = 3
    BY <2>1, InitLength, DataBytes, Zenon
  <2>3. acc'.k >= 1 /\ acc'.k <= Len(List')
    <3>1. acc'.k = 1
      BY <1>1
    <3>2. \A n \in {3, 11} : 1 <= n
      OBVIOUS
    <3>3. 1 <= Len(List')
      BY <2>2, <3>2, Zenon
    <3>4. QED
      BY <3>1, <3>3
  <2>4. acc'.pc \notin {"bytes", "id", "end", "shown"}
    BY <1>1
  <2>5. QED
    BY <2>3, <2>4 DEF PlaceInv
<1>4. FrameInv' /\ ShownInv' /\ MotionInv'
  BY <1>1 DEF FrameInv, ShownInv, MotionInv
<1>5. ConfigInv'
  <2>1. \A j \in 2 .. 11 : ~Passed(j)'
    BY <1>1 DEF Passed
  <2>2. QED
    BY <2>1 DEF ConfigInv
<1>6. RxInv'
  <2>1. Len(acc'.rx) = 0 /\ ReadSoFar' = 0
    BY <1>1 DEF ReadSoFar
  <2>2. QED
    BY <2>1 DEF RxInv
<1>7. QED
  BY <1>2, <1>3, <1>4, <1>5, <1>6 DEF IcmInv

LEMMA CheckIdInv == ASSUME IcmInv, CheckId PROVE IcmInv'
<1>1. IcmTypes /\ MotionInv /\ ~chip.selected /\ ~chip.resetting /\ acc.pc = "id"
  BY DEF CheckId, IcmInv, FrameInv
<1>2. CASE acc.rx[1] \in Ids
  <2>1. /\ acc'.list = "init" /\ acc'.k = 4 /\ acc'.pc = "select" /\ acc'.rx = <<>>
        /\ acc' \in [list : {"init"}, k : {4}, pc : {"select"}, sent : Nat, rx : {<<>>}]
        /\ icm' = icm /\ acc.list = "init" /\ acc.k = 4 /\ chip' = chip
    BY <1>1, <1>2, Zenon DEF CheckId, IcmInv, IcmTypes, PlaceInv
  <2>2. IcmTypes'
    <3>1. <<>> \in Seq(Nat)
      OBVIOUS
    <3>2. QED
      BY <1>1, <2>1, <3>1, Zenon DEF IcmTypes, IcmRecord
  <2>3. PlaceInv'
    <3>1. Len(List') = 11
      BY <2>1, InitLength DEF List
    <3>2. QED
      BY <2>1, <3>1 DEF PlaceInv
  <2>4. FrameInv' /\ ShownInv' /\ RxInv' /\ MotionInv'
    BY <1>1, <2>1 DEF FrameInv, ShownInv, RxInv, MotionInv
  <2>5. ConfigInv'
    <3>1. \A j \in 2 .. 11 : Passed(j)' => Passed(j)
      BY <1>1, <2>1 DEF Passed
    <3>2. QED
      BY <1>1, <2>1, <3>1, Zenon DEF IcmInv, ConfigInv
  <2>6. QED
    BY <2>2, <2>3, <2>4, <2>5 DEF IcmInv
<1>3. CASE acc.rx[1] \notin Ids
  <2>1. acc' = Start("init") /\ IcmRecord' /\ chip' = Selects(chip)
    BY <1>1, <1>3, Zenon DEF CheckId, IcmTypes, IcmRecord
  <2>2. chip.selected = FALSE /\ chip.resetting = FALSE /\ NoAddr \in Addresses \cup {NoAddr}
    BY <1>1 DEF IcmTypes
  <2>3. /\ chip' \in [selected : BOOLEAN, addr : Addresses \cup {NoAddr}, rd : BOOLEAN,
                      resetting : BOOLEAN, motion : Motions, regs : [Addresses -> Nat]]
        /\ chip'.addr = NoAddr /\ chip'.regs = chip.regs /\ chip'.motion = chip.motion
        /\ chip'.resetting = FALSE
    BY <1>1, <2>1, <2>2, Zenon DEF Selects, IcmTypes
  <2>4. QED
    BY <1>1, <2>1, <2>3, StartInv
<1>4. QED
  BY <1>2, <1>3

LEMMA InitEndsInv == ASSUME IcmInv, InitEnds PROVE IcmInv'
<1>1. /\ IcmTypes /\ MotionInv /\ ~chip.selected /\ ~chip.resetting
      /\ chip' = chip /\ acc' = Start("data")
  BY DEF InitEnds, IcmInv, FrameInv
<1>2. IcmRecord'
  BY <1>1, Zenon DEF InitEnds, IcmTypes, IcmRecord
<1>3. QED
  BY <1>1, <1>2, StartInv DEF IcmTypes

LEMMA IcmAgainInv == ASSUME IcmInv, IcmAgain PROVE IcmInv'
<1>1. /\ IcmTypes /\ MotionInv /\ ~chip.selected /\ ~chip.resetting
      /\ chip' = chip /\ acc' = Start("data")
  BY DEF IcmAgain, IcmInv, FrameInv
<1>2. IcmRecord'
  BY <1>1, Zenon DEF IcmAgain, IcmTypes, IcmRecord
<1>3. QED
  BY <1>1, <1>2, StartInv DEF IcmTypes

LEMMA SelectInv == ASSUME IcmInv, Select PROVE IcmInv'
<1> USE DEF IcmInv
<1>1. /\ acc.pc = "select" /\ acc'.pc = "bytes" /\ acc'.sent = 0 /\ acc'.list = acc.list
      /\ acc'.k = acc.k /\ acc'.rx = acc.rx
      /\ acc' \in [list : {"init", "data"}, k : Nat, pc : {"bytes"}, sent : {0}, rx : Seq(Nat)]
  BY Zenon DEF Select, IcmTypes
<1>2. (chip.selected => chip.addr = NoAddr) /\ chip.resetting = FALSE
  <2>1. (chip.selected => chip.addr = NoAddr) /\ ~chip.resetting
    BY <1>1 DEF FrameInv
  <2>2. QED
    BY <2>1 DEF IcmTypes
<1>3. /\ chip'.regs = chip.regs /\ chip'.motion = chip.motion /\ chip'.resetting = chip.resetting
      /\ (icm'.clean => icm.clean /\ chip'.selected)
      /\ (chip'.selected => chip'.addr = NoAddr)
  BY <1>2, Zenon DEF Select, Selects, IcmTypes, IcmRecord
<1>4. IcmTypes'
  <2>1. NoAddr \in Addresses \cup {NoAddr}
    OBVIOUS
  <2>2. chip' \in [selected : BOOLEAN, addr : Addresses \cup {NoAddr}, rd : BOOLEAN,
                   resetting : BOOLEAN, motion : Motions, regs : [Addresses -> Nat]]
    BY <1>2, <2>1, Zenon DEF Select, Selects, IcmTypes
  <2>3. IcmRecord'
    <3>1. CASE icm' = icm
      BY <3>1 DEF IcmTypes, IcmRecord
    <3>2. CASE icm' = [icm EXCEPT !.lost = @ + 1, !.clean = FALSE]
      <4>1. PICK n \in Nat : n = icm.lost + 1
        BY DEF IcmTypes, IcmRecord
      <4>2. icm' = [icm EXCEPT !.lost = n, !.clean = FALSE]
        BY <3>2, <4>1
      <4>3. QED
        BY <4>2, Zenon DEF IcmTypes, IcmRecord
    <3>3. QED
      BY <3>1, <3>2 DEF Select
  <2>4. QED
    BY <1>1, <2>2, <2>3 DEF IcmTypes
<1>5. List' = List
  BY <1>1 DEF List
<1>6. PlaceInv'
  <2>1. Len(List[acc.k]) >= 0
    BY AccessIs
  <2>2. QED
    BY <1>1, <1>5, <2>1 DEF PlaceInv
<1>7. FrameInv' /\ ShownInv' /\ MotionInv'
  BY <1>1, <1>2, <1>3 DEF FrameInv, ShownInv, MotionInv
<1>8. ConfigInv'
  <2>1. \A j \in 2 .. 11 : Passed(j)' => Passed(j)
    BY <1>1 DEF Passed
  <2>2. chip'.regs = chip.regs /\ (icm'.clean => icm.clean) /\ acc'.list = acc.list /\ ConfigInv
    BY <1>1, <1>3, Zenon
  <2>3. QED
    BY <2>1, <2>2, Zenon DEF ConfigInv
<1>9. RxInv'
  <2>1. ReadSoFar' = ReadSoFar
    BY <1>1 DEF ReadSoFar
  <2>2. QED
    BY <1>1, <1>3, <2>1 DEF RxInv
<1>10. QED
  BY <1>4, <1>6, <1>7, <1>8, <1>9

LEMMA DeselectInv == ASSUME IcmInv, Deselect PROVE IcmInv'
<1> USE DEF IcmInv
<1>1. /\ Len(List) = (IF acc.list = "init" THEN 11 ELSE 3) /\ acc.k \in 1 .. Len(List)
      /\ Len(List[acc.k]) = IF acc.list = "data" /\ acc.k = 1 THEN 15 ELSE 2
  BY AccessIs
<1>2. /\ acc.pc = "bytes" /\ acc.sent = Len(List[acc.k]) /\ acc'.sent = acc.sent /\ acc'.list = acc.list
      /\ acc'.k = (IF acc.k = Len(List) THEN acc.k ELSE acc.k + 1) /\ acc'.rx = acc.rx
      /\ acc'.pc = IF acc.list = "init" /\ acc.k = 3 THEN "id"
                   ELSE IF acc.k = Len(List) THEN "end" ELSE "select"
      /\ acc.list \in {"init", "data"}
  BY DEF Deselect, IcmTypes
<1>3. /\ chip'.selected = FALSE /\ chip'.regs = chip.regs /\ icm' = icm
      /\ chip'.motion = chip.motion
      /\ chip'.resetting = (chip.resetting /\ ~(acc.list = "init" /\ acc.k \in Delays))
  BY Zenon DEF Deselect, IcmTypes, CSN
<1>4. ~chip'.resetting
  BY <1>3, Zenon DEF FrameInv, Delays
<1>5. List' = List
  BY <1>2 DEF List
<1>6. IcmTypes'
  <2>1. chip' \in [selected : BOOLEAN, addr : Addresses \cup {NoAddr}, rd : BOOLEAN,
                   resetting : BOOLEAN, motion : Motions, regs : [Addresses -> Nat]]
    BY Zenon DEF Deselect, IcmTypes
  <2>2. acc' \in [list : {"init", "data"}, k : Nat, pc : {"select", "bytes", "id", "end", "shown"},
                  sent : Nat, rx : Seq(Nat)]
    <3> DEFINE p == IF acc.list = "init" /\ acc.k = 3 THEN "id"
                   ELSE IF acc.k = Len(List) THEN "end" ELSE "select"
               n == IF acc.k = Len(List) THEN acc.k ELSE acc.k + 1
    <3>1. p \in {"select", "id", "end"} /\ n \in Nat
      BY DEF IcmTypes
    <3>2. acc' = [acc EXCEPT !.pc = p, !.k = n]
      BY DEF Deselect
    <3> HIDE DEF p, n
    <3>3. QED
      BY <3>1, <3>2, Zenon DEF IcmTypes
  <2>3. QED
    BY <1>3, <2>1, <2>2 DEF IcmTypes, IcmRecord
<1>7. PlaceInv'
  <2>1. acc'.k >= 1 /\ acc'.k <= Len(List')
    <3>1. Len(List') = Len(List)
      BY <1>5
    <3>2. Len(List) \in {3, 11} /\ acc.k \in Nat /\ 1 <= acc.k /\ acc.k <= Len(List)
      BY <1>1
    <3>3. QED
      BY <1>2, <3>1, <3>2
  <2>2. /\ acc'.pc # "bytes" /\ acc'.pc # "shown"
        /\ acc'.pc = "id" => acc'.list = "init" /\ acc'.k = 4
    BY <1>1, <1>2
  <2>3. acc'.pc = "end" => acc'.k = Len(List')
    BY <1>1, <1>2, <1>5, Zenon
  <2>4. QED
    BY <2>1, <2>2, <2>3 DEF PlaceInv
<1>8. FrameInv' /\ ShownInv' /\ MotionInv'
  BY <1>2, <1>3, <1>4 DEF FrameInv, ShownInv, MotionInv
<1>9. ConfigInv'
  <2>1. acc.list = "init" => \A j \in 2 .. 11 : Passed(j)' => Passed(j)
    BY <1>1, <1>2 DEF Passed
  <2>2. QED
    BY <1>2, <1>3, <2>1 DEF ConfigInv
<1>10. RxInv'
  <2>1. acc.list = "data" => ReadSoFar' = ReadSoFar
    BY <1>1, <1>2 DEF ReadSoFar
  <2>2. QED
    BY <1>2, <1>3, <2>1 DEF RxInv
<1>11. QED
  BY <1>6, <1>7, <1>8, <1>9, <1>10

LEMMA DataEndsInv == ASSUME IcmInv, DataEnds PROVE IcmInv'
<1> USE DEF IcmInv
<1>1. /\ acc.pc = "end" /\ acc'.pc = "shown" /\ acc.list = "data" /\ acc'.list = "data"
      /\ acc'.k = acc.k /\ acc'.sent = acc.sent /\ acc'.rx = acc.rx /\ chip' = chip
      /\ acc' \in [list : {"init", "data"}, k : Nat, pc : {"shown"}, sent : Nat, rx : Seq(Nat)]
  BY DEF DataEnds, IcmTypes
<1>2. acc.k = 3 /\ Len(List) = 3
  BY <1>1, AccessIs, Zenon DEF PlaceInv
<1>3. List' = List
  BY <1>1 DEF List
<1>4. /\ icm'.clean = icm.clean /\ IcmRecord'
      /\ icm'.dev = [adc |-> [i \in 1 .. 7 |-> Adc(acc.rx, i)],
                     gyroscale |-> Scales(acc.rx).gyroscale, accelscale |-> Scales(acc.rx).accelscale]
  BY Zenon DEF DataEnds, IcmTypes, IcmRecord
<1>5. IcmTypes'
  BY <1>1, <1>4 DEF IcmTypes
<1>6. PlaceInv' /\ FrameInv' /\ ConfigInv' /\ MotionInv'
  BY <1>1, <1>2, <1>3, Zenon DEF PlaceInv, FrameInv, ConfigInv, MotionInv
<1>7. RxInv'
  <2>1. ReadSoFar' = ReadSoFar
    BY <1>1 DEF ReadSoFar
  <2>2. QED
    BY <1>1, <1>4, <2>1 DEF RxInv
<1>8. ShownInv'
  <2> SUFFICES ASSUME icm.clean
               PROVE  /\ \A i \in 1 .. 7 :
                           icm'.dev.adc[i] = Word(chip.regs[57 + 2 * i], chip.regs[58 + 2 * i])
                      /\ icm'.dev.gyroscale = GyroScale(chip.regs[27])
                      /\ icm'.dev.accelscale = AccelScale(chip.regs[28])
    BY <1>1, <1>4 DEF ShownInv, ICM20
  <2>1. Len(acc.rx) = 16
    BY <1>1, <1>2 DEF RxInv, ReadSoFar
  <2>2. \A m \in 1 .. 16 : acc.rx[m] = chip.regs[DataReg(m)]
    BY <1>1, <2>1, Zenon DEF RxInv
  <2>3. ASSUME NEW i \in 1 .. 7
        PROVE  icm'.dev.adc[i] = Word(chip.regs[57 + 2 * i], chip.regs[58 + 2 * i])
    <3>1. /\ 2 * i - 1 \in 1 .. 16 /\ DataReg(2 * i - 1) = 57 + 2 * i
          /\ 2 * i \in 1 .. 16 /\ DataReg(2 * i) = 58 + 2 * i
      BY DEF DataReg
    <3>2. acc.rx[2 * i - 1] = chip.regs[57 + 2 * i] /\ acc.rx[2 * i] = chip.regs[58 + 2 * i]
      BY <2>2, <3>1
    <3>3. icm'.dev.adc[i] = Word(acc.rx[2 * i - 1], acc.rx[2 * i])
      BY <1>4 DEF Adc, Word
    <3>4. QED
      BY <3>2, <3>3
  <2>4. acc.rx[15] = chip.regs[27] /\ acc.rx[16] = chip.regs[28]
    <3>1. DataReg(15) = 27 /\ DataReg(16) = 28
      BY DEF DataReg
    <3>2. QED
      BY <2>2, <3>1
  <2>5. icm'.dev.gyroscale = GyroScale(acc.rx[15]) /\ icm'.dev.accelscale = AccelScale(acc.rx[16])
    BY <1>4 DEF Scales
  <2>6. QED
    BY <2>3, <2>4, <2>5
<1>9. QED
  BY <1>5, <1>6, <1>7, <1>8

\* The reset is under way only behind the last byte of the first access.
LEMMA ByteEndsNoReset == ASSUME IcmInv, spi_ch0_rw_byte PROVE ~chip.resetting
<1>1. acc.sent < Len(List[acc.k])
  BY DEF spi_ch0_rw_byte
<1>2. chip.resetting => acc.sent = 2 /\ acc.list = "init"
  BY DEF IcmInv, FrameInv
<1>3. acc.list = "init" => Len(List[acc.k]) = 2
  BY AccessIs DEF IcmInv, IcmTypes
<1>4. acc.list = "init" => acc.sent < 2
  BY <1>1, <1>3, Zenon
<1>5. ~(2 < 2)
  OBVIOUS
<1>6. QED
  BY <1>2, <1>4, <1>5, Zenon

\* A byte the chip does not see.
LEMMA LostByteInv ==
  ASSUME IcmInv, spi_ch0_rw_byte, ~chip.selected
  PROVE  chip' = chip /\ ~icm.clean
BY DEF spi_ch0_rw_byte, Receives, IcmInv, FrameInv

LEMMA AddressByte ==
  ASSUME IcmInv, spi_ch0_rw_byte, chip.selected, acc.sent = 0
  PROVE  /\ chip' = [chip EXCEPT !.addr = Register, !.rd = First >= 128]
         /\ ~chip.resetting
<1>1. /\ chip.addr = NoAddr /\ ~chip.resetting
  BY DEF spi_ch0_rw_byte, IcmInv, FrameInv
<1>2. List[acc.k][acc.sent + 1] = First
  BY DEF First
<1>3. First % 128 = Register
  BY AccessIs DEF IcmInv
<1>4. chip' = [chip EXCEPT !.addr = First % 128, !.rd = First >= 128]
  BY <1>1, <1>2 DEF spi_ch0_rw_byte, Receives
<1>5. QED
  BY <1>1, <1>3, <1>4, Zenon

\* The bytes behind the address: the address advances, and does not wrap.
LEMMA NextAddress ==
  ASSUME IcmInv, spi_ch0_rw_byte, chip.selected, acc.sent # 0
  PROVE  /\ chip.addr = Register + acc.sent - 1 /\ chip.addr # NoAddr /\ ~chip.resetting
         /\ (chip.rd <=> First >= 128)
         /\ (chip.addr + 1) % 128 = Register + acc.sent /\ Register + acc.sent < 128
<1>1. /\ acc.pc = "bytes" /\ acc.sent \in Nat /\ acc.sent < Len(List[acc.k])
  BY DEF spi_ch0_rw_byte, IcmInv, IcmTypes
<1>2. /\ chip.addr = Register + acc.sent - 1 /\ (chip.rd <=> First >= 128)
  BY <1>1 DEF IcmInv, FrameInv
<1>3. Register \in Nat /\ Register + Len(List[acc.k]) < 129 /\ Len(List[acc.k]) \in Nat
  BY AccessIs DEF IcmInv
<1>4. Register + acc.sent \in Nat /\ Register + acc.sent < 128
  BY <1>1, <1>3
<1>5. chip.addr + 1 = Register + acc.sent /\ chip.addr # NoAddr
  BY <1>1, <1>2, <1>3 DEF NoAddr
<1>6. (Register + acc.sent) % 128 = Register + acc.sent
  BY <1>4
<1>7. ~chip.resetting
  BY ByteEndsNoReset
<1>8. QED
  BY <1>2, <1>4, <1>5, <1>6, <1>7

LEMMA ReadByte ==
  ASSUME IcmInv, spi_ch0_rw_byte, chip.selected, acc.sent # 0, First >= 128
  PROVE  chip' = [chip EXCEPT !.addr = Register + acc.sent]
BY NextAddress DEF spi_ch0_rw_byte, Receives

LEMMA WriteByte ==
  ASSUME IcmInv, spi_ch0_rw_byte, chip.selected, acc.sent # 0, ~(First >= 128)
  PROVE  /\ acc.list = "init" /\ acc.k \in 1 .. 11 /\ acc.k # 3 /\ acc.sent = 1
         /\ IF acc.k = 1
            THEN chip' = [chip EXCEPT !.regs = ResetRegs(@[117], chip.motion), !.resetting = TRUE,
                                      !.addr = Register + 1]
            ELSE chip' = [chip EXCEPT !.regs[InitReg[acc.k]] = InitVal[acc.k], !.addr = Register + 1]
<1>1. acc.list = "init" /\ acc.k \in 1 .. 11
  <2>1. Len(List) = (IF acc.list = "init" THEN 11 ELSE 3) /\ acc.k \in 1 .. Len(List)
    BY AccessIs DEF IcmInv
  <2>2. acc.list = "data" => First >= 128
    BY <2>1, DataAccess
  <2>3. QED
    BY <2>1, <2>2, Zenon DEF IcmInv, IcmTypes
<1>2. /\ Len(List[acc.k]) = 2 /\ Register = InitReg[acc.k] /\ acc.k # 3
      /\ List[acc.k][2] = InitVal[acc.k]
  BY <1>1, InitAccess
<1>3. acc.sent = 1
  BY <1>2 DEF spi_ch0_rw_byte, IcmInv, IcmTypes
<1>4. /\ chip.addr = InitReg[acc.k] /\ chip.addr # NoAddr /\ ~chip.resetting /\ ~chip.rd
      /\ (chip.addr + 1) % 128 = Register + 1 /\ InitReg[acc.k] \in Nat
  BY <1>1, <1>2, <1>3, NextAddress, InitRange
<1>5. List[acc.k][acc.sent + 1] = InitVal[acc.k]
  BY <1>2, <1>3
<1>6. chip' = IF chip.addr = 107 /\ InitVal[acc.k] >= 128
              THEN [chip EXCEPT !.regs = ResetRegs(@[117], chip.motion), !.resetting = TRUE, !.addr = @ + 1]
              ELSE [chip EXCEPT !.regs[chip.addr] = InitVal[acc.k], !.addr = (@ + 1) % 128]
  BY <1>4, <1>5 DEF spi_ch0_rw_byte, Receives, ICM20
<1>7. CASE acc.k = 1
  <2>1. InitReg[1] = 107 /\ InitVal[1] = 128
    BY DEF InitReg, InitVal
  <2>2. chip.addr = 107 /\ InitVal[acc.k] >= 128 /\ chip.addr + 1 = Register + 1
    BY <1>2, <1>4, <1>7, <2>1
  <2>3. QED
    BY <1>1, <1>2, <1>3, <1>6, <1>7, <2>2, Zenon
<1>8. CASE acc.k # 1
  <2>1. ~(InitVal[acc.k] >= 128)
    BY <1>1, <1>2, <1>8, InitRange
  <2>2. QED
    BY <1>1, <1>2, <1>3, <1>4, <1>6, <1>8, <2>1, Zenon
<1>9. QED
  BY <1>7, <1>8

\* The chip after a byte, and the frame of the access.
LEMMA ByteChip ==
  ASSUME IcmInv, spi_ch0_rw_byte
  PROVE  /\ chip' \in [selected : BOOLEAN, addr : Addresses \cup {NoAddr}, rd : BOOLEAN,
                       resetting : BOOLEAN, motion : Motions, regs : [Addresses -> Nat]]
         /\ chip'.selected = chip.selected
         /\ chip.selected => chip'.addr = Register + acc.sent /\ (chip'.rd <=> First >= 128)
         /\ chip'.resetting => acc.list = "init" /\ acc.k = 1 /\ acc.sent = 1
         /\ First >= 128 \/ acc.sent = 0 => chip'.regs = chip.regs
         /\ MotionInv'
<1>1. chip \in [selected : BOOLEAN, addr : Addresses \cup {NoAddr}, rd : BOOLEAN,
                resetting : BOOLEAN, motion : Motions, regs : [Addresses -> Nat]]
  BY DEF IcmInv, IcmTypes
<1>2. Register \in Nat /\ acc.sent \in Nat /\ First \in Nat /\ (First >= 128) \in BOOLEAN
  BY AccessIs DEF IcmInv, IcmTypes
<1>3. CASE ~chip.selected
  <2>1. ~chip.resetting
    BY ByteEndsNoReset
  <2>2. QED
    BY <1>1, <1>3, <2>1, LostByteInv DEF MotionInv, IcmInv
<1>4. CASE chip.selected /\ acc.sent = 0
  <2>1. /\ chip' = [chip EXCEPT !.addr = Register, !.rd = First >= 128] /\ ~chip.resetting
    BY <1>4, AddressByte
  <2>2. Register \in Addresses
    <3>1. Register < 128
      BY <1>2, AccessIs DEF IcmInv
    <3>2. QED
      BY <1>2, <3>1, AddressIs
  <2>3. PICK b \in BOOLEAN : b = (First >= 128)
    BY <1>2, Zenon
  <2>4. chip' = [chip EXCEPT !.addr = Register, !.rd = b]
    BY <2>1, <2>3
  <2>5. /\ chip' \in [selected : BOOLEAN, addr : Addresses \cup {NoAddr}, rd : BOOLEAN,
                     resetting : BOOLEAN, motion : Motions, regs : [Addresses -> Nat]]
        /\ chip'.selected = chip.selected /\ chip'.addr = Register /\ chip'.rd = b
        /\ chip'.resetting = chip.resetting /\ chip'.regs = chip.regs
        /\ chip'.motion = chip.motion
    BY <1>1, <2>2, <2>4, Zenon
  <2>6. chip'.addr = Register + acc.sent
    BY <1>2, <1>4, <2>5
  <2>7. QED
    BY <1>4, <2>1, <2>3, <2>5, <2>6, Zenon DEF MotionInv, IcmInv
<1>5. CASE chip.selected /\ acc.sent # 0 /\ First >= 128
  <2>1. /\ chip' = [chip EXCEPT !.addr = Register + acc.sent] /\ ~chip.resetting
        /\ Register + acc.sent < 128 /\ (chip.rd <=> First >= 128)
    BY <1>5, ReadByte, NextAddress
  <2>2. Register + acc.sent \in Addresses
    BY <1>2, <2>1, AddressIs
  <2>3. QED
    BY <1>1, <1>2, <1>5, <2>1, <2>2, Zenon DEF MotionInv, IcmInv
<1>6. CASE chip.selected /\ acc.sent # 0 /\ ~(First >= 128)
  <2>1. /\ acc.list = "init" /\ acc.k \in 1 .. 11 /\ acc.k # 3 /\ acc.sent = 1
        /\ IF acc.k = 1
           THEN chip' = [chip EXCEPT !.regs = ResetRegs(@[117], chip.motion), !.resetting = TRUE,
                                     !.addr = Register + 1]
           ELSE chip' = [chip EXCEPT !.regs[InitReg[acc.k]] = InitVal[acc.k], !.addr = Register + 1]
    BY <1>6, WriteByte
  <2>2. Register + 1 \in Addresses /\ (chip.rd <=> First >= 128) /\ ~chip.resetting
    <3>1. Register + 1 < 128 /\ (chip.rd <=> First >= 128) /\ ~chip.resetting
      BY <1>6, <2>1, NextAddress
    <3>2. QED
      BY <1>2, <3>1, AddressIs
  <2>3. CASE acc.k = 1
    <3>1. /\ ResetRegs(chip.regs[117], chip.motion) \in [Addresses -> Nat]
          /\ HoldsMotion(ResetRegs(chip.regs[117], chip.motion), chip.motion)
      <4>1. 117 \in Addresses
        BY AddressIs
      <4>2. PICK id \in Nat : id = chip.regs[117]
        BY <1>1, <4>1
      <4>3. chip.motion \in Motions
        BY <1>1
      <4>4. QED
        BY <4>2, <4>3, ResetRight
    <3>2. chip' = [chip EXCEPT !.regs = ResetRegs(chip.regs[117], chip.motion), !.resetting = TRUE,
                               !.addr = Register + 1]
      BY <2>1, <2>3
    <3>3. QED
      BY <1>1, <1>6, <2>1, <2>2, <2>3, <3>1, <3>2, Zenon DEF MotionInv
  <2>4. CASE acc.k # 1
    <3>1. InitVal[acc.k] \in Nat
      BY <2>1, InitRange
    <3>2. chip' = [chip EXCEPT !.regs[InitReg[acc.k]] = InitVal[acc.k], !.addr = Register + 1]
      BY <2>1, <2>4
    <3>3. MotionInv'
      <4>1. /\ chip'.regs = [chip.regs EXCEPT ![InitReg[acc.k]] = InitVal[acc.k]]
            /\ chip'.motion = chip.motion
        BY <1>1, <3>2, Zenon
      <4>2. \A i \in 1 .. 7 : 57 + 2 * i # InitReg[acc.k] /\ 58 + 2 * i # InitReg[acc.k]
        BY <2>1 DEF InitReg
      <4>3. \A i \in 1 .. 7 : /\ chip'.regs[57 + 2 * i] = chip.regs[57 + 2 * i]
                              /\ chip'.regs[58 + 2 * i] = chip.regs[58 + 2 * i]
        <5>1. \A i \in 1 .. 7 : 57 + 2 * i \in Addresses /\ 58 + 2 * i \in Addresses
          BY AddressIs
        <5>2. QED
          BY <1>1, <4>1, <4>2, <5>1
      <4>4. QED
        BY <4>1, <4>3, Zenon DEF IcmInv, MotionInv, HoldsMotion
    <3>4. QED
      BY <1>1, <1>6, <2>1, <2>2, <2>4, <3>1, <3>2, <3>3, Zenon
  <2>5. QED
    BY <2>3, <2>4
<1>7. QED
  BY <1>3, <1>4, <1>5, <1>6

LEMMA ByteInv == ASSUME IcmInv, spi_ch0_rw_byte PROVE IcmInv'
<1> DEFINE reads == First >= 128 /\ acc.sent > 0
<1>1. /\ acc.pc = "bytes" /\ acc'.pc = "bytes" /\ acc'.list = acc.list /\ acc'.k = acc.k
      /\ acc.sent \in Nat /\ acc.sent < Len(List[acc.k]) /\ acc'.sent = acc.sent + 1 /\ icm' = icm
      /\ acc'.rx = IF reads THEN Append(acc.rx, Answer(chip)) ELSE acc.rx
  BY DEF spi_ch0_rw_byte, IcmInv, IcmTypes, First
<1>2. List' = List
  BY <1>1 DEF List
<1>3. First' = First /\ Register' = Register
  BY <1>1, <1>2 DEF First, Register
<1>4. /\ Len(List) = (IF acc.list = "init" THEN 11 ELSE 3) /\ acc.k \in 1 .. Len(List)
      /\ Len(List[acc.k]) = (IF acc.list = "data" /\ acc.k = 1 THEN 15 ELSE 2)
      /\ Register \in Nat
  BY AccessIs DEF IcmInv
<1>5. Answer(chip) \in Nat
  <2>1. CASE chip.selected /\ chip.addr # NoAddr /\ chip.rd
    <3>1. chip.addr \in Addresses /\ chip.regs \in [Addresses -> Nat]
      BY <2>1 DEF IcmInv, IcmTypes
    <3>2. QED
      BY <2>1, <3>1 DEF Answer
  <2>2. CASE ~(chip.selected /\ chip.addr # NoAddr /\ chip.rd)
    BY <2>2 DEF Answer
  <2>3. QED
    BY <2>1, <2>2
<1>6. acc.rx \in Seq(Nat) /\ acc'.rx \in Seq(Nat)
  BY <1>1, <1>5 DEF IcmInv, IcmTypes
<1>7. IcmTypes'
  <2>1. PICK n \in Nat, r \in Seq(Nat) : acc' = [acc EXCEPT !.sent = n, !.rx = r]
    <3>1. acc' = [acc EXCEPT !.sent = acc.sent + 1, !.rx = acc'.rx]
      BY <1>1 DEF spi_ch0_rw_byte, IcmInv, IcmTypes
    <3>2. acc.sent + 1 \in Nat
      BY <1>1
    <3>3. QED
      BY <1>6, <3>1, <3>2, Zenon
  <2>2. acc' \in [list : {"init", "data"}, k : Nat, pc : {"select", "bytes", "id", "end", "shown"},
                  sent : Nat, rx : Seq(Nat)]
    BY <2>1, Zenon DEF IcmInv, IcmTypes
  <2>3. IcmRecord'
    BY <1>1 DEF IcmInv, IcmTypes, IcmRecord
  <2>4. QED
    BY <2>2, <2>3, ByteChip DEF IcmTypes
<1>8. PlaceInv'
  <2>1. Len(List[acc.k]) \in Nat /\ acc.sent + 1 <= Len(List[acc.k])
    BY <1>1, <1>4
  <2>2. QED
    BY <1>1, <1>2, <2>1 DEF IcmInv, PlaceInv
<1>9. FrameInv'
  <2>1. acc'.pc = "bytes" /\ (icm'.clean => chip'.selected)
    BY <1>1, ByteChip DEF IcmInv, FrameInv
  <2>2. chip'.selected => /\ acc'.sent # 0 /\ chip'.addr = Register' + acc'.sent - 1
                          /\ (chip'.rd <=> First' >= 128)
    <3>1. chip.selected => chip'.addr = Register + acc.sent /\ (chip'.rd <=> First >= 128)
      BY ByteChip
    <3>2. acc'.sent # 0 /\ Register + acc.sent = Register + acc'.sent - 1
      BY <1>1, <1>4
    <3>3. chip'.selected = chip.selected
      BY ByteChip
    <3>4. QED
      BY <1>3, <3>1, <3>2, <3>3
  <2>3. chip'.resetting => acc'.list = "init" /\ acc'.k = 1 /\ acc'.pc = "bytes" /\ acc'.sent = 2
    BY <1>1, ByteChip
  <2>4. QED
    BY <2>1, <2>2, <2>3 DEF FrameInv
<1>10. ConfigInv'
  <2> SUFFICES ASSUME acc.list = "init", icm.clean, NEW j \in 2 .. 11, j # 3, Passed(j)'
               PROVE  chip'.regs[InitReg[j]] = InitVal[j]
    BY <1>1 DEF ConfigInv
  <2>1. acc.k \in 1 .. 11 /\ chip.selected /\ (First >= 128 <=> acc.k = 3)
    BY <1>1, <1>4, InitAccess DEF IcmInv, FrameInv
  <2>2. j < acc.k \/ (j = acc.k /\ acc.sent = 1)
    BY <1>1 DEF Passed
  <2>3. Passed(j) => chip.regs[InitReg[j]] = InitVal[j]
    BY DEF IcmInv, ConfigInv
  <2>4. CASE acc.k = 3 \/ acc.sent = 0
    <3>1. chip'.regs = chip.regs
      BY <2>1, <2>4, ByteChip
    <3>2. Passed(j)
      BY <2>2, <2>4 DEF Passed
    <3>3. QED
      BY <2>3, <3>1, <3>2
  <2>5. CASE acc.k # 3 /\ acc.sent # 0
    <3>1. acc.k # 1
      BY <2>1, <2>2
    <3>2. chip' = [chip EXCEPT !.regs[InitReg[acc.k]] = InitVal[acc.k], !.addr = Register + 1]
      BY <2>1, <2>5, <3>1, WriteByte
    <3>3. chip.regs \in [Addresses -> Nat] /\ InitReg[acc.k] \in Addresses
      <4>1. InitReg[acc.k] \in Nat /\ InitReg[acc.k] < 128
        BY <2>1, InitRange
      <4>2. QED
        BY <4>1, AddressIs DEF IcmInv, IcmTypes
    <3>4. chip'.regs = [chip.regs EXCEPT ![InitReg[acc.k]] = InitVal[acc.k]]
      BY <3>2 DEF IcmInv, IcmTypes
    <3>5. CASE j = acc.k
      BY <3>3, <3>4, <3>5
    <3>6. CASE j # acc.k
      <4>1. InitReg[j] # InitReg[acc.k]
        BY <2>1, <3>1, <3>6, InitRange
      <4>2. Passed(j)
        BY <2>2, <3>6 DEF Passed
      <4>3. InitReg[j] \in Addresses
        BY InitRange, AddressIs
      <4>4. QED
        BY <2>3, <3>3, <3>4, <4>1, <4>2, <4>3
    <3>7. QED
      BY <3>5, <3>6
  <2>6. QED
    BY <2>4, <2>5
<1>11. RxInv'
  <2> SUFFICES ASSUME acc.list = "data" PROVE RxInv'
    BY <1>1 DEF RxInv
  <2>1. /\ acc.k \in 1 .. 3 /\ First >= 128
        /\ Register = IF acc.k = 1 THEN 59 ELSE IF acc.k = 2 THEN 27 ELSE 28
    BY <1>4, DataAccess
  <2>2. chip'.regs = chip.regs
    BY <2>1, ByteChip
  <2>3. Len(acc.rx) = ReadSoFar
    BY DEF IcmInv, RxInv
  <2>4. CASE acc.sent = 0
    <3>1. acc'.rx = acc.rx
      BY <1>1, <2>4
    <3>2. ReadSoFar' = ReadSoFar
      BY <1>1, <2>1, <2>4 DEF ReadSoFar
    <3>3. QED
      BY <1>1, <2>2, <3>1, <3>2, Zenon DEF IcmInv, RxInv
  <2>5. CASE acc.sent # 0
    <3>1. acc'.rx = Append(acc.rx, Answer(chip))
      BY <1>1, <2>1, <2>5
    <3>2. /\ Len(acc.rx) = (IF acc.k = 1 THEN 0 ELSE IF acc.k = 2 THEN 14 ELSE 15) + acc.sent - 1
          /\ ReadSoFar' = Len(acc.rx) + 1
      BY <1>1, <2>1, <2>3, <2>5 DEF ReadSoFar
    <3>3. /\ Len(acc'.rx) = Len(acc.rx) + 1 /\ acc'.rx[Len(acc.rx) + 1] = Answer(chip)
          /\ \A m \in 1 .. Len(acc.rx) : acc'.rx[m] = acc.rx[m]
      BY <1>5, <1>6, <3>1
    <3>4. ASSUME icm.clean, NEW m \in 1 .. Len(acc.rx) + 1 PROVE acc'.rx[m] = chip.regs[DataReg(m)]
      <4>1. CASE m = Len(acc.rx) + 1
        <5>1. chip.selected
          BY <1>1, <3>4 DEF IcmInv, FrameInv
        <5>2. chip.addr = Register + acc.sent - 1 /\ chip.addr # NoAddr /\ chip.rd
          BY <2>1, <2>5, <5>1, NextAddress
        <5>3. Answer(chip) = chip.regs[Register + acc.sent - 1]
          BY <5>1, <5>2 DEF Answer
        <5>4. acc.k = 1 => acc.sent < 15
          BY <1>1, <1>4
        <5>5. acc.k # 1 => acc.sent = 1
          BY <1>1, <1>4, <2>5
        <5>6. DataReg(m) = Register + acc.sent - 1
          BY <1>1, <2>1, <2>5, <3>2, <4>1, <5>4, <5>5 DEF DataReg
        <5>7. QED
          BY <3>3, <4>1, <5>3, <5>6
      <4>2. CASE m # Len(acc.rx) + 1
        <5>1. m \in 1 .. Len(acc.rx)
          BY <1>6, <4>2
        <5>2. QED
          BY <3>3, <3>4, <5>1 DEF IcmInv, RxInv
      <4>3. QED
        BY <4>1, <4>2
    <3>5. QED
      BY <1>1, <2>2, <3>2, <3>3, <3>4 DEF RxInv
  <2>6. QED
    BY <2>4, <2>5
<1>12. ShownInv' /\ MotionInv'
  BY <1>1, ByteChip DEF ShownInv
<1>13. QED
  BY <1>7, <1>8, <1>9, <1>10, <1>11, <1>12 DEF IcmInv

LEMMA IcmInitInv == IcmInit => IcmInv
<1> SUFFICES ASSUME IcmInit PROVE IcmInv
  OBVIOUS
<1>1. PICK id \in Ids, range \in {0, 16}, motion \in Motions :
        chip = [selected |-> TRUE, addr |-> NoAddr, rd |-> FALSE, resetting |-> FALSE,
                motion |-> motion,
                regs |-> [ResetRegs(id, motion) EXCEPT ![ICM20.GYRO_CONFIG] = range]]
  BY DEF IcmInit
<1>2. /\ acc.list = "init" /\ acc.k = 1 /\ acc.pc = "select" /\ acc.sent = 0 /\ acc.rx = <<>>
      /\ chip.addr = NoAddr /\ chip.resetting = FALSE
  BY <1>1, Zenon DEF IcmInit, Start
<1>3. IcmTypes
  <2>1. [ResetRegs(id, motion) EXCEPT ![ICM20.GYRO_CONFIG] = range] \in [Addresses -> Nat]
    <3>1. id \in Nat /\ range \in Nat
      BY DEF Ids
    <3>2. ResetRegs(id, motion) \in [Addresses -> Nat]
      BY <3>1, ResetRight
    <3>3. QED
      BY <3>1, <3>2, Zenon
  <2>2. PICK f \in [Addresses -> Nat] :
          chip = [selected |-> TRUE, addr |-> NoAddr, rd |-> FALSE, resetting |-> FALSE,
                  motion |-> motion, regs |-> f]
    BY <1>1, <2>1, Zenon
  <2>3. chip \in [selected : BOOLEAN, addr : Addresses \cup {NoAddr}, rd : BOOLEAN,
                  resetting : BOOLEAN, motion : Motions, regs : [Addresses -> Nat]]
    BY <2>2
  <2>4. <<>> \in Seq(Nat)
    OBVIOUS
  <2>5. acc \in [list : {"init", "data"}, k : Nat, pc : {"select", "bytes", "id", "end", "shown"},
                 sent : Nat, rx : Seq(Nat)]
    BY <2>4 DEF IcmInit, Start
  <2>6. IcmRecord
    BY Zenon DEF IcmInit, IcmRecord
  <2>7. QED
    BY <2>3, <2>5, <2>6 DEF IcmTypes
<1>4. PlaceInv
  <2>1. Len(List) = 11
    BY <1>2, InitLength DEF List
  <2>2. QED
    BY <1>2, <2>1 DEF PlaceInv
<1>5. FrameInv /\ RxInv /\ ShownInv
  BY <1>2 DEF FrameInv, RxInv, ShownInv
<1>6. ConfigInv
  BY <1>2 DEF ConfigInv, Passed
<1>7. MotionInv
  <2>1. id \in Nat /\ ResetRegs(id, motion) \in [Addresses -> Nat]
        /\ HoldsMotion(ResetRegs(id, motion), motion)
    BY ResetRight DEF Ids
  <2>2. \A i \in 1 .. 7 : /\ 57 + 2 * i \in Addresses /\ 57 + 2 * i # 27
                          /\ 58 + 2 * i \in Addresses /\ 58 + 2 * i # 27
    BY AddressIs
  <2>3. chip.motion = motion /\ chip.regs = [ResetRegs(id, motion) EXCEPT ![27] = range]
    BY <1>1 DEF ICM20
  <2>4. \A i \in 1 .. 7 : /\ chip.regs[57 + 2 * i] = ResetRegs(id, motion)[57 + 2 * i]
                          /\ chip.regs[58 + 2 * i] = ResetRegs(id, motion)[58 + 2 * i]
    BY <2>1, <2>2, <2>3
  <2>5. QED
    BY <2>1, <2>3, <2>4, Zenon DEF MotionInv, HoldsMotion
<1>8. QED
  BY <1>3, <1>4, <1>5, <1>6, <1>7 DEF IcmInv

LEMMA IcmStillInv == ASSUME IcmInv, UNCHANGED icmVars PROVE IcmInv'
<1>1. chip' = chip /\ acc' = acc /\ icm' = icm
  BY DEF icmVars
<1>2. IcmTypes'
  BY <1>1 DEF IcmInv, IcmTypes, IcmRecord
<1>3. List' = List
  BY <1>1 DEF List
<1>4. First' = First /\ Register' = Register
  BY <1>1, <1>3 DEF First, Register
<1>5. PlaceInv' /\ FrameInv'
  BY <1>1, <1>3, <1>4, Zenon DEF IcmInv, PlaceInv, FrameInv
<1>6. ConfigInv'
  BY <1>1 DEF IcmInv, ConfigInv, Passed
<1>7. RxInv'
  BY <1>1, Zenon DEF IcmInv, RxInv, ReadSoFar
<1>8. ShownInv'
  BY <1>1 DEF IcmInv, ShownInv
<1>9. MotionInv'
  BY <1>1 DEF IcmInv, MotionInv, HoldsMotion
<1>10. QED
  BY <1>2, <1>5, <1>6, <1>7, <1>8, <1>9 DEF IcmInv

LEMMA IcmNextInv ==
  ASSUME IcmInv,
         \/ Select \/ spi_ch0_rw_byte \/ Deselect \/ CheckId \/ InitEnds \/ DataEnds \/ IcmAgain
         \/ UNCHANGED icmVars
  PROVE  IcmInv'
BY SelectInv, ByteInv, DeselectInv, CheckIdInv, InitEndsInv, DataEndsInv, IcmAgainInv, IcmStillInv

LEMMA IcmSetUp == IcmInv => IcmConfigured
<1> SUFFICES ASSUME IcmInv, acc.pc = "end", acc.list = "init", icm.clean PROVE IcmConfigured
  BY Zenon DEF IcmConfigured
<1>1. acc.k = 11
  <2>1. acc.k = Len(List)
    BY DEF IcmInv, PlaceInv
  <2>2. Len(List) = 11
    BY AccessIs DEF IcmInv
  <2>3. QED
    BY <2>1, <2>2
<1>2. \A j \in 2 .. 11 : j # 3 => chip.regs[InitReg[j]] = InitVal[j]
  BY <1>1 DEF IcmInv, ConfigInv, Passed
<1>3. ~chip.resetting
  BY DEF IcmInv, FrameInv
<1>4. /\ chip.regs[107] = 1 /\ chip.regs[25] = 0 /\ chip.regs[27] = 24 /\ chip.regs[28] = 24
      /\ chip.regs[26] = 4 /\ chip.regs[29] = 4 /\ chip.regs[108] = 0 /\ chip.regs[30] = 0
      /\ chip.regs[35] = 0
  BY <1>2 DEF InitReg, InitVal
<1>5. QED
  BY <1>3, <1>4 DEF IcmConfigured, ICM20

\* What is shown is the measurement, but for the sign.
LEMMA IcmShown == IcmInv => IcmReadingRight
<1> SUFFICES ASSUME IcmInv, acc.pc = "shown", icm.clean PROVE IcmReadingRight
  BY Zenon DEF IcmReadingRight
<1>1. ASSUME NEW i \in 1 .. 7
      PROVE  icm.dev.adc[i] = Unsigned(chip.motion[i])
  <2>1. icm.dev.adc[i] = Word(chip.regs[57 + 2 * i], chip.regs[58 + 2 * i])
    BY DEF IcmInv, ShownInv
  <2>2. chip.regs[57 + 2 * i] = High(chip.motion[i]) /\ chip.regs[58 + 2 * i] = Low(chip.motion[i])
    BY DEF IcmInv, MotionInv, HoldsMotion
  <2>3. chip.motion[i] \in Words
    BY IcmConstants DEF IcmInv, IcmTypes
  <2>4. QED
    BY <2>1, <2>2, <2>3, Bytes, Zenon
<1>2. QED
  BY <1>1, Zenon DEF IcmInv, ShownInv, IcmReadingRight
=============================================================================
