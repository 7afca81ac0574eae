------------------------------ MODULE Icm20608 ------------------------------
(***************************************************************************)
(* The motion sensor of stage 18: icm20608_init with the retries of main,  *)
(* and the loop that calls icm20608_get_data, one SPI byte at a time, with *)
(* a chip that follows the chip select. An access may get lost: the chip   *)
(* does not see it, and a read gives 0xFF.                                 *)
(***************************************************************************)
EXTENDS Integers, Sequences

CONSTANTS
  MaxLost,  \* accesses that get lost, in all
  Motions   \* what the chip may measure: acceleration, temperature, rotation

Words == {w \in Int : -32768 <= w /\ w < 32768}

ASSUME IcmConstants ==
  /\ MaxLost \in Nat
  /\ Motions \subseteq [1 .. 7 -> Words]

VARIABLES
  chip,  \* selected, addr of the next byte, rd, regs, resetting, motion
  acc,   \* the access under way: list, k: its place, sent: bytes, rx: read
  icm    \* dev: the last readings, lost: accesses lost, clean: history

icmVars == <<chip, acc, icm>>

\* The registers that are used.
ICM20 ==
  [SMPLRT_DIV |-> 25, CONFIG |-> 26, GYRO_CONFIG |-> 27, ACCEL_CONFIG |-> 28,
   ACCEL_CONFIG2 |-> 29, LP_MODE_CFG |-> 30, FIFO_EN |-> 35, ACCEL_XOUT_H |-> 59,
   PWR_MGMT_1 |-> 107, PWR_MGMT_2 |-> 108, WHO_AM_I |-> 117]

Ids == {174, 175}  \* ICM20608D_ID and ICM20608G_ID

Write(reg, val) == <<reg % 128, val>>

\* A read of len registers sends 0xFF in their place.
Read(reg, len) == <<128 + reg>> \o [i \in 1 .. len |-> 255]

\* The accesses of icm20608_init and of icm20608_get_data, by the bytes sent.
InitList ==
  << Write(ICM20.PWR_MGMT_1, 128), Write(ICM20.PWR_MGMT_1, 1),
     Read(ICM20.WHO_AM_I, 1),
     Write(ICM20.SMPLRT_DIV, 0), Write(ICM20.GYRO_CONFIG, 24),
     Write(ICM20.ACCEL_CONFIG, 24), Write(ICM20.CONFIG, 4),
     Write(ICM20.ACCEL_CONFIG2, 4), Write(ICM20.PWR_MGMT_2, 0),
     Write(ICM20.LP_MODE_CFG, 0), Write(ICM20.FIFO_EN, 0) >>

DataList ==
  << Read(ICM20.ACCEL_XOUT_H, 14), Read(ICM20.GYRO_CONFIG, 1), Read(ICM20.ACCEL_CONFIG, 1) >>

List == IF acc.list = "init" THEN InitList ELSE DataList

-----------------------------------------------------------------------------
(* The chip (external). The first byte after the select line falls is the  *)
(* address, its highest bit says read; the address then advances.          *)

Addresses == 0 .. 127

\* The two bytes of a measurement, in two's complement.
Half(w) == w % 65536
High(w) == Half(w) \div 256
Low(w) == Half(w) % 256

\* After a reset: asleep. The data registers, from ACCEL_XOUT_H on, hold the
\* seven measurements, the high byte of each first.
ResetRegs(id, motion) ==
  [r \in Addresses |-> CASE r = ICM20.WHO_AM_I -> id [] r = ICM20.PWR_MGMT_1 -> 64
                        [] r \in 59 .. 72 -> IF r % 2 = 1 THEN High(motion[(r - 57) \div 2])
                                             ELSE Low(motion[(r - 58) \div 2])
                        [] OTHER -> 0]

NoAddr == -1

\* What the chip does with a byte.
Receives(c, byte) ==
  CASE ~c.selected -> c
    [] c.selected /\ c.addr = NoAddr -> [c EXCEPT !.addr = byte % 128, !.rd = byte >= 128]
    [] c.selected /\ c.addr # NoAddr /\ (c.rd \/ c.resetting) -> [c EXCEPT !.addr = (@ + 1) % 128]
    [] OTHER ->
         IF c.addr = ICM20.PWR_MGMT_1 /\ byte >= 128
         THEN [c EXCEPT !.regs = ResetRegs(@[ICM20.WHO_AM_I], c.motion), !.resetting = TRUE, !.addr = @ + 1]
         ELSE [c EXCEPT !.regs[c.addr] = byte, !.addr = (@ + 1) % 128]

\* What it answers.
Answer(c) == IF c.selected /\ c.addr # NoAddr /\ c.rd THEN c.regs[c.addr] ELSE 255

-----------------------------------------------------------------------------
(* The driver *)

Start(list) == [list |-> list, k |-> 1, pc |-> "select", sent |-> 0, rx |-> <<>>]

NoData == [adc |-> <<>>, gyroscale |-> 0, accelscale |-> 0]

\* gpio_init, at the beginning of every icm20608_init, drives the select line
\* low.
Selects(c) == [c EXCEPT !.selected = TRUE, !.addr = IF c.selected THEN @ ELSE NoAddr]

IcmInit ==
  /\ chip \in {[selected |-> TRUE, addr |-> NoAddr, rd |-> FALSE, resetting |-> FALSE,
                motion |-> motion,
                regs |-> [ResetRegs(id, motion) EXCEPT ![ICM20.GYRO_CONFIG] = range]] :
                 id \in Ids, range \in {0, 16}, motion \in Motions}
  /\ acc = Start("init")
  /\ icm = [dev |-> NoData, lost |-> 0, clean |-> TRUE]

\* ICM20608_CSN(0). In the first access of icm20608_init the line is low
\* already. The chip does not see a lost access.
Select ==
  /\ acc.pc = "select"
  /\ acc' = [acc EXCEPT !.pc = "bytes", !.sent = 0]
  /\ \/ chip' = Selects(chip) /\ UNCHANGED icm
     \/ /\ icm.lost < MaxLost
        /\ icm' = [icm EXCEPT !.lost = @ + 1, !.clean = FALSE]
        /\ chip' = [chip EXCEPT !.selected = FALSE]

\* spi_ch0_rw_byte. The master shifts a byte whatever the chip does, so both
\* waits end.
spi_ch0_rw_byte ==
  /\ acc.pc = "bytes" /\ acc.sent < Len(List[acc.k])
  /\ chip' = Receives(chip, List[acc.k][acc.sent + 1])
  /\ acc' = [acc EXCEPT !.sent = @ + 1,
                        !.rx = IF List[acc.k][1] >= 128 /\ acc.sent > 0
                               THEN Append(@, Answer(chip)) ELSE @]
  /\ UNCHANGED icm

\* ICM20608_CSN(1).
CSN == FALSE

\* delay_ms(50) after the first two writes.
Delays == {1, 2}

\* The end of an access.
Deselect ==
  /\ acc.pc = "bytes" /\ acc.sent = Len(List[acc.k])
  /\ chip' = [chip EXCEPT !.selected = CSN /\ chip.selected,
                          !.resetting = @ /\ ~(acc.list = "init" /\ acc.k \in Delays)]
  /\ acc' = [acc EXCEPT !.pc = IF acc.list = "init" /\ acc.k = 3 THEN "id"
                               ELSE IF acc.k = Len(List) THEN "end" ELSE "select",
                        !.k = IF @ = Len(List) THEN @ ELSE @ + 1]
  /\ UNCHANGED icm

\* The check of the ID; main tries again when it is wrong.
CheckId ==
  /\ acc.pc = "id"
  /\ IF acc.rx[1] \in Ids
     THEN acc' = [acc EXCEPT !.pc = "select", !.rx = <<>>] /\ UNCHANGED <<icm, chip>>
     ELSE /\ acc' = Start("init") /\ icm' = [icm EXCEPT !.clean = TRUE]
          /\ chip' = Selects(chip)

\* icm20608_init has returned STATUS_OK.
InitEnds ==
  /\ acc.pc = "end" /\ acc.list = "init"
  /\ acc' = Start("data")
  /\ icm' = [icm EXCEPT !.clean = TRUE]
  /\ UNCHANGED chip

\* Ten times gyroscale.
GyroScale(data) == <<1310, 655, 328, 164>>[((data \div 8) % 4) + 1]
AccelScale(data) == <<16384, 8192, 4096, 2048>>[((data \div 8) % 4) + 1]

\* Mutated form: the scale of the range that was configured.
ScalesFixed(rx) == [gyroscale |-> 164, accelscale |-> 2048]

\* icm20608_gyro_scaleget and icm20608_accel_scaleget, after the 14 bytes.
Scales(rx) == [gyroscale |-> GyroScale(rx[15]), accelscale |-> AccelScale(rx[16])]

\* (unsigned short)((data[2 * i - 2] << 8) | data[2 * i - 1]), which is then
\* stored in a signed int.
Adc(rx, i) == (rx[2 * i - 1] * 256 + rx[2 * i]) % 65536

\* The rest of icm20608_get_data.
DataEnds ==
  /\ acc.pc = "end" /\ acc.list = "data"
  /\ icm' = [icm EXCEPT !.dev = [adc |-> [i \in 1 .. 7 |-> Adc(acc.rx, i)],
                                 gyroscale |-> Scales(acc.rx).gyroscale,
                                 accelscale |-> Scales(acc.rx).accelscale]]
  /\ acc' = [acc EXCEPT !.pc = "shown"]
  /\ UNCHANGED chip

IcmAgain ==
  /\ acc.pc = "shown"
  /\ acc' = Start("data")
  /\ icm' = [icm EXCEPT !.clean = TRUE]
  /\ UNCHANGED chip

-----------------------------------------------------------------------------
\* icm20608_init: when it returns STATUS_OK from a call none of whose accesses
\* was lost, the chip is awake and set as the calls say, whatever earlier calls
\* had left. It takes the frame of every access and the wait after the reset.
IcmConfigured ==
  acc.pc = "end" /\ acc.list = "init" /\ icm.clean =>
    /\ ~chip.resetting
    /\ chip.regs[ICM20.PWR_MGMT_1] = 1 /\ chip.regs[ICM20.PWR_MGMT_2] = 0
    /\ chip.regs[ICM20.GYRO_CONFIG] = 24 /\ chip.regs[ICM20.ACCEL_CONFIG] = 24
    /\ chip.regs[ICM20.CONFIG] = 4 /\ chip.regs[ICM20.ACCEL_CONFIG2] = 4
    /\ \A r \in {"SMPLRT_DIV", "LP_MODE_CFG", "FIFO_EN"} : chip.regs[ICM20[r]] = 0

\* What an unsigned short makes of a measurement.
Unsigned(w) == IF w < 0 THEN w + 65536 ELSE w

\* icm20608_get_data: the readings are what the chip measured, each in its
\* field, and are scaled by the range the chip really has, even when the write
\* that configures it was lost. A measurement below zero is the exception: the
\* cast to unsigned short loses its sign, and it reads 65536 too high.
IcmReadingRight ==
  acc.pc = "shown" /\ icm.clean =>
    /\ \A i \in 1 .. 7 : icm.dev.adc[i] = Unsigned(chip.motion[i])
    /\ icm.dev.gyroscale = GyroScale(chip.regs[ICM20.GYRO_CONFIG])
    /\ icm.dev.accelscale = AccelScale(chip.regs[ICM20.ACCEL_CONFIG])

\* What icm20608.h says of the readings (they are signed) and what main's
\* integer_display expects (it has a case for num < 0): a measurement below
\* zero is shown as such. The code does not do this, and TLC violates it.
SignKept ==
  acc.pc = "shown" /\ icm.clean => \A i \in 1 .. 7 : icm.dev.adc[i] = chip.motion[i]
=============================================================================
