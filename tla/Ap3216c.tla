------------------------------- MODULE Ap3216c ------------------------------
(***************************************************************************)
(* The light sensor of stage 17: ap3216c_init with the retries of main,    *)
(* and the loop that reads and shows the measurements, over transfers that *)
(* may fail (Xfer) and a sensor that measures on its own.                  *)
(***************************************************************************)
EXTENDS Integers, Sequences

CONSTANTS
  Samples,     \* measurements: [ir, ir_of, ps, ps_of, als]
  MaxFaults    \* transfers that go wrong, in all

Below(n) == {k \in Nat : k < n}

ASSUME ApConstants ==
  /\ Samples \subseteq
       [ir : Below(1024), ir_of : {0, 1}, ps : Below(1024), ps_of : {0, 1}, als : Below(65536)]
  /\ MaxFaults \in Nat

VARIABLES
  active, request, ret, buf, sent,  \* the transfer: see Xfer
  sensor,   \* mode: register SYSTEMCONG; busy: resetting; sample: measured
  ap,       \* pc, bytes: read so far (on the screen: Decode of them), clean: history
  faults    \* the number of transfers that went wrong

apVars == <<active, request, ret, buf, sent, sensor, ap, faults>>

SYSTEMCONG == 0
IRDATALOW == 10

Requests ==
  [dir : {0}, reg : {SYSTEMCONG}, value : {3, 4}, data_len : {1}]
    \cup [dir : {1}, reg : {SYSTEMCONG} \cup IRDATALOW .. IRDATALOW + 5, value : {0}, data_len : {1}]

Bus == INSTANCE Xfer

\* The data registers of the sensor (external).
DataRegister(s, reg) ==
  CASE reg = 10 -> s.ir_of * 128 + (s.ir % 4)
    [] reg = 11 -> s.ir \div 4
    [] reg = 12 -> s.als % 256
    [] reg = 13 -> s.als \div 256
    [] reg = 14 -> s.ps_of * 64 + (s.ps % 16)
    [] reg = 15 -> s.ps_of * 64 + s.ps \div 16

ApInit ==
  /\ Bus!Init /\ request = [dir |-> 1, reg |-> SYSTEMCONG, value |-> 0, data_len |-> 1]
  /\ sensor \in [mode : {0, 3}, busy : {FALSE}, sample : Samples]
  /\ ap = [pc |-> "reset", bytes |-> <<>>, clean |-> TRUE]
  /\ faults = 0

-----------------------------------------------------------------------------
(* The transfers *)

\* The transfer each step of the driver asks for.
Wanted ==
  CASE ap.pc = "reset" -> [dir |-> 0, reg |-> SYSTEMCONG, value |-> 4, data_len |-> 1]
    [] ap.pc = "on" -> [dir |-> 0, reg |-> SYSTEMCONG, value |-> 3, data_len |-> 1]
    [] ap.pc = "check" -> [dir |-> 1, reg |-> SYSTEMCONG, value |-> 0, data_len |-> 1]
    [] ap.pc = "read" ->
         [dir |-> 1, reg |-> IRDATALOW + Len(ap.bytes), value |-> 0, data_len |-> 1]

ApCall ==
  /\ ap.pc \in {"reset", "on", "check", "read"}
  /\ Bus!Call /\ request' = Wanted
  /\ UNCHANGED <<sensor, ap, faults>>

\* A byte that arrives: a reset takes time, and the sensor takes nothing then.
Taken ==
  IF sensor.busy THEN sensor
  ELSE IF request.value = 4 THEN [sensor EXCEPT !.mode = 0, !.busy = TRUE]
  ELSE [sensor EXCEPT !.mode = request.value]

\* What ap3216c_read_byte returns: 0 when the transfer fails.
Got ==
  IF ret' # "OK" THEN 0
  ELSE IF request.reg = SYSTEMCONG THEN sensor.mode
  ELSE DataRegister(sensor.sample, request.reg)

\* Mutated form: no delay.
AfterResetAtOnce == "on"

\* delay_ms(50).
AfterReset == "wait"

\* Mutated form: main takes the sensor to be ready whatever was read back.
CheckedBlindly(data) == "read"

\* The test of ap3216c_init and the retry of main.
Checked(data) == IF data = 3 THEN "read" ELSE "reset"

\* The transfer returns and the driver goes on; ap3216c_init looks at no
\* status.
ApReturn ==
  /\ Bus!Return
  /\ LET good == ret' = "OK" /\ (request.dir = 0 => sent' = 1) IN
       /\ IF good THEN UNCHANGED faults ELSE faults < MaxFaults /\ faults' = faults + 1
       /\ CASE ap.pc = "reset" ->
                 /\ sensor' = IF good THEN Taken ELSE sensor
                 /\ ap' = [ap EXCEPT !.pc = AfterReset]
            [] ap.pc = "on" ->
                 /\ sensor' = IF good THEN Taken ELSE sensor
                 /\ ap' = [ap EXCEPT !.pc = "check"]
            [] ap.pc = "check" -> ap' = [ap EXCEPT !.pc = Checked(Got)] /\ UNCHANGED sensor
            [] ap.pc = "read" ->
                 /\ ap' = [ap EXCEPT !.bytes = Append(@, Got), !.clean = @ /\ good,
                                     !.pc = IF Len(ap.bytes) = 5 THEN "show" ELSE "read"]
                 /\ UNCHANGED sensor

ApWait ==
  /\ ap.pc = "wait"
  /\ ap' = [ap EXCEPT !.pc = "on"]
  /\ sensor' = [sensor EXCEPT !.busy = FALSE]
  /\ UNCHANGED <<active, request, ret, buf, sent, faults>>

-----------------------------------------------------------------------------
(* The readings *)

\* The bit of a mask.
Bit(byte, mask) == (byte \div mask) % 2

\* The end of ap3216c_read_data.
Decode(b) ==
  [ir |-> IF Bit(b[1], 128) = 1 THEN 0 ELSE b[2] * 4 + (b[1] % 4),
   als |-> b[4] * 256 + b[3],
   ps |-> IF Bit(b[5], 64) = 1 THEN 0 ELSE (b[6] % 64) * 16 + (b[5] % 16)]

\* lcd_show_num for the three, and the wait of 120 ms.
ApShow ==
  /\ ap.pc = "show"
  /\ ap' = [ap EXCEPT !.pc = "shown"]
  /\ UNCHANGED <<active, request, ret, buf, sent, sensor, faults>>

ApAgain ==
  /\ ap.pc = "shown"
  /\ ap' = [ap EXCEPT !.pc = "read", !.bytes = <<>>, !.clean = TRUE]
  /\ UNCHANGED <<active, request, ret, buf, sent, sensor, faults>>

\* The sensor measures (external), in the middle of a reading too.
Measure ==
  /\ sensor' \in [mode : {sensor.mode}, busy : {sensor.busy}, sample : Samples]
  /\ ap' = [ap EXCEPT !.clean = @ /\ (ap.bytes = <<>>)]
  /\ UNCHANGED <<active, request, ret, buf, sent, faults>>

-----------------------------------------------------------------------------
\* ap3216c_init: when main says the sensor is ready it is on, whichever of the
\* transfers failed or were cut short.
ApReady == ap.pc \in {"read", "show", "shown"} => sensor.mode = 3 /\ ~sensor.busy

\* ap3216c_read_data: a reading for which no transfer failed and during which
\* the sensor did not measure again is shown as measured, or as 0 when the
\* sensor says that it is not valid.
ReadingRight ==
  ap.pc = "shown" /\ ap.clean =>
    LET s == sensor.sample IN
      Decode(ap.bytes) = [ir |-> (1 - s.ir_of) * s.ir, ps |-> (1 - s.ps_of) * s.ps, als |-> s.als]
=============================================================================
