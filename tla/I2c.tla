-------------------------------- MODULE I2c --------------------------------
(***************************************************************************)
(* The polled I2C master driver (i2c.c) on one controller: each action is  *)
(* what the driver does from one hardware wait to the next.  The           *)
(* controller shifts a byte in between; the slave may refuse it, another   *)
(* master may win the bus, and the bus may stay busy after a stop.         *)
(*                                                                         *)
(* A written data byte is named by its place in the caller's buffer, a     *)
(* read one by its place in what the slave sends.                          *)
(***************************************************************************)
EXTENDS Integers, Sequences

CONSTANTS
  Transfers,  \* the i2c_transfer structures callers pass
  StopPolls,  \* timeout of i2c_master_stop: 0xffff
  MaxCalls    \* bound on the transfers of a behaviour

I2C_WRITE == 0
I2C_READ == 1

ASSUME I2cAssumption ==
  /\ \A x \in Transfers :
       /\ x.slave_addr \in 0 .. 127 /\ x.dir \in {I2C_WRITE, I2C_READ}
       /\ x.reg_addr \in Nat /\ x.reg_addr_len \in Nat
       /\ x.data_len \in Nat
  /\ StopPolls \in Nat \ {0} /\ MaxCalls \in Nat

VARIABLES
  pc, xfer, reg_addr_len, size, ret, timeout, buf, calls, \* the driver
  held,                          \* history: a transfer without data has been made
  MSTA, MTX, TXAK,               \* I2CR
  IBB, IAL, IIF, RXAK, I2DR,     \* I2SR, and the byte last received in this call
  shifting,                      \* the byte on the wire; ICF is "none"
  owner,                         \* who drives the bus
  wire                           \* what this master has put on it in this call

driver == <<pc, xfer, reg_addr_len, size, ret, timeout, buf, calls, held>>
vars == <<driver, MSTA, MTX, TXAK, IBB, IAL, IIF, RXAK, I2DR, shifting, owner, wire>>

none == <<"none", 0>>
ICF == shifting = none

Init ==
  /\ pc = "idle" /\ xfer \in Transfers /\ reg_addr_len = 0 /\ size = 0
  /\ ret = "BUSY" /\ timeout = StopPolls /\ buf = <<>> /\ calls = 0
  /\ held = FALSE
  /\ MSTA = FALSE /\ MTX = FALSE /\ TXAK = FALSE
  /\ IBB = FALSE /\ IAL = FALSE /\ IIF = FALSE /\ RXAK = FALSE /\ I2DR = 0
  /\ shifting = none /\ owner = "nobody" /\ wire = <<>>

-----------------------------------------------------------------------------
(* The driver's calls on the controller.                                   *)

\* base->I2DR = b: the controller starts to send.
Send(kind, b) == shifting' = <<kind, b>> /\ UNCHANGED <<TXAK, I2DR>>

\* Reading I2DR gives the last byte and, in master receive mode, starts the
\* reception of the next one.
ReadI2DR(msta, mtx) ==
  shifting' = IF msta /\ ~mtx THEN <<"rx", 0>> ELSE shifting

\* The address byte: bit 0 is the direction.
AddressByte(x, dir) == 2 * x.slave_addr + dir

\* reg_addr >> (8 * len), in an 8-bit register.
RegByte(x, len) == (x.reg_addr \div 256^len) % 256

\* i2c_check_and_clear_error's result.
Status == IF IAL THEN "ARBITRATION_LOST" ELSE IF RXAK THEN "NAK" ELSE "OK"

\* ... and its effect: switching the controller off and on again makes it
\* forget that the bus is busy, or not, as its bus monitor has it.
ClearError ==
  /\ IAL' = FALSE
  /\ IBB' \in IF IAL THEN {IBB, FALSE} ELSE {IBB}

\* i2c_master_stop up to its loop.
i2c_master_stop ==
  /\ MSTA' = FALSE /\ MTX' = FALSE /\ TXAK' = FALSE
  /\ wire' = IF MSTA THEN Append(wire, <<"stop", 0>>) ELSE wire
  /\ timeout' = StopPolls /\ pc' = "stop"

\* i2c_master_transfer up to its wait for ICF.
i2c_master_transfer(x) ==
  /\ pc = "idle" /\ calls < MaxCalls
  /\ xfer' = x /\ reg_addr_len' = x.reg_addr_len
  /\ IIF' = FALSE /\ IAL' = FALSE
  /\ buf' = <<>> /\ wire' = <<>> /\ I2DR' = 0 /\ calls' = calls + 1
  /\ pc' = "transfer"
  /\ UNCHANGED <<size, ret, timeout, held, MSTA, MTX, TXAK, IBB, RXAK, shifting, owner>>

\* A transfer with a register address starts with a write.
i2c_master_start ==
  /\ pc = "transfer" /\ ICF
  /\ \/ /\ IBB
        /\ ret' = "BUSY" /\ pc' = "idle"
        /\ UNCHANGED <<MSTA, MTX, TXAK, IBB, I2DR, shifting, owner>>
     \/ /\ ~IBB
        /\ MSTA' = TRUE /\ MTX' = TRUE /\ IBB' = TRUE
        /\ owner' = IF owner = "nobody" THEN "us" ELSE owner
        /\ Send("start", AddressByte(xfer, IF reg_addr_len > 0 THEN I2C_WRITE ELSE xfer.dir))
        /\ pc' = "start" /\ UNCHANGED ret
  /\ UNCHANGED <<xfer, reg_addr_len, size, timeout, buf, calls, held, IAL, IIF, RXAK, wire>>

\* i2c_master_write up to its first wait.  ICF is set: IIF came with it.
i2c_master_write ==
  /\ MTX' = TRUE /\ IIF' = FALSE
  /\ Send("tx", 1) /\ size' = xfer.data_len - 1
  /\ pc' = "write"
  /\ UNCHANGED <<reg_addr_len, ret, held, MSTA>>

\* i2c_master_read up to its first wait: turn round, NAK an only byte, and
\* start the first reception with a dummy read.
i2c_master_read ==
  /\ MTX' = FALSE /\ IIF' = FALSE
  /\ TXAK' = (xfer.data_len = 1)
  /\ ReadI2DR(MSTA, FALSE) /\ size' = xfer.data_len
  /\ pc' = "read"
  /\ UNCHANGED <<reg_addr_len, ret, held, MSTA, I2DR>>

\* The next byte of the register address.
SendRegister ==
  /\ reg_addr_len' = reg_addr_len - 1 /\ IIF' = FALSE
  /\ Send("tx", RegByte(xfer, reg_addr_len - 1))
  /\ pc' = "register"
  /\ UNCHANGED <<size, ret, held, MSTA, MTX>>

\* Ignored by its caller when it is refused: nothing is sent then.
i2c_master_repeated_start ==
  /\ IIF' = FALSE
  /\ IF IBB /\ ~MSTA
     THEN UNCHANGED <<MTX, TXAK, I2DR, shifting>>
     ELSE MTX' = TRUE /\ Send("restart", AddressByte(xfer, I2C_READ))
  /\ pc' = "restart"
  /\ UNCHANGED <<reg_addr_len, size, ret, held, MSTA>>

\* Neither is called for a transfer without data: it returns as it is, still
\* master of the bus.
NoData ==
  /\ ret' = "OK" /\ pc' = "idle" /\ held' = TRUE
  /\ UNCHANGED <<reg_addr_len, size, MSTA, MTX, TXAK, IIF, I2DR, shifting>>

\* What follows the address phase.
DataPhase ==
  IF xfer.data_len = 0 THEN NoData
  ELSE IF xfer.dir = I2C_WRITE THEN i2c_master_write ELSE i2c_master_read
AfterStart == IF reg_addr_len > 0 THEN SendRegister ELSE DataPhase
AfterRegister ==
  IF reg_addr_len > 0 THEN SendRegister
  ELSE IF xfer.dir = I2C_READ THEN i2c_master_repeated_start
  ELSE DataPhase

\* Mutated form: the result of i2c_master_stop replaces the error.
FailReturnsStop(status) ==
  /\ ret' = "OK" /\ i2c_master_stop
  /\ UNCHANGED <<reg_addr_len, size, held, IIF, I2DR, shifting>>

\* Leaving the transfer with an error: stop, return the status.
Fail(status) ==
  /\ ret' = status /\ i2c_master_stop
  /\ UNCHANGED <<reg_addr_len, size, held, IIF, I2DR, shifting>>
-----------------------------------------------------------------------------
(* The driver after each wait.                                             *)

\* Mutated form: an address that is refused is not followed by a stop.
StartDoneNoStop ==
  /\ pc = "start" /\ IIF
  /\ ClearError
  /\ \/ /\ Status # "OK"
        /\ ret' = Status /\ pc' = "idle"
        /\ UNCHANGED <<reg_addr_len, size, held, IIF, I2DR, shifting, MSTA, MTX, TXAK, timeout, wire>>
     \/ Status = "OK" /\ AfterStart /\ UNCHANGED <<timeout, wire>>
  /\ UNCHANGED <<xfer, buf, calls, RXAK, owner>>

StartDone ==
  /\ pc = "start" /\ IIF
  /\ ClearError
  /\ \/ Status # "OK" /\ Fail(Status)
     \/ Status = "OK" /\ AfterStart /\ UNCHANGED <<timeout, wire>>
  /\ UNCHANGED <<xfer, buf, calls, RXAK, owner>>

RegisterDone ==
  /\ pc = "register" /\ IIF
  /\ ClearError
  /\ \/ Status # "OK" /\ Fail(Status)
     \/ Status = "OK" /\ AfterRegister /\ UNCHANGED <<timeout, wire>>
  /\ UNCHANGED <<xfer, buf, calls, RXAK, owner>>

RestartDone ==
  /\ pc = "restart" /\ IIF
  /\ ClearError
  /\ \/ Status # "OK" /\ Fail("ADDR_NAK")
     \/ Status = "OK" /\ DataPhase /\ UNCHANGED <<timeout, wire>>
  /\ UNCHANGED <<xfer, buf, calls, RXAK, owner>>

\* A refused byte ends the loop; the transfer still returns OK.
WriteDone ==
  /\ pc = "write" /\ IIF
  /\ ClearError /\ IIF' = FALSE
  /\ \/ /\ Status = "OK" /\ size > 0
        /\ Send("tx", xfer.data_len - size + 1) /\ size' = size - 1
        /\ UNCHANGED <<pc, ret, timeout, MSTA, MTX, wire>>
     \/ /\ Status # "OK" \/ size = 0
        /\ ret' = "OK" /\ i2c_master_stop /\ UNCHANGED <<size, I2DR, shifting>>
  /\ UNCHANGED <<xfer, reg_addr_len, buf, calls, held, RXAK, owner>>

\* Mutated form: the last byte is fetched before the stop is sent.
ReadDoneFetchFirst ==
  /\ pc = "read" /\ IIF
  /\ IIF' = FALSE /\ size' = size - 1
  /\ ReadI2DR(MSTA, MTX)
  /\ \/ size = 1 /\ ret' = "OK" /\ i2c_master_stop /\ UNCHANGED buf
     \/ /\ size # 1 /\ TXAK' = (TXAK \/ size = 2)
        /\ buf' = Append(buf, I2DR)
        /\ UNCHANGED <<pc, ret, timeout, MSTA, MTX, wire>>
  /\ UNCHANGED <<xfer, reg_addr_len, calls, held, RXAK, owner, IAL, IBB, I2DR>>

\* The last byte is fetched after the stop, the last but one after the
\* controller has been told to NAK the next.
ReadDone ==
  /\ pc = "read" /\ IIF
  /\ IIF' = FALSE /\ size' = size - 1
  /\ \/ size = 1 /\ ret' = "OK" /\ i2c_master_stop /\ UNCHANGED <<buf, shifting>>
     \/ /\ size # 1 /\ TXAK' = (TXAK \/ size = 2)
        /\ buf' = Append(buf, I2DR) /\ ReadI2DR(MSTA, MTX)
        /\ UNCHANGED <<pc, ret, timeout, MSTA, MTX, wire>>
  /\ UNCHANGED <<xfer, reg_addr_len, calls, held, RXAK, owner, IAL, IBB, I2DR>>

\* Mutated form: i2c_master_stop waits for an idle bus without a timeout.
StopOverUntimed == ~IBB

\* The end of i2c_master_stop's loop.
StopOver == ~IBB \/ timeout = 1

\* One poll of i2c_master_stop; its result is ignored by every caller, and
\* i2c_master_read then fetches the last byte.
StopPoll ==
  /\ pc = "stop"
  /\ \/ ~StopOver /\ timeout' = (timeout - 1) % (StopPolls + 1)
        /\ UNCHANGED <<pc, buf, shifting>>
     \/ /\ StopOver /\ UNCHANGED timeout
        /\ pc' = "idle"
        /\ \/ /\ ret = "OK" /\ xfer.dir = I2C_READ
              /\ buf' = Append(buf, I2DR) /\ ReadI2DR(MSTA, MTX)
           \/ ~(ret = "OK" /\ xfer.dir = I2C_READ) /\ UNCHANGED <<buf, shifting>>
  /\ UNCHANGED <<xfer, reg_addr_len, size, ret, calls, held, MSTA, MTX, TXAK,
                 IBB, IAL, IIF, RXAK, I2DR, owner, wire>>
-----------------------------------------------------------------------------
(* The controller and the bus.                                             *)

\* A byte has been sent: the slave takes or refuses it, or another master
\* has won the bus, which it always has when it held it already.
ByteSent ==
  /\ shifting[1] \in {"start", "restart", "tx"}
  /\ \/ /\ owner = "us"
        /\ wire' = Append(wire, shifting) /\ RXAK' \in BOOLEAN
        /\ UNCHANGED <<MSTA, IAL, owner>>
     \/ /\ IAL' = TRUE /\ MSTA' = FALSE
        /\ owner' = IF owner = "us" THEN "another" ELSE owner
        /\ UNCHANGED <<wire, RXAK>>
  /\ shifting' = none /\ IIF' = TRUE
  /\ UNCHANGED <<driver, MTX, TXAK, IBB, I2DR>>

\* A byte has been received and acknowledged as TXAK says; a NAK may be
\* overridden by another master that acknowledges. A slave that has refused
\* its address sends nothing.
ByteReceived ==
  /\ shifting[1] = "rx"
  /\ I2DR' = IF RXAK THEN 0 ELSE I2DR + 1
  /\ wire' = Append(wire, <<IF TXAK THEN "nak" ELSE "ack", I2DR'>>)
  /\ \/ UNCHANGED <<MSTA, IAL, owner>>
     \/ TXAK /\ IAL' = TRUE /\ MSTA' = FALSE /\ owner' = "another"
  /\ shifting' = none /\ IIF' = TRUE
  /\ UNCHANGED <<driver, MTX, TXAK, IBB, RXAK>>

SetOwner(o) ==
  /\ owner' = o /\ IBB' = (o # "nobody")
  /\ UNCHANGED <<driver, MSTA, MTX, TXAK, IAL, IIF, RXAK, I2DR, shifting, wire>>

\* The stop condition has reached the bus; other masters come and go.
BusIdle == owner = "us" /\ ~MSTA /\ ICF /\ SetOwner("nobody")
OthersStart == owner = "nobody" /\ ICF /\ SetOwner("another")
OthersStop == owner = "another" /\ SetOwner("nobody")

AfterWait ==
  \/ i2c_master_start \/ StartDone \/ RegisterDone \/ RestartDone
  \/ WriteDone \/ ReadDone \/ StopPoll
Bus == ByteSent \/ ByteReceived \/ BusIdle \/ OthersStart \/ OthersStop

Next == (\E x \in Transfers : i2c_master_transfer(x)) \/ AfterWait \/ Bus

Spec == Init /\ [][Next]_vars

\* The core executes and the controller finishes the byte it has begun;
\* nothing is assumed of other masters, nor of the bus after a stop.
FairSpec == Spec /\ WF_vars(AfterWait) /\ WF_vars(ByteSent) /\ WF_vars(ByteReceived)

-----------------------------------------------------------------------------
\* What the wire has to carry: addresses, register and data, in order.
AddressPhase(x) ==
  LET direct == x.reg_addr_len = 0
      first == <<"start", AddressByte(x, IF direct THEN x.dir ELSE I2C_WRITE)>>
      register == [k \in 1 .. x.reg_addr_len |-> <<"tx", RegByte(x, x.reg_addr_len - k)>>]
      again == <<"restart", AddressByte(x, I2C_READ)>>
  IN  <<first>> \o register \o (IF x.dir = I2C_READ /\ ~direct THEN <<again>> ELSE <<>>)

Data(x) ==
  [k \in 1 .. x.data_len |->
     <<IF x.dir = I2C_WRITE THEN "tx" ELSE IF k < x.data_len THEN "ack" ELSE "nak", k>>]

Stopped == wire # <<>> /\ wire[Len(wire)][1] = "stop"
Carried == IF Stopped THEN SubSeq(wire, 1, Len(wire) - 1) ELSE wire

TypeOK ==
  /\ pc \in {"idle", "transfer", "start", "register", "restart", "write", "read", "stop"}
  /\ xfer \in Transfers
  /\ reg_addr_len \in 0 .. xfer.reg_addr_len
  /\ size \in Nat /\ (pc \in {"write", "read"} => size \in 0 .. xfer.data_len)
  /\ ret \in {"OK", "BUSY", "NAK", "ARBITRATION_LOST", "ADDR_NAK"}
  /\ timeout \in 1 .. StopPolls /\ calls \in 0 .. MaxCalls
  /\ buf \in Seq(Nat) /\ I2DR \in Nat
  /\ {MSTA, MTX, TXAK, IBB, IAL, IIF, RXAK, held} \subseteq BOOLEAN
  /\ owner \in {"nobody", "us", "another"}
  /\ shifting[1] \in {"none", "start", "restart", "tx", "rx"} /\ shifting[2] \in Nat

\* At every moment the wire carries a beginning of what the transfer has to
\* put on it: register bytes high byte first, every read byte but the last
\* acknowledged, and never a byte more than asked for.
WireFollows ==
  LET whole == AddressPhase(xfer) \o Data(xfer)
  IN  pc # "idle" \/ calls > 0 =>
        /\ Len(Carried) <= Len(whole)
        /\ Carried = SubSeq(whole, 1, Len(Carried))

\* Every return leaves the controller as the next transfer needs it, on
\* every path but one: not master, no byte under way, and the bus given up
\* with a stop unless another master took it. The one is a transfer without
\* data: it keeps the bus, and every later call finds it busy.
ReleasesBus ==
  pc = "idle" =>
    /\ ~TXAK /\ ICF
    /\ IF held THEN MSTA /\ IBB /\ owner = "us"
       ELSE ~MSTA /\ (owner = "us" /\ wire # <<>> => Stopped)

\* What a caller sees of a transfer, once it has returned.
Seen(value, before) == IF pc = "idle" /\ calls > 0 THEN value ELSE before
DataSent ==
  IF xfer.dir = I2C_READ THEN 0
  ELSE IF Len(Carried) > Len(AddressPhase(xfer)) THEN Len(Carried) - Len(AddressPhase(xfer)) ELSE 0

X == INSTANCE Xfer WITH
  Requests <- Transfers, active <- pc # "idle", request <- xfer,
  ret <- Seen(ret, "none"), buf <- Seen(buf, <<>>), sent <- Seen(DataSent, 0)

\* The driver implements what its callers rely on (Xfer): one outcome for
\* each call. OK from a read means that the buffer holds the bytes the slave
\* sent, in order and complete; an error, that no data byte has been moved, so
\* that a retry repeats nothing.
ImplementsXfer == X!Spec

\* A transfer returns, whatever the slave and other masters do: the only
\* wait that depends on them is the one i2c_master_stop bounds.
TransferReturns == X!Returns

\* What i2c_master_transfer's header says: the result 0 means success. For a
\* write, that the slave has taken every byte.
OkMeansWritten ==
  pc = "idle" /\ calls > 0 /\ ret = "OK" /\ xfer.dir = I2C_WRITE =>
    Carried = AddressPhase(xfer) \o Data(xfer) /\ ~RXAK
=============================================================================
