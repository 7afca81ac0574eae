-------------------------------- MODULE Xfer --------------------------------
(***************************************************************************)
(* What a caller of i2c_master_transfer may rely on: a transfer is one     *)
(* step that returns a status and has moved some data bytes. The driver    *)
(* (I2c) implements it; the drivers of the slaves (Ap3216c) are built on   *)
(* it. A data byte is named by its place, as in I2c.                       *)
(***************************************************************************)
EXTENDS Integers

CONSTANTS Requests  \* the transfers: records with dir and data_len

I2C_WRITE == 0
I2C_READ == 1
Errors == {"BUSY", "NAK", "ARBITRATION_LOST", "ADDR_NAK"}

VARIABLES
  active,   \* a transfer is under way
  request,  \* the last one that was asked for
  ret,      \* its status, "none" until it has returned
  buf,      \* what it has read
  sent      \* the number of data bytes it has put on the bus

vars == <<active, request, ret, buf, sent>>

\* The outcomes of a transfer. An error moves no data. A read that succeeds
\* is complete. A write that succeeds may have been cut short: the driver
\* gives up at a byte the slave refuses, and says nothing.
Outcomes(x) ==
  [ret : Errors, buf : {<<>>}, sent : {0}]
    \cup IF x.dir = I2C_READ
         THEN [ret : {"OK"}, buf : {[k \in 1 .. x.data_len |-> k]}, sent : {0}]
         ELSE [ret : {"OK"}, buf : {<<>>}, sent : 0 .. x.data_len]

Init == active = FALSE /\ request \in Requests /\ ret = "none" /\ buf = <<>> /\ sent = 0

Call ==
  /\ ~active /\ active' = TRUE
  /\ request' \in Requests
  /\ ret' = "none" /\ buf' = <<>> /\ sent' = 0

Return ==
  /\ active /\ active' = FALSE
  /\ \E o \in Outcomes(request) : ret' = o.ret /\ buf' = o.buf /\ sent' = o.sent
  /\ UNCHANGED request

Next == Call \/ Return

Spec == Init /\ [][Next]_vars

\* A transfer that has been started returns.
Returns == active ~> ~active
=============================================================================
