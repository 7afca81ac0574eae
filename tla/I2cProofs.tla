----------------------------- MODULE I2cProofs ------------------------------
(***************************************************************************)
(* The I2C master, for every set of transfers of any length: the wire      *)
(* carries what the transfer asks for and nothing else, every return gives *)
(* the bus up, and each call has one of the outcomes its callers know      *)
(* (Xfer).                                                                 *)
(***************************************************************************)
EXTENDS I2c, SequenceTheorems, TLAPS

-----------------------------------------------------------------------------
(* What a transfer puts on the wire, byte by byte.                         *)

Whole(x) == AddressPhase(x) \o Data(x)

\* The bytes of the address phase, and of the whole transfer.
AddrLen(x) == 1 + x.reg_addr_len + (IF x.dir = I2C_READ /\ x.reg_addr_len > 0 THEN 1 ELSE 0)
WholeLen(x) == AddrLen(x) + x.data_len

Symbols(x) == {Whole(x)[k] : k \in 1 .. WholeLen(x)}

\* w is the first n bytes of the transfer.
Holds(x, w, n) ==
  /\ w \in Seq(Symbols(x)) /\ Len(w) = n
  /\ \A k \in 1 .. n : w[k] = Whole(x)[k]

\* v is that, and perhaps the stop behind it.
Ends(x, v, n) ==
  \E w \in Seq(Symbols(x)) : Holds(x, w, n) /\ (v = w \/ v = Append(w, <<"stop", 0>>))

-----------------------------------------------------------------------------
(* The inductive invariant.                                                *)

Moving == {"start", "register", "restart", "write", "read"}

\* The byte of the transfer that is sent or received.
Place ==
  CASE pc = "start" -> 1
    [] pc = "register" -> 1 + xfer.reg_addr_len - reg_addr_len
    [] pc = "restart" -> 2 + xfer.reg_addr_len
    [] pc = "write" -> AddrLen(xfer) + xfer.data_len - size
    [] pc = "read" -> AddrLen(xfer) + xfer.data_len - size + 1

Types ==
  /\ pc \in {"idle", "transfer", "stop"} \cup Moving
  /\ xfer \in Transfers /\ calls \in Nat
  /\ owner \in {"nobody", "us", "another"}
  /\ MSTA \in BOOLEAN /\ TXAK \in BOOLEAN /\ IAL \in BOOLEAN /\ IIF \in BOOLEAN /\ RXAK \in BOOLEAN
  /\ held \in BOOLEAN
  /\ pc # "idle" => calls > 0

\* Where the counters of the driver are in each of its waits.
PhaseInv ==
  /\ pc \in {"transfer", "start"} => reg_addr_len = xfer.reg_addr_len
  /\ pc = "register" => reg_addr_len \in 0 .. xfer.reg_addr_len - 1
  /\ pc = "restart" => xfer.reg_addr_len > 0 /\ xfer.dir = I2C_READ
  /\ pc = "write" => xfer.dir = I2C_WRITE /\ size \in 0 .. xfer.data_len - 1
  /\ pc = "read" => xfer.dir = I2C_READ /\ size \in 1 .. xfer.data_len /\ ~MTX /\ ~RXAK

\* A byte is under way, has been moved, or was lost to another master.
UnderWay ==
  /\ MSTA /\ ~IAL /\ ~IIF /\ Holds(xfer, wire, Place - 1)
  /\ shifting = IF pc = "read" THEN <<"rx", 0>> ELSE Whole(xfer)[Place]
  /\ pc = "read" => owner = "us"
Moved ==
  MSTA /\ ~IAL /\ IIF /\ owner = "us" /\ Holds(xfer, wire, Place) /\ shifting = none
Lost ==
  /\ ~MSTA /\ IAL /\ IIF /\ owner # "us" /\ shifting = none
  /\ IF pc = "read" THEN Holds(xfer, wire, Place) /\ size = 1 ELSE Holds(xfer, wire, Place - 1)

MovingInv == pc \in Moving => UnderWay \/ Moved \/ Lost

\* The first n bytes of a read.
Got(n) == [k \in 1 .. n |-> k]

\* What has been read; the last byte is to be refused.
BufferInv ==
  /\ pc \in {"transfer", "start", "register", "restart", "write"} => buf = Got(0) /\ I2DR = 0
  /\ pc = "read" =>
       /\ buf = Got(xfer.data_len - size)
       /\ I2DR = xfer.data_len - size + (IF shifting = none THEN 1 ELSE 0)
  /\ TXAK <=> pc = "read" /\ size = 1

\* Before a transfer starts and after it has ended the controller is no master,
\* unless one without data left it so.
RestInv ==
  pc \in {"idle", "transfer", "stop"} =>
    /\ MSTA => held
    /\ shifting = none
    /\ pc = "transfer" => wire = <<>> /\ ~IAL /\ ~IIF
    /\ owner = "us" /\ wire # <<>> /\ ~held => Stopped
    /\ pc = "stop" /\ owner = "us" => Stopped

\* A bus this master holds is busy. Once it is held without a stop every call
\* is turned away.
HeldInv ==
  /\ MSTA /\ owner = "us" => IBB
  /\ held => pc \in {"idle", "transfer"} /\ MSTA /\ owner = "us"

\* The outcome that a stop leads to, and that a return has.
OutcomeInv ==
  pc = "stop" \/ (pc = "idle" /\ calls > 0) =>
    \E n \in 0 .. WholeLen(xfer) :
      /\ Ends(xfer, wire, n)
      /\ ret \in {"OK", "BUSY", "NAK", "ARBITRATION_LOST", "ADDR_NAK"}
      /\ IF ret = "OK" /\ xfer.dir = I2C_READ
         THEN /\ buf = Got(IF pc = "stop" THEN xfer.data_len - 1 ELSE xfer.data_len)
              /\ I2DR = xfer.data_len /\ (pc = "stop" => xfer.data_len > 0)
         ELSE buf = Got(0)
      /\ ret # "OK" => n <= AddrLen(xfer)

IInv == Types /\ PhaseInv /\ MovingInv /\ BufferInv /\ RestInv /\ HeldInv /\ OutcomeInv

-----------------------------------------------------------------------------
(* The bytes of a transfer.                                                *)

\* A sequence that is given by its elements.
LEMMA SeqOfElements ==
  ASSUME NEW S, NEW n \in Nat, NEW f \in [1 .. n -> S]
  PROVE  f \in Seq(S) /\ Len(f) = n
OBVIOUS

\* The elements of two sequences that are put together.
LEMMA Join ==
  ASSUME NEW S, NEW s \in Seq(S), NEW t \in Seq(S), NEW j, j = s \o t
  PROVE  /\ j \in Seq(S) /\ Len(j) = Len(s) + Len(t)
         /\ \A k \in 1 .. Len(s) : j[k] = s[k]
         /\ \A k \in 1 .. Len(t) : j[Len(s) + k] = t[k]
BY ConcatProperties, LenProperties

\* ... and of three.
LEMMA Join3 ==
  ASSUME NEW S, NEW a \in Seq(S), NEW r \in Seq(S), NEW z \in Seq(S),
         NEW h, h = a \o r, NEW p, p = h \o z
  PROVE  /\ p \in Seq(S) /\ Len(p) = Len(a) + Len(r) + Len(z)
         /\ \A k \in 1 .. Len(a) : p[k] = a[k]
         /\ \A k \in 1 .. Len(r) : p[Len(a) + k] = r[k]
         /\ \A k \in 1 .. Len(z) : p[Len(a) + Len(r) + k] = z[k]
<1>1. h \in Seq(S)
  BY Join
<1>2. /\ Len(h) = Len(a) + Len(r)
      /\ \A k \in 1 .. Len(a) : h[k] = a[k]
      /\ \A k \in 1 .. Len(r) : h[Len(a) + k] = r[k]
  BY Join
<1>3. /\ p \in Seq(S) /\ Len(p) = Len(h) + Len(z)
      /\ \A k \in 1 .. Len(h) : p[k] = h[k]
      /\ \A k \in 1 .. Len(z) : p[Len(h) + k] = z[k]
  BY <1>1, Join
<1>4. Len(a) \in Nat /\ Len(r) \in Nat /\ Len(z) \in Nat
  BY LenProperties
<1>5. QED
  BY <1>2, <1>3, <1>4

\* A sequence consists of its elements.
LEMMA OwnElements ==
  ASSUME NEW S, NEW s \in Seq(S), NEW T, T = {s[k] : k \in 1 .. Len(s)}
  PROVE  s \in Seq(T)
<1>1. Len(s) \in Nat /\ s \in [1 .. Len(s) -> T]
  BY LenProperties
<1>2. QED
  BY <1>1, SeqOfElements

\* The address phase: the start, the register from its highest byte, and a
\* repeated start before a read.
LEMMA PhaseBytes ==
  ASSUME NEW x \in Transfers
  PROVE  /\ AddressPhase(x) \in Seq({AddressPhase(x)[k] : k \in 1 .. AddrLen(x)})
         /\ Len(AddressPhase(x)) = AddrLen(x)
         /\ AddressPhase(x)[1] = <<"start", AddressByte(x, IF x.reg_addr_len > 0 THEN I2C_WRITE ELSE x.dir)>>
         /\ \A k \in 1 .. x.reg_addr_len : AddressPhase(x)[k + 1] = <<"tx", RegByte(x, x.reg_addr_len - k)>>
         /\ x.dir = I2C_READ /\ x.reg_addr_len > 0 =>
              AddressPhase(x)[x.reg_addr_len + 2] = <<"restart", AddressByte(x, I2C_READ)>>
<1> DEFINE L == x.reg_addr_len
           first == <<"start", AddressByte(x, IF L = 0 THEN x.dir ELSE I2C_WRITE)>>
           register == [k \in 1 .. L |-> <<"tx", RegByte(x, L - k)>>]
           again == <<"restart", AddressByte(x, I2C_READ)>>
           last == IF x.dir = I2C_READ /\ ~(L = 0) THEN <<again>> ELSE <<>>
           S == {first, again} \cup {<<"tx", RegByte(x, L - k)>> : k \in 1 .. L}
<1>1. L \in Nat
  BY I2cAssumption
<1>2. AddressPhase(x) = <<first>> \o register \o last
  BY DEF AddressPhase
<1>3. register \in Seq(S) /\ Len(register) = L
  <2>1. register \in [1 .. L -> S]
    OBVIOUS
  <2>2. QED
    BY <1>1, <2>1, SeqOfElements
<1>4. \A k \in 1 .. L : register[k] = <<"tx", RegByte(x, L - k)>>
  OBVIOUS
<1>5. <<first>> \in Seq(S) /\ Len(<<first>>) = 1 /\ <<first>>[1] = first
  OBVIOUS
<1>6. /\ last \in Seq(S) /\ Len(last) = (IF x.dir = I2C_READ /\ L > 0 THEN 1 ELSE 0)
      /\ x.dir = I2C_READ /\ L > 0 => last[1] = again
  BY <1>1
<1> HIDE DEF first, register, again, last, S
<1>7. PICK a \in Seq(S), r \in Seq(S), z \in Seq(S) : a = <<first>> /\ r = register /\ z = last
  BY <1>3, <1>5, <1>6, Zenon
<1>8. PICK h, ph : h = a \o r /\ ph = h \o z
  BY Zenon
<1>9. /\ ph \in Seq(S) /\ Len(ph) = Len(a) + Len(r) + Len(z)
      /\ \A k \in 1 .. Len(a) : ph[k] = a[k]
      /\ \A k \in 1 .. Len(r) : ph[Len(a) + k] = r[k]
      /\ \A k \in 1 .. Len(z) : ph[Len(a) + Len(r) + k] = z[k]
  BY <1>8, Join3
<1>10. AddressPhase(x) = ph
  BY <1>2, <1>7, <1>8, Zenon
<1>11. Len(a) = 1 /\ a[1] = first /\ Len(r) = L
  BY <1>3, <1>5, <1>7, Zenon
<1>12. ph[1] = first
  BY <1>1, <1>9, <1>11
<1>13. \A k \in 1 .. L : ph[k + 1] = r[k]
  BY <1>1, <1>9, <1>11
<1>14. x.dir = I2C_READ /\ L > 0 => ph[L + 2] = z[1]
  <2>1. x.dir = I2C_READ /\ L > 0 => 1 \in 1 .. Len(z)
    BY <1>6, <1>7
  <2>2. Len(a) + Len(r) + 1 = L + 2
    BY <1>1, <1>11
  <2>3. QED
    BY <1>9, <2>1, <2>2
<1>15. Len(ph) = AddrLen(x)
  BY <1>1, <1>6, <1>7, <1>9, <1>11 DEF AddrLen
<1>16. QED
  <2>1. \A k \in 1 .. L : ph[k + 1] = <<"tx", RegByte(x, L - k)>>
    BY <1>4, <1>7, <1>13, Zenon
  <2>2. x.dir = I2C_READ /\ L > 0 => ph[L + 2] = again
    BY <1>6, <1>7, <1>14, Zenon
  <2>3. ph[1] = <<"start", AddressByte(x, IF L > 0 THEN I2C_WRITE ELSE x.dir)>>
    BY <1>1, <1>12 DEF first
  <2>4. ph \in Seq({ph[k] : k \in 1 .. Len(ph)})
    <3>1. PICK T : T = {ph[k] : k \in 1 .. Len(ph)}
      BY Zenon
    <3>2. QED
      BY <1>9, <3>1, OwnElements, Zenon
  <2>5. QED
    BY <1>10, <1>15, <2>1, <2>2, <2>3, <2>4, Zenon DEF again

\* The address phase and the data behind it.
LEMMA WholeBytes ==
  ASSUME NEW x \in Transfers
  PROVE  /\ Len(Whole(x)) = WholeLen(x) /\ Whole(x) \in Seq(Symbols(x))
         /\ \A k \in 1 .. AddrLen(x) : Whole(x)[k] = AddressPhase(x)[k]
         /\ \A k \in 1 .. x.data_len : Whole(x)[AddrLen(x) + k] = Data(x)[k]
<1> DEFINE P == AddressPhase(x)
           D == Data(x)
           S == {P[k] : k \in 1 .. AddrLen(x)} \cup {D[k] : k \in 1 .. x.data_len}
<1>1. x.data_len \in Nat
  BY I2cAssumption
<1>2. D \in Seq(S) /\ Len(D) = x.data_len
  <2>1. D \in [1 .. x.data_len -> {D[k] : k \in 1 .. x.data_len}]
    BY DEF Data
  <2>2. D \in [1 .. x.data_len -> S]
    BY <2>1
  <2>3. QED
    BY <1>1, <2>2, SeqOfElements
<1>3. P \in Seq(S) /\ Len(P) = AddrLen(x)
  <2>1. PICK T : T = {P[k] : k \in 1 .. AddrLen(x)} /\ T \subseteq S
    BY Zenon
  <2>2. P \in Seq(T) /\ Len(P) = AddrLen(x)
    BY <2>1, PhaseBytes, Zenon
  <2>3. QED
    BY <2>1, <2>2, SeqMonotonic, Zenon
<1> HIDE DEF P, D, S
<1>4. PICK s \in Seq(S), t \in Seq(S) : s = P /\ t = D /\ Whole(x) = s \o t
  BY <1>2, <1>3, Zenon DEF Whole, P, D
<1>5. /\ Whole(x) \in Seq(S) /\ Len(Whole(x)) = Len(P) + Len(D)
      /\ \A k \in 1 .. Len(P) : Whole(x)[k] = P[k]
      /\ \A k \in 1 .. Len(D) : Whole(x)[Len(P) + k] = D[k]
  <2>1. PICK w : w = Whole(x)
    OBVIOUS
  <2>2. /\ w \in Seq(S) /\ Len(w) = Len(s) + Len(t)
        /\ \A k \in 1 .. Len(s) : w[k] = s[k]
        /\ \A k \in 1 .. Len(t) : w[Len(s) + k] = t[k]
    BY <1>4, <2>1, Join
  <2>3. QED
    BY <1>4, <2>1, <2>2, Zenon
<1>6. Len(Whole(x)) = WholeLen(x)
  BY <1>2, <1>3, <1>5, Zenon DEF WholeLen
<1>7. Whole(x) \in Seq(Symbols(x))
  <2>1. PICK w \in Seq(S) : w = Whole(x)
    BY <1>5, Zenon
  <2>2. PICK T : T = {w[k] : k \in 1 .. Len(w)}
    BY Zenon
  <2>3. w \in Seq(T)
    BY <2>2, OwnElements, Zenon
  <2>4. QED
    BY <1>6, <2>1, <2>2, <2>3, Zenon DEF Symbols
<1>8. QED
  BY <1>2, <1>3, <1>5, <1>6, <1>7, Zenon DEF P, D

\* Byte by byte.
LEMMA Bytes ==
  ASSUME NEW x \in Transfers
  PROVE  /\ x.reg_addr_len \in Nat /\ x.data_len \in Nat /\ x.dir \in {I2C_WRITE, I2C_READ}
         /\ AddrLen(x) \in Nat \ {0} /\ WholeLen(x) = AddrLen(x) + x.data_len
         /\ Whole(x)[1] = <<"start", AddressByte(x, IF x.reg_addr_len > 0 THEN I2C_WRITE ELSE x.dir)>>
         /\ \A k \in 1 .. x.reg_addr_len : Whole(x)[k + 1] = <<"tx", RegByte(x, x.reg_addr_len - k)>>
         /\ x.dir = I2C_READ /\ x.reg_addr_len > 0 =>
              Whole(x)[x.reg_addr_len + 2] = <<"restart", AddressByte(x, I2C_READ)>>
         /\ x.dir = I2C_WRITE => \A k \in 1 .. x.data_len : Whole(x)[AddrLen(x) + k] = <<"tx", k>>
         /\ x.dir = I2C_READ =>
              \A k \in 1 .. x.data_len :
                Whole(x)[AddrLen(x) + k] = <<IF k < x.data_len THEN "ack" ELSE "nak", k>>
<1> DEFINE L == x.reg_addr_len
<1>1. L \in Nat /\ x.data_len \in Nat /\ x.dir \in {I2C_WRITE, I2C_READ}
  BY I2cAssumption
<1>2. AddrLen(x) \in Nat \ {0} /\ WholeLen(x) = AddrLen(x) + x.data_len
  BY <1>1 DEF AddrLen, WholeLen
<1>3. \A k \in 1 .. AddrLen(x) : Whole(x)[k] = AddressPhase(x)[k]
  BY WholeBytes
<1>4. \A k \in 1 .. x.data_len : Whole(x)[AddrLen(x) + k] = Data(x)[k]
  BY WholeBytes
<1>5. Whole(x)[1] = AddressPhase(x)[1]
  BY <1>2, <1>3
<1>6. \A k \in 1 .. L : Whole(x)[k + 1] = AddressPhase(x)[k + 1]
  BY <1>1, <1>3 DEF AddrLen
<1>7. x.dir = I2C_READ /\ L > 0 => Whole(x)[L + 2] = AddressPhase(x)[L + 2]
  BY <1>1, <1>3 DEF AddrLen
<1>8. \A k \in 1 .. x.data_len :
        Data(x)[k] = <<IF x.dir = I2C_WRITE THEN "tx" ELSE IF k < x.data_len THEN "ack" ELSE "nak", k>>
  BY DEF Data
<1>9. Whole(x)[1] = <<"start", AddressByte(x, IF L > 0 THEN I2C_WRITE ELSE x.dir)>>
  BY <1>5, PhaseBytes, Zenon
<1>10. \A k \in 1 .. L : Whole(x)[k + 1] = <<"tx", RegByte(x, L - k)>>
  BY <1>6, PhaseBytes, Zenon
<1>11. x.dir = I2C_READ /\ L > 0 => Whole(x)[L + 2] = <<"restart", AddressByte(x, I2C_READ)>>
  BY <1>7, PhaseBytes, Zenon
<1>12. x.dir = I2C_WRITE => \A k \in 1 .. x.data_len : Whole(x)[AddrLen(x) + k] = <<"tx", k>>
  BY <1>4, <1>8
<1>13. x.dir = I2C_READ =>
         \A k \in 1 .. x.data_len : Whole(x)[AddrLen(x) + k] = <<IF k < x.data_len THEN "ack" ELSE "nak", k>>
  BY <1>4, <1>8 DEF I2C_READ, I2C_WRITE
<1>14. QED
  BY <1>1, <1>2, <1>9, <1>10, <1>11, <1>12, <1>13, Zenon

\* No byte of a transfer is a stop, and none is told as received before it has been.
LEMMA NoStop ==
  ASSUME NEW x \in Transfers, NEW k \in 1 .. WholeLen(x)
  PROVE  Whole(x)[k][1] # "stop" /\ Whole(x)[k][1] # "rx"
<1>1. /\ x.reg_addr_len \in Nat /\ x.data_len \in Nat /\ x.dir \in {I2C_WRITE, I2C_READ}
      /\ AddrLen(x) \in Nat \ {0} /\ WholeLen(x) = AddrLen(x) + x.data_len
  BY Bytes
<1>2. CASE k = 1
  BY <1>2, Bytes
<1>3. CASE k \in 2 .. x.reg_addr_len + 1
  <2>1. k - 1 \in 1 .. x.reg_addr_len /\ (k - 1) + 1 = k
    BY <1>1, <1>3
  <2>2. Whole(x)[(k - 1) + 1] = <<"tx", RegByte(x, x.reg_addr_len - (k - 1))>>
    BY <2>1, Bytes
  <2>3. QED
    BY <2>1, <2>2
<1>4. CASE k = x.reg_addr_len + 2 /\ x.reg_addr_len > 0 /\ x.dir = I2C_READ
  <2>1. Whole(x)[x.reg_addr_len + 2] = <<"restart", AddressByte(x, I2C_READ)>>
    BY <1>4, Bytes, Zenon
  <2>2. QED
    BY <1>4, <2>1
<1>5. CASE k > AddrLen(x)
  <2>1. k - AddrLen(x) \in 1 .. x.data_len /\ AddrLen(x) + (k - AddrLen(x)) = k
    BY <1>1, <1>5
  <2>2. Whole(x)[AddrLen(x) + (k - AddrLen(x))][1] \in {"tx", "ack", "nak"}
    BY <1>1, <2>1, Bytes
  <2>3. QED
    BY <2>1, <2>2
<1>6. QED
  BY <1>1, <1>2, <1>3, <1>4, <1>5 DEF AddrLen

-----------------------------------------------------------------------------
(* The wire.                                                               *)

\* What Append does to the elements.
LEMMA AppendBytes ==
  ASSUME NEW S, NEW w \in Seq(S), NEW e, NEW v, v = Append(w, e)
  PROVE  /\ v # <<>> /\ Len(v) = Len(w) + 1 /\ v[Len(v)] = e
         /\ \A k \in 1 .. Len(w) : v[k] = w[k]
         /\ e \in S => v \in Seq(S)
         /\ SubSeq(v, 1, Len(v) - 1) = w
<1>1. PICK T : T = S \cup {e}
  BY Zenon
<1>2. w \in Seq(T) /\ e \in T
  BY <1>1, SeqMonotonic
<1>3. /\ v # <<>> /\ Len(v) = Len(w) + 1 /\ v[Len(v)] = e
      /\ \A k \in 1 .. Len(w) : v[k] = w[k]
      /\ v \in Seq(T)
  BY <1>2, AppendProperties, LenProperties
<1>4. e \in S => v \in Seq(S)
  BY AppendProperties
<1>5. Len(w) \in Nat
  BY LenProperties
<1>6. SubSeq(v, 1, Len(v) - 1) = w
  <2>1. SubSeq(v, 1, Len(w)) = [k \in 1 .. Len(w) |-> v[k]]
    BY <1>3, <1>5
  <2>2. w = [k \in 1 .. Len(w) |-> w[k]]
    BY LenProperties
  <2>3. QED
    BY <1>3, <1>5, <2>1, <2>2
<1>7. QED
  BY <1>3, <1>4, <1>6

\* Nothing is the beginning of every transfer.
LEMMA HoldsNothing ==
  ASSUME NEW x \in Transfers
  PROVE  Holds(x, <<>>, 0)
BY DEF Holds

\* The next byte.
LEMMA HoldsNext ==
  ASSUME NEW x \in Transfers, NEW w, NEW n \in Nat, n < WholeLen(x), Holds(x, w, n),
         NEW v, v = Append(w, Whole(x)[n + 1])
  PROVE  Holds(x, v, n + 1)
<1>1. WholeLen(x) \in Nat
  BY Bytes
<1>2. Whole(x)[n + 1] \in Symbols(x)
  BY <1>1 DEF Symbols
<1>3. PICK e \in Symbols(x) : e = Whole(x)[n + 1]
  BY <1>2
<1>4. PICK u \in Seq(Symbols(x)) : u = w /\ Len(u) = n /\ \A k \in 1 .. n : u[k] = Whole(x)[k]
  BY DEF Holds
<1>5. /\ v \in Seq(Symbols(x)) /\ Len(v) = n + 1 /\ v[n + 1] = e
      /\ \A k \in 1 .. n : v[k] = u[k]
  BY <1>3, <1>4, AppendBytes
<1>6. QED
  BY <1>3, <1>4, <1>5 DEF Holds

\* A stop may follow.
LEMMA HoldsEnds ==
  ASSUME NEW x \in Transfers, NEW w, NEW n \in Nat, Holds(x, w, n), NEW v, v = Append(w, <<"stop", 0>>)
  PROVE  /\ Ends(x, w, n) /\ Ends(x, v, n)
         /\ v # <<>> /\ v[Len(v)][1] = "stop"
<1>1. w \in Seq(Symbols(x))
  BY DEF Holds
<1>2. Ends(x, w, n) /\ Ends(x, v, n)
  BY <1>1 DEF Ends
<1>3. v # <<>> /\ v[Len(v)] = <<"stop", 0>>
  BY <1>1, AppendBytes
<1>4. QED
  BY <1>2, <1>3

\* The stop is told from the bytes: what is before it is the transfer's.
LEMMA EndsCarried ==
  ASSUME NEW x \in Transfers, NEW n \in 0 .. WholeLen(x), NEW v, Ends(x, v, n),
         NEW c, c = IF v # <<>> /\ v[Len(v)][1] = "stop" THEN SubSeq(v, 1, Len(v) - 1) ELSE v
  PROVE  Holds(x, c, n)
<1>1. PICK w \in Seq(Symbols(x)) : Holds(x, w, n) /\ (v = w \/ v = Append(w, <<"stop", 0>>))
  BY DEF Ends
<1>2. CASE v = w
  <2>1. Len(w) = n /\ \A k \in 1 .. n : w[k] = Whole(x)[k]
    BY <1>1 DEF Holds
  <2>2. v # <<>> => n > 0
    BY <1>1, <1>2, <2>1, EmptySeq
  <2>3. WholeLen(x) \in Nat
    BY Bytes
  <2>4. v # <<>> => v[Len(v)][1] # "stop"
    BY <1>2, <2>1, <2>2, <2>3, NoStop
  <2>5. QED
    BY <1>1, <1>2, <2>4
<1>3. CASE v = Append(w, <<"stop", 0>>)
  <2>1. v # <<>> /\ v[Len(v)] = <<"stop", 0>> /\ SubSeq(v, 1, Len(v) - 1) = w
    BY <1>3, AppendBytes
  <2>2. v[Len(v)][1] = "stop"
    BY <2>1
  <2>3. QED
    BY <1>1, <2>1, <2>2, Zenon
<1>4. QED
  BY <1>1, <1>2, <1>3

\* The first n bytes as WireFollows has them.
LEMMA HoldsSubSeq ==
  ASSUME NEW x \in Transfers, NEW n \in 0 .. WholeLen(x), NEW w, Holds(x, w, n)
  PROVE  Len(w) = n /\ n <= Len(Whole(x)) /\ w = SubSeq(Whole(x), 1, n)
<1>1. Len(Whole(x)) = WholeLen(x) /\ Whole(x) \in Seq(Symbols(x))
  BY WholeBytes
<1>2. WholeLen(x) \in Nat
  BY Bytes
<1>3. PICK u, W \in Seq(Symbols(x)) :
         /\ u \in Seq(Symbols(x)) /\ u = w /\ W = Whole(x)
         /\ Len(u) = n /\ \A k \in 1 .. n : u[k] = W[k]
  BY <1>1 DEF Holds
<1>4. SubSeq(W, 1, n) = [k \in 1 .. n |-> W[k]]
  BY <1>1, <1>2, <1>3
<1>5. u = [k \in 1 .. n |-> u[k]]
  BY <1>3, LenProperties
<1>6. u = SubSeq(W, 1, n)
  BY <1>3, <1>4, <1>5
<1>7. QED
  BY <1>1, <1>2, <1>3, <1>6

\* One more byte of a read.
LEMMA GotNext ==
  ASSUME NEW n \in Nat
  PROVE  Got(0) = <<>> /\ Append(Got(n), n + 1) = Got(n + 1)
<1>1. Got(0) = <<>>
  BY DEF Got
<1>2. Got(n) \in Seq(Nat) /\ Len(Got(n)) = n
  <2>1. Got(n) \in [1 .. n -> Nat]
    BY DEF Got
  <2>2. QED
    BY <2>1, SeqOfElements
<1>3. PICK g \in Seq(Nat) : g = Got(n)
  BY <1>2
<1>4. PICK v : v = Append(g, n + 1)
  BY Zenon
<1>5. /\ v \in Seq(Nat) /\ Len(v) = n + 1 /\ v[n + 1] = n + 1
      /\ \A k \in 1 .. n : v[k] = g[k]
  BY <1>2, <1>3, <1>4, AppendBytes
<1>6. v = [k \in 1 .. n + 1 |-> v[k]]
  BY <1>5, LenProperties
<1>7. \A k \in 1 .. n + 1 : v[k] = k
  BY <1>3, <1>5 DEF Got
<1>8. v = Got(n + 1)
  BY <1>6, <1>7 DEF Got
<1>9. QED
  BY <1>1, <1>3, <1>4, <1>8, Zenon

-----------------------------------------------------------------------------
(* From one wait of the driver to the next.                                *)

LEMMA Initially == Init => IInv
<1> SUFFICES ASSUME Init PROVE IInv
  OBVIOUS
<1>1. Types
  BY Zenon DEF Init, Types
<1>2. PhaseInv /\ MovingInv /\ BufferInv /\ RestInv /\ HeldInv /\ OutcomeInv
  BY DEF Init, PhaseInv, MovingInv, BufferInv, RestInv, HeldInv, OutcomeInv, Moving
<1>3. QED
  BY <1>1, <1>2 DEF IInv

\* The byte that is moved is one of the transfer, in the address phase one of
\* the address.
LEMMA PlaceRange ==
  IInv /\ pc \in Moving =>
    /\ xfer \in Transfers /\ Place \in 1 .. WholeLen(xfer) /\ WholeLen(xfer) \in Nat
    /\ pc \in {"start", "register", "restart"} => Place <= AddrLen(xfer)
<1> SUFFICES ASSUME IInv, pc \in Moving
             PROVE  /\ xfer \in Transfers /\ Place \in 1 .. WholeLen(xfer) /\ WholeLen(xfer) \in Nat
                    /\ pc \in {"start", "register", "restart"} => Place <= AddrLen(xfer)
  OBVIOUS
<1>1. xfer \in Transfers
  BY DEF IInv, Types
<1>2. /\ xfer.reg_addr_len \in Nat /\ xfer.data_len \in Nat
      /\ AddrLen(xfer) \in Nat \ {0} /\ WholeLen(xfer) = AddrLen(xfer) + xfer.data_len
  BY <1>1, Bytes
<1>3. CASE pc \in {"start", "register", "restart"}
  BY <1>1, <1>2, <1>3 DEF IInv, PhaseInv, Place, AddrLen
<1>4. CASE pc \in {"write", "read"}
  BY <1>1, <1>2, <1>4 DEF IInv, PhaseInv, Place
<1>5. QED
  BY <1>3, <1>4 DEF Moving

\* At the end of a wait the byte has been moved or the bus lost; without an
\* error it has been moved, and taken.
LEMMA WaitOver ==
  IInv /\ pc \in Moving /\ IIF => (Moved \/ Lost) /\ (Status = "OK" => Moved /\ ~RXAK)
<1> SUFFICES ASSUME IInv, pc \in Moving, IIF PROVE (Moved \/ Lost) /\ (Status = "OK" => Moved /\ ~RXAK)
  OBVIOUS
<1>1. Moved \/ Lost
  BY DEF IInv, MovingInv, UnderWay
<1>2. Status = "OK" => ~IAL /\ ~RXAK
  BY DEF Status
<1>3. QED
  BY <1>1, <1>2 DEF Lost

\* i2c_master_stop ends a transfer behind the bytes it has moved.
LEMMA StopEnds ==
  IInv /\ pc \in Moving /\ (Moved \/ Lost) /\ i2c_master_stop /\ UNCHANGED <<xfer, owner, shifting>> =>
    /\ \E n \in 0 .. WholeLen(xfer) :
         Ends(xfer', wire', n) /\ (pc \in {"start", "register", "restart"} => n <= AddrLen(xfer))
    /\ pc' = "stop" /\ ~MSTA' /\ ~TXAK' /\ shifting' = none /\ (owner' = "us" => Stopped')
<1> SUFFICES ASSUME IInv, pc \in Moving, Moved \/ Lost, i2c_master_stop, UNCHANGED <<xfer, owner, shifting>>
             PROVE  /\ \E n \in 0 .. WholeLen(xfer) :
                         /\ Ends(xfer', wire', n)
                         /\ pc \in {"start", "register", "restart"} => n <= AddrLen(xfer)
                    /\ pc' = "stop" /\ ~MSTA' /\ ~TXAK' /\ shifting' = none
                    /\ owner' = "us" => Stopped'
  OBVIOUS
<1>1. /\ xfer \in Transfers /\ Place \in 1 .. WholeLen(xfer) /\ WholeLen(xfer) \in Nat
      /\ pc \in {"start", "register", "restart"} => Place <= AddrLen(xfer)
  BY PlaceRange
<1>2. pc' = "stop" /\ ~MSTA' /\ ~TXAK' /\ shifting' = none
  BY DEF i2c_master_stop, Moved, Lost
<1>3. PICK n \in {Place - 1, Place} : Holds(xfer, wire, n) /\ n \in Nat
  BY <1>1 DEF Moved, Lost
<1>4. n \in 0 .. WholeLen(xfer) /\ (pc \in {"start", "register", "restart"} => n <= AddrLen(xfer))
  <2>1. AddrLen(xfer) \in Nat
    BY <1>1, Bytes
  <2>2. QED
    BY <1>1, <1>3, <2>1
<1>5. PICK v : v = Append(wire, <<"stop", 0>>)
  BY Zenon
<1>6. Ends(xfer, wire, n) /\ Ends(xfer, v, n) /\ v # <<>> /\ v[Len(v)][1] = "stop"
  BY <1>1, <1>3, <1>5, HoldsEnds, Zenon
<1>7. MSTA \in BOOLEAN /\ (MSTA => wire' = v) /\ (~MSTA => wire' = wire)
  BY <1>5, Zenon DEF i2c_master_stop, IInv, Types
<1>8. Ends(xfer', wire', n)
  BY <1>6, <1>7, Zenon
<1>9. owner' = "us" => MSTA
  BY DEF Moved, Lost
<1>10. owner' = "us" => Stopped'
  BY <1>6, <1>7, <1>9, Zenon DEF Stopped
<1>11. QED
  BY <1>2, <1>4, <1>8, <1>10, Zenon

\* An error of the address phase: nothing has been read, no data moved.
LEMMA FailInv ==
  ASSUME IInv, pc \in {"start", "register", "restart"}, IIF, ClearError,
         NEW status \in {"NAK", "ARBITRATION_LOST", "ADDR_NAK"}, Fail(status),
         UNCHANGED <<xfer, buf, calls, RXAK, owner>>
  PROVE  IInv'
<1>1. pc \in Moving /\ (Moved \/ Lost)
  BY WaitOver DEF Moving
<1>2. i2c_master_stop /\ UNCHANGED <<xfer, owner, shifting>>
  BY DEF Fail
<1>3. PICK n \in 0 .. WholeLen(xfer) : Ends(xfer', wire', n) /\ n <= AddrLen(xfer)
  BY <1>1, <1>2, StopEnds
<1>4. pc' = "stop" /\ ~MSTA' /\ ~TXAK' /\ shifting' = none /\ (owner' = "us" => Stopped')
  BY <1>1, <1>2, StopEnds
<1>5. Types'
  <2>1. MSTA' = FALSE /\ TXAK' = FALSE /\ IAL' = FALSE /\ IIF' = IIF /\ held' = held
    BY DEF Fail, i2c_master_stop, ClearError
  <2>2. /\ MSTA' \in BOOLEAN /\ TXAK' \in BOOLEAN /\ IAL' \in BOOLEAN /\ IIF' \in BOOLEAN /\ RXAK' \in BOOLEAN
        /\ held' \in BOOLEAN
    BY <2>1, Zenon DEF IInv, Types
  <2>3. calls > 0 /\ calls \in Nat /\ xfer \in Transfers /\ owner \in {"nobody", "us", "another"}
    BY DEF IInv, Types
  <2>4. QED
    BY <1>4, <2>2, <2>3 DEF Types
<1>6. PhaseInv' /\ MovingInv'
  BY <1>4 DEF PhaseInv, MovingInv, Moving
<1>7. BufferInv'
  BY <1>4 DEF BufferInv
<1>8. RestInv' /\ HeldInv'
  <2>1. ~held'
    BY DEF IInv, HeldInv, Fail
  <2>2. QED
    BY <1>4, <2>1, Zenon DEF RestInv, HeldInv
<1>9. OutcomeInv'
  <2>1. buf' = Got(0) /\ ret' = status
    BY DEF IInv, BufferInv, Fail
  <2>2. QED
    BY <1>3, <1>4, <2>1 DEF OutcomeInv
<1>10. QED
  BY <1>5, <1>6, <1>7, <1>8, <1>9 DEF IInv

\* The driver starts the next byte of the transfer.
Onward ==
  /\ pc \in Moving /\ Moved
  /\ pc' \in Moving /\ Place' = Place + 1
  /\ IIF' = FALSE /\ IAL' = FALSE /\ TXAK' \in BOOLEAN
  /\ shifting' = IF pc' = "read" THEN <<"rx", 0>> ELSE Whole(xfer)[Place + 1]
  /\ UNCHANGED <<xfer, wire, calls, held, owner, RXAK, MSTA, IBB>>

LEMMA OnwardInv ==
  ASSUME IInv, Onward
  PROVE  Types' /\ MovingInv' /\ RestInv' /\ HeldInv' /\ OutcomeInv'
<1>1. Types'
  <2>1. /\ MSTA' \in BOOLEAN /\ TXAK' \in BOOLEAN /\ IAL' \in BOOLEAN /\ IIF' \in BOOLEAN /\ RXAK' \in BOOLEAN
        /\ held' \in BOOLEAN
    BY Zenon DEF IInv, Types, Onward
  <2>2. /\ calls' > 0 /\ calls' \in Nat /\ xfer' \in Transfers /\ owner' \in {"nobody", "us", "another"}
        /\ pc' \in Moving
    BY DEF IInv, Types, Onward, Moving
  <2>3. QED
    BY <2>1, <2>2 DEF Types
<1>2. UnderWay'
  <2>1. Place \in Nat
    BY PlaceRange DEF Onward
  <2>2. Place' - 1 = Place
    BY <2>1 DEF Onward
  <2>3. Holds(xfer', wire', Place' - 1)
    BY <2>2, Zenon DEF Onward, Moved
  <2>4. MSTA' /\ ~IAL' /\ ~IIF' /\ owner' = "us"
    BY Zenon DEF Onward, Moved
  <2>5. shifting' = IF pc' = "read" THEN <<"rx", 0>> ELSE Whole(xfer')[Place']
    BY Zenon DEF Onward
  <2>6. QED
    BY <2>3, <2>4, <2>5, Zenon DEF UnderWay
<1>3. MovingInv' /\ RestInv' /\ OutcomeInv'
  BY <1>2, Zenon DEF MovingInv, RestInv, OutcomeInv, Onward, Moving
<1>4. HeldInv'
  <2>1. ~held /\ pc \in Moving
    BY DEF IInv, HeldInv, Onward, Moving
  <2>2. QED
    BY <2>1 DEF IInv, HeldInv, Onward
<1>5. QED
  BY <1>1, <1>3, <1>4

\* ... a byte of the register's address,
LEMMA SendRegisterInv ==
  ASSUME IInv, pc \in {"start", "register"}, Moved, ~RXAK, reg_addr_len > 0, SendRegister, IAL' = FALSE,
         IBB' = IBB,
         UNCHANGED <<timeout, wire, xfer, buf, calls, RXAK, owner>>
  PROVE  IInv'
<1>1. xfer \in Transfers /\ xfer.reg_addr_len \in Nat
  BY Bytes DEF IInv, Types
<1>2. reg_addr_len \in 1 .. xfer.reg_addr_len /\ Place = 1 + xfer.reg_addr_len - reg_addr_len
  BY <1>1 DEF IInv, PhaseInv, Place
<1>3. /\ pc' = "register" /\ reg_addr_len' = reg_addr_len - 1
      /\ Place' = 1 + xfer.reg_addr_len - (reg_addr_len - 1)
  BY DEF SendRegister, Place
<1>4. Place' = Place + 1
  BY <1>1, <1>2, <1>3
<1>5. Whole(xfer)[Place + 1] = <<"tx", RegByte(xfer, reg_addr_len - 1)>>
  <2>1. PICK k \in 1 .. xfer.reg_addr_len : k = Place /\ xfer.reg_addr_len - k = reg_addr_len - 1
    BY <1>1, <1>2
  <2>2. Whole(xfer)[k + 1] = <<"tx", RegByte(xfer, xfer.reg_addr_len - k)>>
    BY <1>1, Bytes
  <2>3. QED
    BY <2>1, <2>2, Zenon
<1>6. Onward
  <2>1. TXAK' \in BOOLEAN
    BY Zenon DEF SendRegister, Send, IInv, Types
  <2>2. QED
    BY <1>3, <1>4, <1>5, <2>1 DEF SendRegister, Send, Onward, Moving
<1>7. PhaseInv'
  BY <1>1, <1>2, <1>3 DEF PhaseInv
<1>8. BufferInv'
  BY <1>3 DEF SendRegister, Send, BufferInv, IInv
<1>9. QED
  BY <1>6, <1>7, <1>8, OnwardInv DEF IInv

\* ... the first byte of the data,
LEMMA WriteInv ==
  ASSUME IInv, pc \in {"start", "register"}, Moved, ~RXAK, reg_addr_len = 0, xfer.dir = I2C_WRITE,
         xfer.data_len # 0, i2c_master_write, IAL' = FALSE, IBB' = IBB,
         UNCHANGED <<timeout, wire, xfer, buf, calls, RXAK, owner>>
  PROVE  IInv'
<1>1. /\ xfer \in Transfers /\ xfer.reg_addr_len \in Nat /\ xfer.data_len \in Nat \ {0}
      /\ AddrLen(xfer) \in Nat
  BY Bytes DEF IInv, Types
<1>2. Place = AddrLen(xfer)
  BY <1>1 DEF IInv, PhaseInv, Place, AddrLen, I2C_WRITE, I2C_READ
<1>3. /\ pc' = "write" /\ size' = xfer.data_len - 1
      /\ Place' = AddrLen(xfer) + xfer.data_len - (xfer.data_len - 1)
  BY DEF i2c_master_write, Place, AddrLen
<1>4. Place' = Place + 1
  BY <1>1, <1>2, <1>3
<1>5. Whole(xfer)[Place + 1] = <<"tx", 1>>
  BY <1>1, <1>2, Bytes
<1>6. Onward
  <2>1. TXAK' \in BOOLEAN
    BY Zenon DEF i2c_master_write, Send, IInv, Types
  <2>2. QED
    BY <1>3, <1>4, <1>5, <2>1 DEF i2c_master_write, Send, Onward, Moving
<1>7. PhaseInv'
  BY <1>1, <1>3 DEF PhaseInv
<1>8. BufferInv'
  BY <1>3 DEF i2c_master_write, Send, BufferInv, IInv
<1>9. QED
  BY <1>6, <1>7, <1>8, OnwardInv DEF IInv

\* ... the reception of the first byte,
LEMMA ReadInv ==
  ASSUME IInv, Moved, ~RXAK, xfer.dir = I2C_READ,
         (pc = "start" /\ reg_addr_len = 0) \/ pc = "restart",
         xfer.data_len # 0, i2c_master_read, IAL' = FALSE, IBB' = IBB,
         UNCHANGED <<timeout, wire, xfer, buf, calls, RXAK, owner>>
  PROVE  IInv'
<1>1. /\ xfer \in Transfers /\ xfer.reg_addr_len \in Nat /\ xfer.data_len \in Nat \ {0}
      /\ AddrLen(xfer) \in Nat
  BY Bytes DEF IInv, Types
<1>2. Place = AddrLen(xfer)
  BY <1>1 DEF IInv, PhaseInv, Place, AddrLen
<1>3. /\ pc' = "read" /\ size' = xfer.data_len
      /\ Place' = AddrLen(xfer) + xfer.data_len - xfer.data_len + 1
  BY DEF i2c_master_read, Place, AddrLen
<1>4. Place' = Place + 1
  BY <1>1, <1>2, <1>3
<1>5. shifting' = <<"rx", 0>>
  BY DEF i2c_master_read, ReadI2DR, Moved
<1>6. TXAK' = (xfer.data_len = 1) /\ MTX' = FALSE /\ I2DR' = I2DR
  BY DEF i2c_master_read
<1>7. Onward
  <2>1. TXAK' \in BOOLEAN
    BY <1>6, Zenon
  <2>2. QED
    BY <1>3, <1>4, <1>5, <2>1 DEF i2c_master_read, Onward, Moving
<1>8. PhaseInv'
  BY <1>1, <1>3, <1>6 DEF PhaseInv
<1>9. BufferInv'
  <2>1. buf' = Got(0) /\ I2DR' = 0
    BY <1>6 DEF IInv, BufferInv
  <2>2. xfer'.data_len - size' = 0 /\ shifting' # none
    BY <1>1, <1>3, <1>5 DEF none
  <2>3. TXAK' <=> size' = 1
    BY <1>3, <1>6, Zenon
  <2>4. QED
    BY <1>1, <1>3, <2>1, <2>2, <2>3 DEF BufferInv
<1>10. QED
  BY <1>7, <1>8, <1>9, OnwardInv DEF IInv

\* ... or the address again. Being master, it is not refused.
LEMMA RestartInv ==
  ASSUME IInv, pc = "register", Moved, ~RXAK, reg_addr_len = 0, xfer.dir = I2C_READ,
         i2c_master_repeated_start, IAL' = FALSE, IBB' = IBB,
         UNCHANGED <<timeout, wire, xfer, buf, calls, RXAK, owner>>
  PROVE  IInv'
<1>1. xfer \in Transfers /\ xfer.reg_addr_len \in Nat
  BY Bytes DEF IInv, Types
<1>2. xfer.reg_addr_len > 0 /\ Place = 1 + xfer.reg_addr_len
  BY <1>1 DEF IInv, PhaseInv, Place
<1>3. pc' = "restart" /\ Place' = 2 + xfer.reg_addr_len
  BY DEF i2c_master_repeated_start, Place
<1>4. Place' = Place + 1
  BY <1>1, <1>2, <1>3
<1>5. Whole(xfer)[Place + 1] = <<"restart", AddressByte(xfer, I2C_READ)>>
  <2>1. Place + 1 = xfer.reg_addr_len + 2
    BY <1>1, <1>2
  <2>2. Whole(xfer)[xfer.reg_addr_len + 2] = <<"restart", AddressByte(xfer, I2C_READ)>>
    BY <1>1, <1>2, Bytes
  <2>3. QED
    BY <2>1, <2>2, Zenon
<1>6. Send("restart", AddressByte(xfer, I2C_READ))
  BY DEF i2c_master_repeated_start, Moved
<1>7. Onward
  <2>1. TXAK' \in BOOLEAN
    BY <1>6, Zenon DEF Send, IInv, Types
  <2>2. QED
    BY <1>3, <1>4, <1>5, <1>6, <2>1 DEF i2c_master_repeated_start, Send, Onward, Moving
<1>8. PhaseInv'
  BY <1>2, <1>3 DEF PhaseInv
<1>9. BufferInv'
  BY <1>3, <1>6 DEF Send, BufferInv, IInv
<1>10. QED
  BY <1>7, <1>8, <1>9, OnwardInv DEF IInv

\* A transfer without data returns behind its address phase, and keeps the bus.
LEMMA NoDataInv ==
  ASSUME IInv, pc \in {"start", "register", "restart"}, Moved, xfer.data_len = 0,
         NoData, IAL' = FALSE, IBB' = IBB,
         UNCHANGED <<timeout, wire, xfer, buf, calls, RXAK, owner>>
  PROVE  IInv'
<1>1. /\ pc \in Moving /\ xfer \in Transfers /\ Place \in 1 .. WholeLen(xfer)
      /\ WholeLen(xfer) \in Nat /\ Place \in Nat
  BY PlaceRange DEF Moving
<1>2. /\ pc' = "idle" /\ held' = TRUE /\ ret' = "OK"
      /\ UNCHANGED <<reg_addr_len, size, MSTA, MTX, TXAK, IIF, I2DR, shifting>>
  BY DEF NoData
<1>3. MSTA /\ owner = "us" /\ shifting = none /\ Holds(xfer, wire, Place)
  BY DEF Moved
<1>4. ~TXAK /\ buf = Got(0) /\ I2DR = 0
  BY DEF IInv, BufferInv
<1>5. Types'
  <2>1. /\ MSTA' \in BOOLEAN /\ TXAK' \in BOOLEAN /\ IAL' \in BOOLEAN /\ IIF' \in BOOLEAN /\ RXAK' \in BOOLEAN
        /\ held' \in BOOLEAN
    BY <1>2, Zenon DEF IInv, Types
  <2>2. QED
    BY <1>2, <2>1 DEF IInv, Types
<1>6. PhaseInv' /\ MovingInv' /\ BufferInv'
  BY <1>2, <1>4 DEF PhaseInv, MovingInv, BufferInv, Moving
<1>7. RestInv' /\ HeldInv'
  <2>1. MSTA' /\ owner' = "us" /\ IBB' /\ shifting' = none
    BY <1>2, <1>3 DEF IInv, HeldInv
  <2>2. QED
    BY <1>2, <2>1 DEF RestInv, HeldInv
<1>8. OutcomeInv'
  <2>1. Ends(xfer', wire', Place)
    BY <1>1, <1>3, HoldsEnds, Zenon
  <2>2. PICK n \in 0 .. WholeLen(xfer') : Ends(xfer', wire', n)
    BY <1>1, <2>1
  <2>3. buf' = Got(xfer'.data_len) /\ buf' = Got(0) /\ I2DR' = xfer'.data_len
    BY <1>2, <1>4, Zenon
  <2>4. QED
    BY <1>2, <2>2, <2>3 DEF OutcomeInv
<1>9. QED
  BY <1>5, <1>6, <1>7, <1>8 DEF IInv

\* i2c_check_and_clear_error leaves no error behind; what it finds is one of two.
LEMMA Cleared == ClearError => IAL' = FALSE /\ (Status # "OK" => Status \in {"NAK", "ARBITRATION_LOST"})
BY DEF ClearError, Status

LEMMA StartDoneInv == ASSUME IInv, StartDone PROVE IInv'
<1>1. pc = "start" /\ pc \in Moving /\ IIF /\ ClearError /\ IAL' = FALSE /\ UNCHANGED <<xfer, buf, calls, RXAK, owner>>
  BY Cleared DEF StartDone, Moving
<1>2. CASE Status # "OK" /\ Fail(Status)
  BY <1>1, <1>2, Cleared, FailInv
<1>3. CASE Status = "OK" /\ AfterStart /\ UNCHANGED <<timeout, wire>>
  <2>1. Moved /\ ~RXAK /\ IBB' = IBB
    BY <1>1, <1>3, WaitOver DEF ClearError, Moved
  <2>2. reg_addr_len \in Nat /\ xfer.dir \in {I2C_WRITE, I2C_READ}
    BY <1>1, Bytes DEF IInv, Types, PhaseInv
  <2>3. CASE reg_addr_len > 0
    BY <1>1, <1>3, <2>1, <2>3, SendRegisterInv, Zenon DEF AfterStart
  <2>4. CASE reg_addr_len = 0 /\ xfer.dir = I2C_WRITE /\ xfer.data_len # 0
    <3>1. i2c_master_write
      BY <1>3, <2>4 DEF AfterStart, DataPhase
    <3>2. QED
      BY <1>1, <1>3, <2>1, <2>4, <3>1, WriteInv, Zenon
  <2>5. CASE reg_addr_len = 0 /\ xfer.dir = I2C_READ /\ xfer.data_len # 0
    <3>1. i2c_master_read
      BY <1>3, <2>5 DEF AfterStart, DataPhase, I2C_READ, I2C_WRITE
    <3>2. QED
      BY <1>1, <1>3, <2>1, <2>5, <3>1, ReadInv, Zenon
  <2>6. CASE reg_addr_len = 0 /\ xfer.data_len = 0
    <3>1. NoData
      BY <1>3, <2>6 DEF AfterStart, DataPhase
    <3>2. QED
      BY <1>1, <1>3, <2>1, <2>6, <3>1, NoDataInv
  <2>7. QED
    BY <2>2, <2>3, <2>4, <2>5, <2>6
<1>4. QED
  BY <1>2, <1>3 DEF StartDone

LEMMA RegisterDoneInv == ASSUME IInv, RegisterDone PROVE IInv'
<1>1. /\ pc = "register" /\ pc \in Moving /\ IIF /\ ClearError /\ IAL' = FALSE
      /\ UNCHANGED <<xfer, buf, calls, RXAK, owner>>
  BY Cleared DEF RegisterDone, Moving
<1>2. CASE Status # "OK" /\ Fail(Status)
  BY <1>1, <1>2, Cleared, FailInv
<1>3. CASE Status = "OK" /\ AfterRegister /\ UNCHANGED <<timeout, wire>>
  <2>1. Moved /\ ~RXAK /\ IBB' = IBB
    BY <1>1, <1>3, WaitOver DEF ClearError, Moved
  <2>2. reg_addr_len \in Nat /\ xfer.dir \in {I2C_WRITE, I2C_READ}
    BY <1>1, Bytes DEF IInv, Types, PhaseInv
  <2>3. CASE reg_addr_len > 0
    BY <1>1, <1>3, <2>1, <2>3, SendRegisterInv, Zenon DEF AfterRegister
  <2>4. CASE reg_addr_len = 0 /\ xfer.dir = I2C_WRITE /\ xfer.data_len # 0
    <3>1. i2c_master_write
      BY <1>3, <2>4 DEF AfterRegister, DataPhase, I2C_READ, I2C_WRITE
    <3>2. QED
      BY <1>1, <1>3, <2>1, <2>4, <3>1, WriteInv, Zenon
  <2>5. CASE reg_addr_len = 0 /\ xfer.dir = I2C_READ
    <3>1. i2c_master_repeated_start
      BY <1>3, <2>5 DEF AfterRegister
    <3>2. QED
      BY <1>1, <1>3, <2>1, <2>5, <3>1, RestartInv, Zenon
  <2>6. CASE reg_addr_len = 0 /\ xfer.dir = I2C_WRITE /\ xfer.data_len = 0
    <3>1. NoData
      BY <1>3, <2>6 DEF AfterRegister, DataPhase, I2C_READ, I2C_WRITE
    <3>2. QED
      BY <1>1, <1>3, <2>1, <2>6, <3>1, NoDataInv
  <2>7. QED
    BY <2>2, <2>3, <2>4, <2>5, <2>6
<1>4. QED
  BY <1>2, <1>3 DEF RegisterDone

LEMMA RestartDoneInv == ASSUME IInv, RestartDone PROVE IInv'
<1>1. /\ pc = "restart" /\ pc \in Moving /\ IIF /\ ClearError /\ IAL' = FALSE
      /\ UNCHANGED <<xfer, buf, calls, RXAK, owner>>
  BY Cleared DEF RestartDone, Moving
<1>2. CASE Status # "OK" /\ Fail("ADDR_NAK")
  BY <1>1, <1>2, FailInv
<1>3. CASE Status = "OK" /\ DataPhase /\ UNCHANGED <<timeout, wire>>
  <2>1. Moved /\ ~RXAK /\ IBB' = IBB
    BY <1>1, <1>3, WaitOver DEF ClearError, Moved
  <2>2. xfer.dir = I2C_READ
    BY <1>1 DEF IInv, PhaseInv
  <2>3. CASE xfer.data_len # 0
    <3>1. i2c_master_read
      BY <1>3, <2>2, <2>3 DEF DataPhase, I2C_READ, I2C_WRITE
    <3>2. QED
      BY <1>1, <1>3, <2>1, <2>2, <2>3, <3>1, ReadInv, Zenon
  <2>4. CASE xfer.data_len = 0
    <3>1. NoData
      BY <1>3, <2>4 DEF DataPhase
    <3>2. QED
      BY <1>1, <1>3, <2>1, <2>4, <3>1, NoDataInv
  <2>5. QED
    BY <2>3, <2>4
<1>4. QED
  BY <1>2, <1>3 DEF RestartDone

\* The end of the data: a write that is complete or was refused, a read whose
\* last byte waits in I2DR.
LEMMA DataEnds ==
  ASSUME IInv, pc \in {"write", "read"}, IIF, i2c_master_stop, ret' = "OK",
         pc = "read" => size = 1, IIF' = FALSE, IAL' \in {IAL, FALSE},
         UNCHANGED <<xfer, buf, calls, held, RXAK, owner, shifting, I2DR>>
  PROVE  IInv'
<1>1. pc \in Moving /\ (Moved \/ Lost)
  BY WaitOver DEF Moving
<1>2. PICK n \in 0 .. WholeLen(xfer) : Ends(xfer', wire', n)
  BY <1>1, StopEnds
<1>3. pc' = "stop" /\ ~MSTA' /\ ~TXAK' /\ shifting' = none /\ (owner' = "us" => Stopped')
  BY <1>1, StopEnds
<1>4. Types'
  <2>1. MSTA' = FALSE /\ TXAK' = FALSE
    BY DEF i2c_master_stop
  <2>2. /\ MSTA' \in BOOLEAN /\ TXAK' \in BOOLEAN /\ IAL' \in BOOLEAN /\ IIF' \in BOOLEAN /\ RXAK' \in BOOLEAN
        /\ held' \in BOOLEAN
    BY <2>1, Zenon DEF IInv, Types
  <2>3. calls > 0 /\ calls \in Nat /\ xfer \in Transfers /\ owner \in {"nobody", "us", "another"}
    BY DEF IInv, Types
  <2>4. QED
    BY <1>3, <2>2, <2>3 DEF Types
<1>5. PhaseInv' /\ MovingInv'
  BY <1>3 DEF PhaseInv, MovingInv, Moving
<1>6. BufferInv'
  BY <1>3 DEF BufferInv
<1>7. RestInv' /\ HeldInv'
  <2>1. ~held'
    BY DEF IInv, HeldInv
  <2>2. QED
    BY <1>3, <2>1, Zenon DEF RestInv, HeldInv
<1>8. OutcomeInv'
  <2>1. CASE pc = "write"
    <3>1. buf' = Got(0) /\ xfer'.dir # I2C_READ
      BY <2>1 DEF IInv, BufferInv, PhaseInv, I2C_READ, I2C_WRITE
    <3>2. QED
      BY <1>2, <1>3, <3>1 DEF OutcomeInv
  <2>2. CASE pc = "read"
    <3>1. xfer.data_len \in Nat
      BY Bytes DEF IInv, Types
    <3>2. shifting = none
      BY <1>3
    <3>3. /\ buf' = Got(xfer'.data_len - 1) /\ I2DR' = xfer'.data_len /\ xfer'.data_len > 0
          /\ xfer'.dir = I2C_READ
      BY <2>2, <3>1, <3>2 DEF IInv, BufferInv, PhaseInv
    <3>4. QED
      BY <1>2, <1>3, <3>3 DEF OutcomeInv
  <2>3. QED
    BY <2>1, <2>2
<1>9. QED
  BY <1>4, <1>5, <1>6, <1>7, <1>8 DEF IInv

LEMMA WriteDoneInv == ASSUME IInv, WriteDone PROVE IInv'
<1>1. /\ pc = "write" /\ pc \in Moving /\ IIF /\ ClearError /\ IAL' = FALSE /\ IIF' = FALSE
      /\ UNCHANGED <<xfer, reg_addr_len, buf, calls, held, RXAK, owner>>
  BY Cleared DEF WriteDone, Moving
<1>2. CASE /\ Status = "OK" /\ size > 0
           /\ Send("tx", xfer.data_len - size + 1) /\ size' = size - 1
           /\ UNCHANGED <<pc, ret, timeout, MSTA, MTX, wire>>
  <2>1. Moved /\ ~RXAK /\ IBB' = IBB
    BY <1>1, <1>2, WaitOver DEF ClearError, Moved
  <2>2. /\ xfer \in Transfers /\ xfer.data_len \in Nat /\ AddrLen(xfer) \in Nat
        /\ xfer.dir = I2C_WRITE /\ size \in 1 .. xfer.data_len - 1
    BY <1>1, <1>2, Bytes DEF IInv, Types, PhaseInv
  <2>3. /\ Place = AddrLen(xfer) + xfer.data_len - size
        /\ Place' = AddrLen(xfer) + xfer.data_len - (size - 1)
    BY <1>1, <1>2 DEF Place, AddrLen
  <2>4. Place' = Place + 1
    BY <2>2, <2>3
  <2>5. Whole(xfer)[Place + 1] = <<"tx", xfer.data_len - size + 1>>
    <3>1. PICK k \in 1 .. xfer.data_len : k = xfer.data_len - size + 1 /\ AddrLen(xfer) + k = Place + 1
      BY <2>2, <2>3
    <3>2. Whole(xfer)[AddrLen(xfer) + k] = <<"tx", k>>
      BY <2>2, Bytes
    <3>3. QED
      BY <3>1, <3>2, Zenon
  <2>6. Onward
    <3>1. TXAK' \in BOOLEAN
      BY <1>2, Zenon DEF Send, IInv, Types
    <3>2. QED
      BY <1>1, <1>2, <2>1, <2>4, <2>5, <3>1 DEF Send, Onward, Moving
  <2>7. PhaseInv'
    BY <1>1, <1>2, <2>2 DEF PhaseInv
  <2>8. BufferInv'
    BY <1>1, <1>2 DEF Send, BufferInv, IInv
  <2>9. QED
    BY <2>6, <2>7, <2>8, OnwardInv DEF IInv
<1>3. CASE ret' = "OK" /\ i2c_master_stop /\ UNCHANGED <<size, I2DR, shifting>>
  BY <1>1, <1>3, DataEnds, Zenon
<1>4. QED
  BY <1>2, <1>3 DEF WriteDone

LEMMA ReadDoneInv == ASSUME IInv, ReadDone PROVE IInv'
<1>1. /\ pc = "read" /\ pc \in Moving /\ IIF /\ IIF' = FALSE /\ size' = size - 1
      /\ UNCHANGED <<xfer, reg_addr_len, calls, held, RXAK, owner, IAL, IBB, I2DR>>
  BY DEF ReadDone, Moving
<1>2. CASE size = 1 /\ ret' = "OK" /\ i2c_master_stop /\ UNCHANGED <<buf, shifting>>
  BY <1>1, <1>2, DataEnds, Zenon
<1>3. CASE /\ size # 1 /\ TXAK' = (TXAK \/ size = 2)
           /\ buf' = Append(buf, I2DR) /\ ReadI2DR(MSTA, MTX)
           /\ UNCHANGED <<pc, ret, timeout, MSTA, MTX, wire>>
  <2>1. Moved
    BY <1>1, <1>3, WaitOver DEF Lost
  <2>2. /\ xfer \in Transfers /\ xfer.data_len \in Nat /\ AddrLen(xfer) \in Nat
        /\ xfer.dir = I2C_READ /\ size \in 2 .. xfer.data_len /\ ~MTX /\ ~RXAK
    BY <1>1, <1>3, Bytes DEF IInv, Types, PhaseInv
  <2>3. /\ Place = AddrLen(xfer) + xfer.data_len - size + 1
        /\ Place' = AddrLen(xfer) + xfer.data_len - (size - 1) + 1
    BY <1>1, <1>3 DEF Place, AddrLen
  <2>4. Place' = Place + 1
    BY <2>2, <2>3
  <2>5. shifting' = <<"rx", 0>>
    BY <1>3, <2>1, <2>2 DEF ReadI2DR, Moved
  <2>6. Onward
    <3>1. TXAK' \in BOOLEAN /\ IAL' = FALSE
      BY <1>1, <1>3, <2>1, Zenon DEF Moved, IInv, Types
    <3>2. QED
      BY <1>1, <1>3, <2>1, <2>4, <2>5, <3>1 DEF Onward, Moving
  <2>7. PhaseInv'
    BY <1>1, <1>3, <2>2 DEF PhaseInv
  <2>8. BufferInv'
    <3>1. ~TXAK /\ buf = Got(xfer.data_len - size) /\ I2DR = xfer.data_len - size + 1
      BY <1>1, <1>3, <2>1 DEF IInv, BufferInv, Moved
    <3>2. PICK n \in Nat : n = xfer.data_len - size /\ xfer'.data_len - size' = n + 1
      BY <1>1, <2>2
    <3>3. buf' = Got(n + 1)
      <4>1. Append(Got(n), n + 1) = Got(n + 1)
        BY GotNext, Zenon
      <4>2. QED
        BY <1>3, <3>1, <3>2, <4>1, Zenon
    <3>4. I2DR' = n + 1 /\ shifting' # none
      BY <1>1, <2>5, <3>1, <3>2 DEF none
    <3>5. TXAK' <=> size' = 1
      <4>1. size = 2 <=> size' = 1
        BY <1>1, <2>2
      <4>2. QED
        BY <1>3, <3>1, <4>1, Zenon
    <3>6. pc' = "read" /\ xfer'.data_len - size' = n + 1
      BY <1>1, <1>3, <3>2
    <3>7. QED
      BY <3>2, <3>3, <3>4, <3>5, <3>6 DEF BufferInv
  <2>9. QED
    BY <2>6, <2>7, <2>8, OnwardInv DEF IInv
<1>4. QED
  BY <1>2, <1>3 DEF ReadDone

LEMMA TransferInv == ASSUME IInv, NEW x \in Transfers, i2c_master_transfer(x) PROVE IInv'
<1>1. pc = "idle" /\ pc' = "transfer" /\ xfer' = x
  BY DEF i2c_master_transfer
<1>2. Types'
  <2>1. /\ MSTA' \in BOOLEAN /\ TXAK' \in BOOLEAN /\ IAL' \in BOOLEAN /\ IIF' \in BOOLEAN /\ RXAK' \in BOOLEAN
        /\ held' \in BOOLEAN
    BY Zenon DEF IInv, Types, i2c_master_transfer
  <2>2. QED
    BY <1>1, <2>1 DEF IInv, Types, i2c_master_transfer
<1>3. PhaseInv' /\ MovingInv' /\ OutcomeInv'
  BY <1>1 DEF PhaseInv, MovingInv, OutcomeInv, Moving, i2c_master_transfer
<1>4. BufferInv'
  <2>1. buf' = Got(0)
    BY GotNext DEF i2c_master_transfer
  <2>2. QED
    BY <1>1, <2>1 DEF IInv, BufferInv, i2c_master_transfer
<1>5. RestInv' /\ HeldInv'
  BY <1>1 DEF IInv, RestInv, HeldInv, i2c_master_transfer
<1>6. QED
  BY <1>2, <1>3, <1>4, <1>5 DEF IInv

LEMMA StartInv == ASSUME IInv, i2c_master_start PROVE IInv'
<1>1. /\ pc = "transfer" /\ wire = <<>> /\ ~IAL /\ ~IIF /\ (MSTA => held) /\ shifting = none
      /\ buf = Got(0) /\ I2DR = 0 /\ ~TXAK /\ reg_addr_len = xfer.reg_addr_len
      /\ UNCHANGED <<xfer, reg_addr_len, size, timeout, buf, calls, held, IAL, IIF, RXAK, wire>>
  BY DEF i2c_master_start, IInv, RestInv, BufferInv, PhaseInv
<1>2. xfer \in Transfers
  BY DEF IInv, Types
<1>3. Holds(xfer', wire', 0)
  BY <1>1, <1>2, HoldsNothing, Zenon
<1>4. CASE /\ ret' = "BUSY" /\ pc' = "idle"
           /\ UNCHANGED <<MSTA, MTX, TXAK, IBB, I2DR, shifting, owner>>
  <2>1. Types'
    <3>1. /\ MSTA' \in BOOLEAN /\ TXAK' \in BOOLEAN /\ IAL' \in BOOLEAN /\ IIF' \in BOOLEAN /\ RXAK' \in BOOLEAN
          /\ held' \in BOOLEAN
      BY <1>1, <1>4, Zenon DEF IInv, Types
    <3>2. QED
      BY <1>1, <1>4, <3>1 DEF IInv, Types
  <2>2. PhaseInv' /\ MovingInv'
    BY <1>4 DEF PhaseInv, MovingInv, Moving
  <2>3. BufferInv' /\ RestInv' /\ HeldInv'
    BY <1>1, <1>4 DEF BufferInv, RestInv, HeldInv, IInv
  <2>4. OutcomeInv'
    <3>1. Ends(xfer', wire', 0)
      BY <1>1, <1>2, <1>3, HoldsEnds, Zenon
    <3>2. AddrLen(xfer') \in Nat /\ WholeLen(xfer') \in Nat
      BY <1>1, <1>2, Bytes
    <3>3. QED
      BY <1>1, <1>4, <3>1, <3>2 DEF OutcomeInv
  <2>5. QED
    BY <2>1, <2>2, <2>3, <2>4 DEF IInv
<1>5. CASE /\ ~IBB
           /\ MSTA' = TRUE /\ MTX' = TRUE /\ IBB' = TRUE
           /\ owner' = IF owner = "nobody" THEN "us" ELSE owner
           /\ Send("start", AddressByte(xfer, IF reg_addr_len > 0 THEN I2C_WRITE ELSE xfer.dir))
           /\ pc' = "start" /\ UNCHANGED ret
  <2>1. Types'
    <3>1. /\ MSTA' \in BOOLEAN /\ TXAK' \in BOOLEAN /\ IAL' \in BOOLEAN /\ IIF' \in BOOLEAN /\ RXAK' \in BOOLEAN
          /\ held' \in BOOLEAN
      BY <1>1, <1>5, Zenon DEF IInv, Types, Send
    <3>2. QED
      BY <1>1, <1>5, <3>1 DEF IInv, Types, Moving
  <2>2. PhaseInv'
    BY <1>1, <1>5 DEF PhaseInv
  <2>3. MovingInv'
    <3>1. Place' = 1
      BY <1>5 DEF Place
    <3>2. shifting' = Whole(xfer)[1]
      BY <1>1, <1>2, <1>5, Bytes, Zenon DEF Send
    <3>3. Holds(xfer', wire', Place' - 1)
      BY <1>3, <3>1
    <3>4. UnderWay'
      BY <1>1, <1>5, <3>1, <3>2, <3>3 DEF UnderWay
    <3>5. QED
      BY <3>4, Zenon DEF MovingInv
  <2>4. BufferInv' /\ RestInv' /\ HeldInv' /\ OutcomeInv'
    <3>1. ~held'
      BY <1>1, <1>5 DEF IInv, HeldInv
    <3>2. QED
      BY <1>1, <1>5, <3>1 DEF BufferInv, RestInv, HeldInv, OutcomeInv, Send
  <2>5. QED
    BY <2>1, <2>2, <2>3, <2>4 DEF IInv
<1>6. QED
  BY <1>4, <1>5, Zenon DEF i2c_master_start

LEMMA StopPollInv == ASSUME IInv, StopPoll PROVE IInv'
<1>1. /\ pc = "stop" /\ ~held /\ ~MSTA /\ shifting = none /\ ~TXAK
      /\ UNCHANGED <<xfer, reg_addr_len, size, ret, calls, held, MSTA, MTX, TXAK, IBB, IAL, IIF, RXAK, I2DR, owner, wire>>
  BY DEF StopPoll, IInv, RestInv, HeldInv, BufferInv
<1>2. shifting' = none /\ pc' \in {"stop", "idle"}
  BY <1>1 DEF StopPoll, ReadI2DR
<1>3. Types'
  <2>1. /\ MSTA' \in BOOLEAN /\ TXAK' \in BOOLEAN /\ IAL' \in BOOLEAN /\ IIF' \in BOOLEAN /\ RXAK' \in BOOLEAN
        /\ held' \in BOOLEAN
    BY <1>1, Zenon DEF IInv, Types
  <2>2. QED
    BY <1>1, <1>2, <2>1 DEF IInv, Types
<1>4. PhaseInv' /\ MovingInv' /\ BufferInv'
  BY <1>1, <1>2 DEF PhaseInv, MovingInv, BufferInv, Moving
<1>5. RestInv' /\ HeldInv'
  <2>1. Stopped' = Stopped
    BY <1>1 DEF Stopped
  <2>2. owner = "us" => Stopped
    BY <1>1 DEF IInv, RestInv
  <2>3. QED
    BY <1>1, <1>2, <2>1, <2>2, Zenon DEF RestInv, HeldInv
<1>6. OutcomeInv'
  <2>1. xfer.data_len \in Nat
    BY Bytes DEF IInv, Types
  <2>2. PICK n \in 0 .. WholeLen(xfer) :
          /\ Ends(xfer, wire, n)
          /\ ret \in {"OK", "BUSY", "NAK", "ARBITRATION_LOST", "ADDR_NAK"}
          /\ IF ret = "OK" /\ xfer.dir = I2C_READ
             THEN buf = Got(xfer.data_len - 1) /\ I2DR = xfer.data_len /\ xfer.data_len > 0
             ELSE buf = Got(0)
          /\ ret # "OK" => n <= AddrLen(xfer)
    BY <1>1 DEF IInv, OutcomeInv
  <2>3. Ends(xfer', wire', n)
    BY <1>1, <2>2, Zenon
  <2>4. IF ret' = "OK" /\ xfer'.dir = I2C_READ
        THEN /\ buf' = Got(IF pc' = "stop" THEN xfer'.data_len - 1 ELSE xfer'.data_len)
             /\ I2DR' = xfer'.data_len /\ (pc' = "stop" => xfer'.data_len > 0)
        ELSE buf' = Got(0)
    <3>1. CASE pc' = "stop" /\ UNCHANGED buf
      BY <1>1, <2>2, <3>1
    <3>2. CASE pc' = "idle" /\ ret = "OK" /\ xfer.dir = I2C_READ /\ buf' = Append(buf, I2DR)
      <4>1. PICK k \in Nat : k = xfer.data_len - 1 /\ k + 1 = xfer.data_len
        BY <2>1, <2>2, <3>2
      <4>2. Append(Got(k), k + 1) = Got(k + 1)
        BY GotNext, Zenon
      <4>3. buf = Got(k) /\ I2DR = k + 1
        BY <2>2, <3>2, <4>1
      <4>4. buf' = Got(xfer.data_len)
        BY <3>2, <4>1, <4>2, <4>3, Zenon
      <4>5. QED
        BY <1>1, <2>2, <3>2, <4>4
    <3>3. CASE pc' = "idle" /\ ~(ret = "OK" /\ xfer.dir = I2C_READ) /\ UNCHANGED buf
      BY <1>1, <2>2, <3>3
    <3>4. QED
      BY <1>1, <3>1, <3>2, <3>3 DEF StopPoll
  <2>5. QED
    BY <1>1, <2>2, <2>3, <2>4, Zenon DEF OutcomeInv
<1>7. QED
  BY <1>3, <1>4, <1>5, <1>6 DEF IInv

-----------------------------------------------------------------------------
(* The controller and the bus.                                             *)

\* A byte moves only in the waits for it.
LEMMA Shifting ==
  IInv /\ shifting # none => pc \in Moving /\ UnderWay
<1> SUFFICES ASSUME IInv, shifting # none PROVE pc \in Moving /\ UnderWay
  OBVIOUS
<1>1. pc \in Moving
  BY DEF IInv, Types, RestInv
<1>2. QED
  BY <1>1 DEF IInv, MovingInv, Moved, Lost

LEMMA ByteSentInv == ASSUME IInv, ByteSent PROVE IInv'
<1>1. shifting # none /\ shifting # <<"rx", 0>> /\ shifting' = none
      /\ UNCHANGED <<pc, xfer, reg_addr_len, size, ret, timeout, buf, calls, held, MTX, TXAK, IBB, I2DR>>
  BY DEF ByteSent, none, driver
<1>2. pc \in Moving /\ UnderWay
  BY <1>1, Shifting
<1>3. pc # "read"
  BY <1>1, <1>2 DEF UnderWay
<1>4. xfer \in Transfers /\ Place \in 1 .. WholeLen(xfer) /\ WholeLen(xfer) \in Nat
  BY <1>2, PlaceRange
<1>5. Place' = Place
  BY <1>1 DEF Place, AddrLen
<1>6. Types'
  <2>1. /\ MSTA' \in BOOLEAN /\ TXAK' \in BOOLEAN /\ IAL' \in BOOLEAN /\ IIF' \in BOOLEAN /\ RXAK' \in BOOLEAN
        /\ held' \in BOOLEAN
    BY <1>1, Zenon DEF IInv, Types, ByteSent
  <2>2. owner' \in {"nobody", "us", "another"}
    BY DEF IInv, Types, ByteSent
  <2>3. QED
    BY <1>1, <2>1, <2>2 DEF IInv, Types
<1>7. MovingInv'
  <2>1. CASE owner = "us" /\ wire' = Append(wire, shifting) /\ UNCHANGED <<MSTA, IAL, owner>>
    <3>1. PICK n \in Nat : n = Place - 1 /\ n + 1 = Place /\ n < WholeLen(xfer)
      BY <1>4
    <3>2. shifting = Whole(xfer)[n + 1] /\ Holds(xfer, wire, n)
      BY <1>2, <1>3, <3>1, Zenon DEF UnderWay
    <3>3. Holds(xfer, wire', n + 1)
      BY <1>4, <2>1, <3>1, <3>2, HoldsNext, Zenon
    <3>4. Holds(xfer', wire', Place')
      BY <1>1, <1>5, <3>1, <3>3, Zenon
    <3>5. Moved'
      BY <1>1, <1>2, <2>1, <3>4, Zenon DEF Moved, UnderWay, ByteSent
    <3>6. QED
      BY <3>5, Zenon DEF MovingInv
  <2>2. CASE /\ IAL' = TRUE /\ MSTA' = FALSE
             /\ owner' = IF owner = "us" THEN "another" ELSE owner
             /\ UNCHANGED <<wire, RXAK>>
    <3>1. owner' # "us"
      BY <2>2
    <3>2. Holds(xfer', wire', Place' - 1) /\ pc' # "read"
      BY <1>1, <1>2, <1>3, <1>5, <2>2, Zenon DEF UnderWay
    <3>3. Lost'
      BY <1>1, <2>2, <3>1, <3>2, Zenon DEF Lost, ByteSent
    <3>4. QED
      BY <3>3, Zenon DEF MovingInv
  <2>3. QED
    BY <2>1, <2>2, Zenon DEF ByteSent
<1>8. PhaseInv' /\ BufferInv'
  BY <1>1, <1>3 DEF IInv, PhaseInv, BufferInv
<1>9. RestInv' /\ OutcomeInv'
  BY <1>1, <1>2 DEF RestInv, OutcomeInv, Moving
<1>10. HeldInv'
  BY <1>1, <1>2 DEF IInv, HeldInv, ByteSent, Moving
<1>11. QED
  BY <1>6, <1>7, <1>8, <1>9, <1>10 DEF IInv

LEMMA ByteReceivedInv == ASSUME IInv, ByteReceived PROVE IInv'
<1>1. shifting # none /\ shifting' = none /\ IIF' = TRUE
      /\ UNCHANGED <<pc, xfer, reg_addr_len, size, ret, timeout, buf, calls, held, MTX, TXAK, IBB, RXAK>>
  BY DEF ByteReceived, none, driver
<1>2. pc \in Moving /\ UnderWay
  BY <1>1, Shifting
<1>3. xfer \in Transfers /\ Place \in 1 .. WholeLen(xfer) /\ WholeLen(xfer) \in Nat
  BY <1>2, PlaceRange
<1>4. pc = "read" /\ owner = "us"
  <2>1. Whole(xfer)[Place][1] # "rx"
    BY <1>3, NoStop
  <2>2. QED
    BY <1>2, <2>1, Zenon DEF UnderWay, ByteReceived
<1>5. /\ xfer.data_len \in Nat /\ AddrLen(xfer) \in Nat /\ xfer.dir = I2C_READ
      /\ size \in 1 .. xfer.data_len /\ ~RXAK /\ Place = AddrLen(xfer) + xfer.data_len - size + 1
  BY <1>3, <1>4, Bytes DEF IInv, PhaseInv, Place
<1>6. I2DR' = xfer.data_len - size + 1
  BY <1>1, <1>4, <1>5 DEF IInv, BufferInv, ByteReceived
<1>7. TXAK <=> size = 1
  BY <1>4, Zenon DEF IInv, BufferInv
<1>8. Place' = Place
  BY <1>1 DEF Place, AddrLen
<1>9. Holds(xfer', wire', Place')
  <2>1. PICK k \in 1 .. xfer.data_len, n \in Nat :
          /\ k = xfer.data_len - size + 1 /\ n = AddrLen(xfer) + (k - 1)
          /\ n + 1 = AddrLen(xfer) + k /\ n + 1 = Place /\ n = Place - 1 /\ n < WholeLen(xfer)
          /\ (k < xfer.data_len <=> size # 1)
    BY <1>3, <1>5
  <2>2. Whole(xfer)[AddrLen(xfer) + k] = <<IF k < xfer.data_len THEN "ack" ELSE "nak", k>>
    BY <1>3, <1>5, Bytes
  <2>3. wire' = Append(wire, <<IF TXAK THEN "nak" ELSE "ack", k>>)
    BY <1>6, <2>1, Zenon DEF ByteReceived
  <2>4. <<IF TXAK THEN "nak" ELSE "ack", k>> = Whole(xfer)[n + 1]
    BY <1>7, <2>1, <2>2
  <2>5. Holds(xfer, wire, n)
    BY <1>2, <2>1, Zenon DEF UnderWay
  <2>6. Holds(xfer, wire', n + 1)
    <3>1. wire' = Append(wire, Whole(xfer)[n + 1])
      BY <2>3, <2>4, Zenon
    <3>2. QED
      BY <1>3, <2>1, <2>5, <3>1, HoldsNext, Zenon
  <2>7. QED
    BY <1>1, <1>8, <2>1, <2>6, Zenon
<1>10. Types'
  <2>1. /\ MSTA' \in BOOLEAN /\ TXAK' \in BOOLEAN /\ IAL' \in BOOLEAN /\ IIF' \in BOOLEAN /\ RXAK' \in BOOLEAN
        /\ held' \in BOOLEAN
    BY <1>1, Zenon DEF IInv, Types, ByteReceived
  <2>2. owner' \in {"nobody", "us", "another"}
    BY DEF IInv, Types, ByteReceived
  <2>3. QED
    BY <1>1, <2>1, <2>2 DEF IInv, Types
<1>11. MovingInv'
  <2>1. CASE UNCHANGED <<MSTA, IAL, owner>>
    <3>1. Moved'
      BY <1>1, <1>2, <1>4, <1>9, <2>1, Zenon DEF Moved, UnderWay
    <3>2. QED
      BY <3>1, Zenon DEF MovingInv
  <2>2. CASE TXAK /\ IAL' = TRUE /\ MSTA' = FALSE /\ owner' = "another"
    <3>1. size' = 1 /\ pc' = "read"
      BY <1>1, <1>4, <1>7, <2>2, Zenon
    <3>2. owner' # "us"
      BY <2>2
    <3>3. Lost'
      BY <1>1, <1>9, <2>2, <3>1, <3>2, Zenon DEF Lost
    <3>4. QED
      BY <3>3, Zenon DEF MovingInv
  <2>3. QED
    BY <2>1, <2>2, Zenon DEF ByteReceived
<1>12. PhaseInv'
  BY <1>1 DEF IInv, PhaseInv
<1>13. BufferInv'
  BY <1>1, <1>4, <1>5, <1>6 DEF IInv, BufferInv
<1>14. RestInv' /\ OutcomeInv'
  BY <1>1, <1>4 DEF RestInv, OutcomeInv
<1>15. HeldInv'
  BY <1>1, <1>4 DEF IInv, HeldInv, ByteReceived
<1>16. QED
  BY <1>10, <1>11, <1>12, <1>13, <1>14, <1>15 DEF IInv

\* The bus changes hands: from this master only behind its stop.
LEMMA OwnerInv ==
  ASSUME IInv, NEW o \in {"nobody", "another"}, SetOwner(o), owner = "us" => ~MSTA
  PROVE  IInv'
<1>1. /\ owner' = o /\ o # "us"
      /\ UNCHANGED <<pc, xfer, reg_addr_len, size, ret, timeout, buf, calls, held,
                     MSTA, MTX, TXAK, IAL, IIF, RXAK, I2DR, shifting, wire>>
  BY DEF SetOwner, driver
<1>2. Types'
  <2>1. /\ MSTA' \in BOOLEAN /\ TXAK' \in BOOLEAN /\ IAL' \in BOOLEAN /\ IIF' \in BOOLEAN /\ RXAK' \in BOOLEAN
        /\ held' \in BOOLEAN
    BY <1>1, Zenon DEF IInv, Types
  <2>2. QED
    BY <1>1, <2>1 DEF IInv, Types
<1>3. PhaseInv' /\ BufferInv'
  BY <1>1 DEF IInv, PhaseInv, BufferInv
<1>4. MovingInv'
  <2>1. SUFFICES ASSUME pc \in Moving PROVE MovingInv'
    BY <1>1 DEF MovingInv
  <2>2. Place' = Place
    BY <1>1 DEF Place, AddrLen
  <2>3. CASE UnderWay
    <3>1. pc # "read"
      BY <2>3, Zenon DEF UnderWay
    <3>2. UnderWay'
      BY <1>1, <2>2, <2>3, <3>1, Zenon DEF UnderWay
    <3>3. QED
      BY <3>2, Zenon DEF MovingInv
  <2>4. CASE Lost
    <3>1. Lost'
      BY <1>1, <2>2, <2>4, Zenon DEF Lost
    <3>2. QED
      BY <3>1, Zenon DEF MovingInv
  <2>5. QED
    BY <2>1, <2>3, <2>4 DEF IInv, MovingInv, Moved
<1>5. RestInv' /\ HeldInv'
  BY <1>1 DEF IInv, RestInv, HeldInv
<1>6. OutcomeInv'
  BY <1>1, Zenon DEF IInv, OutcomeInv
<1>7. QED
  BY <1>2, <1>3, <1>4, <1>5, <1>6 DEF IInv

-----------------------------------------------------------------------------
(* The theorems.                                                           *)

LEMMA Preserved == ASSUME IInv, [Next]_vars PROVE IInv'
<1>1. CASE \E x \in Transfers : i2c_master_transfer(x)
  BY <1>1, TransferInv
<1>2. CASE i2c_master_start
  BY <1>2, StartInv
<1>3. CASE StartDone
  BY <1>3, StartDoneInv
<1>4. CASE RegisterDone
  BY <1>4, RegisterDoneInv
<1>5. CASE RestartDone
  BY <1>5, RestartDoneInv
<1>6. CASE WriteDone
  BY <1>6, WriteDoneInv
<1>7. CASE ReadDone
  BY <1>7, ReadDoneInv
<1>8. CASE StopPoll
  BY <1>8, StopPollInv
<1>9. CASE ByteSent
  BY <1>9, ByteSentInv
<1>10. CASE ByteReceived
  BY <1>10, ByteReceivedInv
<1>11. CASE BusIdle \/ OthersStart \/ OthersStop
  <2>1. \E o \in {"nobody", "another"} : SetOwner(o)
    BY <1>11 DEF BusIdle, OthersStart, OthersStop
  <2>2. owner = "us" => ~MSTA
    BY <1>11 DEF BusIdle, OthersStart, OthersStop
  <2>3. QED
    BY <2>1, <2>2, OwnerInv
<1>12. CASE UNCHANGED vars
  <2>1. Types'
    BY <1>12, Zenon DEF vars, driver, IInv, Types
  <2>2. PhaseInv'
    BY <1>12 DEF vars, driver, IInv, PhaseInv
  <2>3. BufferInv'
    BY <1>12 DEF vars, driver, IInv, BufferInv
  <2>4. MovingInv'
    BY <1>12, Zenon DEF vars, driver, IInv, MovingInv, UnderWay, Moved, Lost, Place
  <2>5. RestInv' /\ OutcomeInv'
    BY <1>12, Zenon DEF vars, driver, IInv, RestInv, Stopped, OutcomeInv
  <2>6. HeldInv'
    BY <1>12, Zenon DEF vars, driver, IInv, HeldInv
  <2>7. QED
    BY <2>1, <2>2, <2>3, <2>4, <2>5, <2>6 DEF IInv
<1>13. QED
  BY <1>1, <1>2, <1>3, <1>4, <1>5, <1>6, <1>7, <1>8, <1>9, <1>10, <1>11, <1>12 DEF Next, AfterWait, Bus

\* The inductive invariant of the I2C master: in each of the driver's waits
\* the counters say which byte of the transfer is on its way, and the wire
\* holds the ones before it.
THEOREM Inductive == Spec => []IInv
BY Initially, Preserved, PTL DEF Spec

\* For every transfer, of any length: the wire carries the address, the
\* register from its high byte, the repeated start and the data in order, read
\* bytes acknowledged but the last, and never a byte that was not asked for,
\* wherever the slave refuses or another master wins.
THEOREM WireFollowsTransfer == Spec => []WireFollows
<1>1. IInv => WireFollows
  <2> SUFFICES ASSUME IInv, pc # "idle" \/ calls > 0
               PROVE  Len(Carried) <= Len(Whole(xfer)) /\ Carried = SubSeq(Whole(xfer), 1, Len(Carried))
    BY Zenon DEF WireFollows, Whole
  <2>2. xfer \in Transfers /\ WholeLen(xfer) \in Nat
    BY Bytes DEF IInv, Types
  <2>3. \E n \in 0 .. WholeLen(xfer) : Ends(xfer, wire, n)
    <3>1. CASE pc \in Moving
      <4>1. PICK n \in 0 .. WholeLen(xfer) : Holds(xfer, wire, n)
        <5>1. Place - 1 \in 0 .. WholeLen(xfer) /\ Place \in 0 .. WholeLen(xfer)
          BY <3>1, PlaceRange
        <5>2. QED
          BY <3>1, <5>1 DEF IInv, MovingInv, UnderWay, Moved, Lost
      <4>2. QED
        BY <4>1 DEF Ends, Holds
    <3>2. CASE pc = "transfer"
      <4>1. Holds(xfer, wire, 0)
        BY <2>2, <3>2, HoldsNothing DEF IInv, RestInv
      <4>2. 0 \in 0 .. WholeLen(xfer)
        BY <2>2
      <4>3. QED
        BY <4>1, <4>2, Zenon DEF Ends, Holds
    <3>3. CASE pc = "stop" \/ (pc = "idle" /\ calls > 0)
      BY <3>3, Zenon DEF IInv, OutcomeInv
    <3>4. QED
      BY <3>1, <3>2, <3>3 DEF IInv, Types
  <2>4. PICK n \in 0 .. WholeLen(xfer) : Ends(xfer, wire, n)
    BY <2>3
  <2>5. Holds(xfer, Carried, n)
    BY <2>2, <2>4, EndsCarried, Zenon DEF Carried, Stopped
  <2>6. Len(Carried) = n /\ n <= Len(Whole(xfer)) /\ Carried = SubSeq(Whole(xfer), 1, n)
    BY <2>2, <2>5, HoldsSubSeq
  <2>7. QED
    BY <2>6, Zenon
<1>2. QED
  BY Inductive, <1>1, PTL

\* Every return of i2c_master_transfer, on every path, leaves no byte under way
\* and acknowledges again. It leaves no master and has given the bus up with a
\* stop, unless another master has it; only a transfer without data keeps the
\* bus, for good.
THEOREM EveryReturnReleases == Spec => []ReleasesBus
<1>1. IInv => ReleasesBus
  BY DEF IInv, RestInv, HeldInv, BufferInv, ReleasesBus, ICF
<1>2. QED
  BY Inductive, <1>1, PTL

\* A step of the driver is a call, a step within one, or not the caller's business.
LEMMA CallerSees ==
  IInv /\ [Next]_vars =>
    \/ \E x \in Transfers : i2c_master_transfer(x)
    \/ pc # "idle" /\ UNCHANGED <<xfer, calls>>
    \/ UNCHANGED <<driver, wire>>
<1> SUFFICES ASSUME IInv, [Next]_vars
             PROVE  \/ \E x \in Transfers : i2c_master_transfer(x)
                    \/ pc # "idle" /\ UNCHANGED <<xfer, calls>>
                    \/ UNCHANGED <<driver, wire>>
  OBVIOUS
<1>1. CASE AfterWait
  BY <1>1 DEF AfterWait, i2c_master_start, StartDone, RegisterDone, RestartDone, WriteDone, ReadDone, StopPoll
<1>2. CASE ByteSent \/ ByteReceived
  <2>1. shifting # none
    BY <1>2 DEF ByteSent, ByteReceived, none
  <2>2. pc # "idle"
    BY <2>1, Shifting DEF Moving
  <2>3. QED
    BY <1>2, <2>2 DEF ByteSent, ByteReceived, driver
<1>3. CASE BusIdle \/ OthersStart \/ OthersStop
  BY <1>3 DEF BusIdle, OthersStart, OthersStop, SetOwner
<1>4. CASE UNCHANGED vars
  BY <1>4 DEF vars
<1>5. QED
  BY <1>1, <1>2, <1>3, <1>4 DEF Next, Bus

\* The data bytes that a write has put on the bus.
LEMMA BytesSent ==
  ASSUME NEW x \in Transfers, NEW n \in 0 .. WholeLen(x), NEW c, Holds(x, c, n),
         NEW s, s = IF x.dir = I2C_READ THEN 0
                    ELSE IF Len(c) > Len(AddressPhase(x)) THEN Len(c) - Len(AddressPhase(x)) ELSE 0
  PROVE  s \in 0 .. x.data_len /\ (x.dir = I2C_READ \/ n <= AddrLen(x) => s = 0)
<1>1. Len(AddressPhase(x)) = AddrLen(x)
  BY PhaseBytes, Zenon
<1>2. Len(c) = n
  BY DEF Holds
<1>3. AddrLen(x) \in Nat /\ x.data_len \in Nat /\ WholeLen(x) = AddrLen(x) + x.data_len
  BY Bytes, Zenon
<1>4. QED
  BY <1>1, <1>2, <1>3

\* A call returns with one of the outcomes of Xfer.
LEMMA Returning ==
  ASSUME IInv, IInv', pc # "idle", pc' = "idle", UNCHANGED <<xfer, calls>>
  PROVE  X!Return
<1>1. calls' > 0 /\ xfer' \in Transfers
  BY DEF IInv, Types
<1>2. PICK n \in 0 .. WholeLen(xfer') :
        /\ Ends(xfer', wire', n)
        /\ ret' \in {"OK", "BUSY", "NAK", "ARBITRATION_LOST", "ADDR_NAK"}
        /\ IF ret' = "OK" /\ xfer'.dir = I2C_READ THEN buf' = Got(xfer'.data_len) ELSE buf' = Got(0)
        /\ ret' # "OK" => n <= AddrLen(xfer')
  BY <1>1 DEF IInv, OutcomeInv
<1>3. Holds(xfer', Carried', n)
  BY <1>1, <1>2, EndsCarried, Zenon DEF Carried, Stopped
<1>4. PICK d : d = DataSent'
  OBVIOUS
<1>5. d \in 0 .. xfer'.data_len /\ (xfer'.dir = I2C_READ \/ n <= AddrLen(xfer') => d = 0)
  <2>1. d = IF xfer'.dir = I2C_READ THEN 0
            ELSE IF Len(Carried') > Len(AddressPhase(xfer')) THEN Len(Carried') - Len(AddressPhase(xfer')) ELSE 0
    BY <1>4, Zenon DEF DataSent
  <2>2. QED
    BY <1>1, <1>3, <2>1, BytesSent
<1>6. Seen(ret, "none")' = ret' /\ Seen(buf, <<>>)' = buf' /\ Seen(DataSent, 0)' = d
  BY <1>1, <1>4, Zenon DEF Seen
<1>7. PICK o : o = [ret |-> ret', buf |-> buf', sent |-> d]
  BY Zenon
<1>8. o \in X!Outcomes(xfer)
  <2>1. Got(0) = <<>> /\ Got(xfer.data_len) = [k \in 1 .. xfer.data_len |-> k]
    BY GotNext DEF Got
  <2>2. CASE ret' # "OK"
    BY <1>2, <1>5, <1>7, <2>1, <2>2 DEF X!Outcomes, X!Errors
  <2>3. CASE ret' = "OK" /\ xfer.dir = I2C_READ
    BY <1>2, <1>5, <1>7, <2>1, <2>3 DEF X!Outcomes, X!I2C_READ, I2C_READ
  <2>4. CASE ret' = "OK" /\ xfer.dir # I2C_READ
    BY <1>2, <1>5, <1>7, <2>1, <2>4 DEF X!Outcomes, X!I2C_READ, I2C_READ
  <2>5. QED
    BY <2>2, <2>3, <2>4
<1>9. o.ret = ret' /\ o.buf = buf' /\ o.sent = d
  BY <1>7
<1>10. QED
  BY <1>6, <1>8, <1>9, Zenon DEF X!Return

LEMMA StepSimulates ==
  ASSUME IInv, IInv', [Next]_vars
  PROVE  [X!Next]_X!vars
<1>1. CASE \E x \in Transfers : i2c_master_transfer(x)
  <2>1. pc = "idle" /\ pc' = "transfer" /\ xfer' \in Transfers
    BY <1>1 DEF i2c_master_transfer
  <2>2. Seen(ret, "none")' = "none" /\ Seen(buf, <<>>)' = <<>> /\ Seen(DataSent, 0)' = 0
    BY <2>1 DEF Seen
  <2>3. X!Call
    BY <2>1, <2>2 DEF X!Call
  <2>4. QED
    BY <2>3 DEF X!Next
<1>2. CASE pc # "idle" /\ pc' = "idle" /\ UNCHANGED <<xfer, calls>>
  BY <1>2, Returning DEF X!Next
<1>3. CASE pc # "idle" /\ pc' # "idle" /\ UNCHANGED <<xfer, calls>>
  <2>1. /\ Seen(ret, "none")' = Seen(ret, "none") /\ Seen(buf, <<>>)' = Seen(buf, <<>>)
        /\ Seen(DataSent, 0)' = Seen(DataSent, 0)
    BY <1>3 DEF Seen
  <2>2. QED
    BY <1>3, <2>1 DEF X!vars
<1>4. CASE UNCHANGED <<driver, wire>>
  BY <1>4 DEF driver, X!vars, Seen, DataSent, Carried, Stopped
<1>5. QED
  BY <1>1, <1>2, <1>3, <1>4, CallerSees

\* i2c_master_transfer implements what the slaves' drivers are built on
\* (Xfer), for every set of transfers: a call has one outcome; OK from a read
\* means the bytes of the slave in order and complete; an error, that no data
\* byte has been moved.
THEOREM TransferImplementsXfer == Spec => ImplementsXfer
<1>1. Init => X!Init
  BY DEF Init, X!Init, Seen
<1>2. IInv /\ IInv' /\ [Next]_vars => [X!Next]_X!vars
  BY StepSimulates
<1>3. QED
  BY Inductive, <1>1, <1>2, PTL DEF Spec, ImplementsXfer, X!Spec

=============================================================================
