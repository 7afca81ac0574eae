-------------------------------- MODULE Uart --------------------------------
(***************************************************************************)
(* uart_set_baudrate: the divider and the fraction it programs for a rate  *)
(* and a reference clock, as a function, with the width of the fraction's  *)
(* registers (UART_UBIR_INC_MASK, 65535) a parameter, so that the          *)
(* reduction to that width can be checked on small numbers.                *)
(***************************************************************************)
EXTENDS Integers, FiniteSetsExt

CONSTANTS
  SmallMask,   \* a mask so small that fractions have to be reduced
  Clocks,      \* reference clocks to check with it
  Bauds        \* and the rates

ASSUME UartConstants ==
  /\ SmallMask \in Nat \ {0}
  /\ Clocks \cup Bauds \subseteq Nat \ {0}

UART_UBIR_INC_MASK == 65535

\* The loop of lines 74 to 79, which the code has twice.
divisor[p \in Nat \X Nat] == IF p[2] = 0 THEN p[1] ELSE divisor[<<p[2], p[1] % p[2]>>]

AtLeastOne(n) == IF n = 0 THEN 1 ELSE n

\* Mutated form: only the denominator is made to fit.
ReduceDenominator(numerator, denominator, mask) ==
  LET n == (denominator - 1) \div mask + 1
  IN [numerator |-> AtLeastOne(numerator \div n), denominator |-> AtLeastOne(denominator \div n)]

\* The fraction, made to fit: seven times the mask and the mask.
Reduce(numerator, denominator, mask) ==
  LET m == (numerator - 1) \div (mask * 7) + 1
      n == (denominator - 1) \div mask + 1
      max == IF m > n THEN m ELSE n
  IN IF numerator > mask * 7 \/ denominator > mask
     THEN [numerator |-> AtLeastOne(numerator \div max),
           denominator |-> AtLeastOne(denominator \div max)]
     ELSE [numerator |-> numerator, denominator |-> denominator]

\* refFreqDiv, by divider.
refFreqDiv(divider) == IF divider \in 1 .. 6 THEN 6 - divider ELSE IF divider = 7 THEN 6 ELSE 5

\* Whether the registers are written, and with what.
uart_set_baudrate(baudrate, clk, mask) ==
  LET common == divisor[<<clk, baudrate * 16>>]
      fraction == Reduce(clk \div common, (baudrate * 16) \div common, mask)
      divider == (fraction.numerator - 1) \div mask + 1
      again == divisor[<<clk, fraction.numerator * 16>>]
      rate == ((clk \div again) * fraction.denominator) \div ((fraction.numerator * 16) \div again)
      baudDiff == IF rate >= baudrate THEN rate - baudrate ELSE baudrate - rate
  IN [written |-> baudDiff < (baudrate \div 100) * 3,
      rfdiv |-> refFreqDiv(divider),
      ubir |-> fraction.denominator - 1,
      ubmr |-> fraction.numerator \div divider - 1]

-----------------------------------------------------------------------------
\* What the hardware divides the clock by (external).
RefDiv(rfdiv) == IF rfdiv = 6 THEN 7 ELSE 6 - rfdiv

\* The rate of registers r is clk * (r.ubir + 1) over this.
Under(r) == 16 * RefDiv(r.rfdiv) * (r.ubmr + 1)

\* uart_set_baudrate: what is written fits the registers and gives the rate,
\* but for 3 % and what numerator / divider cuts off, which the check of
\* baudDiff does not see; and 115200 from 80 MHz is exact.
BaudRight(clocks, bauds) ==
  /\ \A clk \in clocks, baudrate \in bauds :
       LET r == uart_set_baudrate(baudrate, clk, SmallMask)
           miss == clk * (r.ubir + 1) - baudrate * Under(r)
           cut == RefDiv(r.rfdiv) - 1
       IN r.written =>
            /\ r.ubir \in 0 .. SmallMask /\ r.ubmr \in 0 .. SmallMask
            /\ 100 * miss <= 3 * baudrate * Under(r) + 104 * 16 * cut * baudrate
            /\ -100 * miss <= 3 * baudrate * Under(r)
  /\ LET r == uart_set_baudrate(115200, 80000000, UART_UBIR_INC_MASK)
     IN r = [written |-> TRUE, rfdiv |-> 5, ubir |-> 71, ubmr |-> 3124]
=============================================================================
