------------------------------- MODULE Delay -------------------------------
(***************************************************************************)
(* delay_ms and delay_us (delay.c): a busy wait that polls the free-running *)
(* GPT1 counter and adds up what it sees.  The counter runs modulo Wrap    *)
(* (2^32 in the hardware) while the core polls it, or is away in interrupt *)
(* handlers between two polls.                                             *)
(***************************************************************************)
EXTENDS Integers

CONSTANTS
  Wrap,       \* the counter's modulus: OCR[0] + 1 = 2^32
  UsPerMs,    \* the argument of each delay_us call: 1000
  Calls,      \* the values of ms a caller may pass
  MaxAway,    \* most ticks between two reads of the counter
  MaxElapsed  \* bound on the ticks of a behaviour

ASSUME DelayAssumption ==
  /\ Wrap \in Nat /\ Wrap > 1
  /\ UsPerMs \in Nat
  /\ Calls \subseteq Nat
  /\ MaxAway \in Nat /\ MaxElapsed \in Nat

VARIABLES
  cnt,               \* GPT1->CNT
  pc, ms, i,         \* delay_ms: argument and loop counter
  cnt_old, time,     \* delay_us: last value read, microseconds added up
  elapsed, away,     \* true time since the call, and since the last read
  wraps              \* reads that saw the counter below its last value

vars == <<cnt, pc, ms, i, cnt_old, time, elapsed, away, wraps>>

Init ==
  /\ cnt \in 0 .. Wrap - 1
  /\ pc = "idle" /\ ms = 0 /\ i = 0
  /\ cnt_old = 0 /\ time = 0
  /\ elapsed = 0 /\ away = 0 /\ wraps = 0

\* One microsecond passes; in restart mode the counter goes to 0 after OCR[0].
Tick ==
  /\ pc # "idle" /\ pc # "returned"
  /\ away < MaxAway /\ elapsed < MaxElapsed
  /\ cnt' = IF cnt = Wrap - 1 THEN 0 ELSE cnt + 1
  /\ elapsed' = elapsed + 1 /\ away' = away + 1
  /\ UNCHANGED <<pc, ms, i, cnt_old, time, wraps>>

\* The next pass of delay_ms's loop, or its end.
LoopTest(j, n) == IF j < n THEN "delay_us" ELSE "returned"

delay_ms(n) ==
  /\ pc = "idle"
  /\ ms' = n /\ i' = 0
  /\ pc' = LoopTest(0, n)
  /\ elapsed' = 0 /\ away' = 0 /\ wraps' = 0
  /\ UNCHANGED <<cnt, cnt_old, time>>

\* delay_us up to its loop: time = 0; cnt_old = GPT1->CNT.
delay_us ==
  /\ pc = "delay_us"
  /\ time' = 0
  /\ cnt_old' = cnt /\ away' = 0
  /\ pc' = "poll"
  /\ UNCHANGED <<cnt, ms, i, elapsed, wraps>>

\* Mutated form: the overflow branch is missing.
AdvanceSigned(old, new) == new - old

\* Mutated form: the distance up to the wrap-around is lost.
AdvanceNoWrap(old, new) == IF new > old THEN new - old ELSE new

\* What delay_us adds for a counter that went from old to new.
Advance(old, new) ==
  IF new > old THEN new - old ELSE (Wrap - 1) - old + new

\* Mutated form: a counter that has not moved is taken for one that wrapped.
MovedAlways(old, new) == TRUE

\* "cnt_new != cnt_old": the counter has moved since the last read.
Moved(old, new) == new # old

\* Mutated form: the wait ends only when it is exactly met.
ReachedExactly(t) == t = UsPerMs

\* "time >= us"
Reached(t) == t >= UsPerMs

\* One pass of delay_us's loop; at the end of its wait, delay_ms's i++.
Poll ==
  /\ pc = "poll"
  /\ away' = 0
  /\ \/ /\ ~Moved(cnt_old, cnt)
        /\ UNCHANGED <<pc, i, time, cnt_old, wraps>>
     \/ /\ Moved(cnt_old, cnt)
        /\ time' = time + Advance(cnt_old, cnt)
        /\ wraps' = IF cnt < cnt_old THEN wraps + 1 ELSE wraps
        /\ cnt_old' = cnt
        /\ \/ Reached(time') /\ i' = i + 1 /\ pc' = LoopTest(i + 1, ms)
           \/ ~Reached(time') /\ UNCHANGED <<pc, i>>
  /\ UNCHANGED <<cnt, ms, elapsed>>

Next == Tick \/ (\E n \in Calls : delay_ms(n)) \/ delay_us \/ Poll

Spec == Init /\ [][Next]_vars

\* The counter counts and the core polls it.
FairSpec == Spec /\ WF_vars(Tick) /\ WF_vars(delay_us) /\ WF_vars(Poll)

-----------------------------------------------------------------------------
TypeOK ==
  /\ cnt \in 0 .. Wrap - 1 /\ cnt_old \in 0 .. Wrap - 1
  /\ pc \in {"idle", "delay_us", "poll", "returned"}
  /\ ms \in Calls \cup {0} /\ i \in Nat /\ time \in Nat
  /\ elapsed \in 0 .. MaxElapsed /\ away \in 0 .. MaxAway /\ wraps \in Nat

\* delay_ms never returns early: however the counter wraps and however long
\* the core is away between polls, at least ms * UsPerMs ticks have passed.
NeverEarly == pc = "returned" => elapsed >= ms * UsPerMs

\* delay_ms is late by at most a poll gap at each end of every delay_us call
\* and one tick per observed wrap-around (delay_us adds
\* 0xFFFFFFFF - cnt_old + cnt_new, one less than the true distance), as long
\* as the core is never away for a whole revolution of the counter.
NeverVeryLate ==
  pc = "returned" => elapsed <= ms * (UsPerMs + 2 * MaxAway) + wraps

\* A call that has begun returns.
Returns == (pc = "delay_us") ~> (pc = "returned")
=============================================================================
