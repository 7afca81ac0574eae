-------------------------------- MODULE Rtc --------------------------------
(***************************************************************************)
(* The real-time clock of SNVS and the functions of rtc.c that use it,     *)
(* under the main of 16_rtc: the time may be set once, then it is read     *)
(* for ever. The counter of seconds is in two registers, LPSRTCMR and      *)
(* LPSRTCLR, that are read and written one after the other. (A second's    *)
(* fraction, the low 15 bits of LPSRTCLR, is 0 after a set and dropped by  *)
(* a read.)                                                                *)
(***************************************************************************)
EXTENDS Calendar

CONSTANTS
  LowSize,   \* 2^17: the seconds that LPSRTCLR counts
  HighSize   \* 2^15

ASSUME RtcAssumption == LowSize \in Nat \ {0} /\ HighSize \in Nat \ {0}

Size == LowSize * HighSize
Times == 0 .. Size - 1

VARIABLES
  LPSRTCMR, LPSRTCLR,  \* high and low part of the seconds
  SRTC_ENV, running,   \* LPCR bit 0 as written; as the counter, and a read,
                       \* see it
  pc,
  tmp, seconds,        \* rtc_set_date_time
  high, low, got,      \* rtc_get_seconds: the parts read so far, the result
  began                \* history: the counter when the read began

hw == <<LPSRTCMR, LPSRTCLR, SRTC_ENV, running>>
setVars == <<tmp, seconds>>
getVars == <<high, low, got, began>>
rtcVars == <<hw, pc, setVars, getVars>>

count == LPSRTCMR * LowSize + LPSRTCLR
None == -1

\* The counter has its time, and may run, from before the reset.
RtcInit ==
  /\ LPSRTCMR \in 0 .. HighSize - 1 /\ LPSRTCLR \in 0 .. LowSize - 1
  /\ SRTC_ENV \in BOOLEAN /\ running = SRTC_ENV
  /\ pc = "rtc_init" /\ tmp = FALSE /\ seconds = None
  /\ high = None /\ low = None /\ got = None /\ began = [at |-> 0, high |-> 0]

-----------------------------------------------------------------------------
(* The hardware. The enable bit takes effect some time after the store.    *)
Sync ==
  /\ running # SRTC_ENV /\ running' = SRTC_ENV
  /\ UNCHANGED <<LPSRTCMR, LPSRTCLR, SRTC_ENV, pc, setVars, getVars>>

\* A second passes. The counter overflows only in 2106.
Second ==
  /\ running /\ count < Size - 1
  /\ LPSRTCMR' = (count + 1) \div LowSize /\ LPSRTCLR' = (count + 1) % LowSize
  /\ UNCHANGED <<SRTC_ENV, running, pc, setVars, getVars>>

-----------------------------------------------------------------------------
At(from, to) == pc = from /\ pc' = to

\* rtc_enable and rtc_disable: store the bit, and wait until it reads back.
StoreEnable(value) ==
  SRTC_ENV' = value /\ UNCHANGED <<LPSRTCMR, LPSRTCLR, running, setVars, getVars>>

AwaitEnable(value) == running = value /\ UNCHANGED <<hw, setVars, getVars>>

rtc_enable ==
  \/ (At("rtc_init", "enabling") \/ At("enable", "enabling")) /\ StoreEnable(TRUE)
  \/ At("enabling", "main") /\ AwaitEnable(TRUE)

\* Mutated form: nobody waits until the clock has stopped.
rtc_disableNoWait ==
  \/ At("disable", "disabling") /\ StoreEnable(FALSE)
  \/ At("disabling", "LPSRTCMR") /\ UNCHANGED <<hw, setVars, getVars>>

\* Mutated form: LPCR is remembered after the clock was stopped.
rtc_disableForgets ==
  \/ /\ At("disable", "disabling") /\ SRTC_ENV' = FALSE /\ tmp' = FALSE
     /\ UNCHANGED <<LPSRTCMR, LPSRTCLR, running, seconds, getVars>>
  \/ At("disabling", "LPSRTCMR") /\ AwaitEnable(FALSE)

rtc_disable ==
  \/ At("disable", "disabling") /\ StoreEnable(FALSE)
  \/ At("disabling", "LPSRTCMR") /\ AwaitEnable(FALSE)

\* rtc_set_date_time with the seconds of its date, which main calls at most
\* once and before it reads the time; then the two stores, and
\* the clock runs again if it did before.
rtc_set_date_time(s) ==
  /\ At("main", "disable") /\ seconds = None /\ high = None
  /\ seconds' = s /\ tmp' = running
  /\ UNCHANGED <<hw, getVars>>

StoreSeconds ==
  \/ /\ At("LPSRTCMR", "LPSRTCLR")
     /\ LPSRTCMR' = seconds \div LowSize /\ UNCHANGED LPSRTCLR
     /\ UNCHANGED <<SRTC_ENV, running, setVars, getVars>>
  \/ /\ At("LPSRTCLR", IF tmp THEN "enable" ELSE "main")
     /\ LPSRTCLR' = seconds % LowSize /\ UNCHANGED LPSRTCMR
     /\ UNCHANGED <<SRTC_ENV, running, setVars, getVars>>

\* rtc_get_seconds. C does not say which of the two registers is read first.
rtc_get_seconds ==
  /\ At("main", "reading")
  /\ high' = None /\ low' = None /\ got' = None
  /\ began' = [at |-> count, high |-> LPSRTCMR]
  /\ UNCHANGED <<hw, setVars>>

\* Mutated form: the high part is shifted by a bit too few.
CombineShort(h, l) == h * (LowSize \div 2) + l

Combine(h, l) == h * LowSize + l

ReadPart ==
  /\ \/ At("reading", "reading") /\ high = None /\ high' = LPSRTCMR /\ UNCHANGED <<low, got>>
     \/ At("reading", "reading") /\ low = None /\ low' = LPSRTCLR /\ UNCHANGED <<high, got>>
     \/ /\ At("reading", "main") /\ high # None /\ low # None
        /\ got' = Combine(high, low) /\ UNCHANGED <<high, low>>
  /\ UNCHANGED <<hw, setVars, began>>

\* The hardware, and what main does.
Ticks == Sync \/ Second

RtcMain ==
  \/ rtc_enable \/ rtc_disable \/ (\E s \in Times : rtc_set_date_time(s)) \/ StoreSeconds
  \/ rtc_get_seconds \/ ReadPart

-----------------------------------------------------------------------------
\* The registers of the clock and the variables of rtc.c.
RtcTypeOK ==
  /\ LPSRTCMR \in 0 .. HighSize - 1 /\ LPSRTCLR \in 0 .. LowSize - 1
  /\ {SRTC_ENV, running, tmp} \subseteq BOOLEAN
  /\ pc \in {"rtc_init", "enabling", "main", "disable", "disabling", "LPSRTCMR", "LPSRTCLR",
             "enable", "reading"}
  /\ seconds \in Times \cup {None} /\ got \in Times \cup {None}
  /\ high \in 0 .. HighSize - 1 \cup {None} /\ low \in 0 .. LowSize - 1 \cup {None}
  /\ began \in [at : Times, high : 0 .. HighSize - 1]

\* What is set is what the clock starts from: when both halves have been
\* stored and the clock is about to be started again, it has exactly the
\* seconds that were asked for, no tick having come between the two stores.
SetTakes == pc = "enable" => count = seconds

\* Whenever main is at work the clock runs, after a set as well.
ClockRuns == pc \in {"main", "reading"} => running

\* A read during which the high register did not change gives a time between
\* its beginning and its end.
QuietReadIsCurrent ==
  pc = "main" /\ got # None /\ began.high = LPSRTCMR
    => began.at <= got /\ got <= count

\* What the comment on rtc_get_seconds says, that it gets the clock's current
\* seconds: a time between the beginning and the end of the read. The code does not do
\* this across a carry between the two registers, and TLC violates it.
ReadIsCurrent == pc = "main" /\ got # None => began.at <= got /\ got <= count
=============================================================================
