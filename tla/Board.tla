------------------------------- MODULE Board --------------------------------
(***************************************************************************)
(* main of stage 11 (debounced key), stage 16 (clock), stage 17 (light     *)
(* sensor) and stage 18 (motion sensor): the clocks, then the console and  *)
(* the screen where the stage has them, then what the stage is about.      *)
(***************************************************************************)
EXTENDS Clk, Uart, Lcd, KeyFilter, Rtc, Ap3216c, Icm20608

VARIABLES
  stage,  \* which program runs
  up,     \* clock_enable, uart_init and lcd_init that have returned
  con     \* the registers uart_init has programmed

boardVars == <<stage, up, con>>
vars == <<clkVars, keyVars, rtcVars, apVars, icmVars, boardVars>>

\* What a stage does not use is in one of its states, and the ROM's settings
\* vary in one of the stages only: clock_init is the same in all.
Init ==
  /\ stage \in {"11_key_filter", "16_rtc", "17_i2c", "18_spi"}
  /\ ClkInit /\ (stage # "17_i2c" => ccm = CHOOSE c \in RomSettings : TRUE)
  /\ KeyInit /\ (stage # "11_key_filter" => ~ISR)
  /\ RtcInit /\ (stage # "16_rtc" => LPSRTCMR = 0 /\ LPSRTCLR = 0 /\ ~SRTC_ENV)
  /\ ApInit
  /\ stage # "17_i2c" => sensor.mode = 0 /\ sensor.sample = CHOOSE s \in Samples : TRUE
  /\ IcmInit
  /\ stage # "18_spi" => LET m == CHOOSE m \in Motions : TRUE
                         IN chip.motion = m /\ chip.regs = ResetRegs(174, m)
  /\ up = <<>> /\ con = [written |-> FALSE]

\* What main calls after clock_init, in its order.
Setup ==
  IF stage = "11_key_filter" THEN <<"clock_enable", "beep_init">>
  ELSE <<"clock_enable", "uart_init", "lcd_init">>

Ready == up = Setup

ClockInit == ~ClockDone /\ Store /\ UNCHANGED <<keyVars, rtcVars, apVars, icmVars, boardVars>>

Switched == Handshake /\ UNCHANGED <<keyVars, rtcVars, apVars, icmVars, boardVars>>

\* The next call of main.
SetUp ==
  /\ ClockDone /\ ~Ready
  /\ up' = Append(up, Setup[Len(up) + 1])
  /\ con' = IF Setup[Len(up) + 1] = "uart_init"
            THEN uart_set_baudrate(115200, 80000000, UART_UBIR_INC_MASK) ELSE con
  /\ UNCHANGED <<stage, clkVars, keyVars, rtcVars, apVars, icmVars>>

\* The printf of icm20608_init: putc waits for a transmitter, for ever if the
\* console is not up.
ConsoleUp == con.written

Key ==
  /\ Ready /\ stage = "11_key_filter" /\ KeyMain
  /\ UNCHANGED <<clkVars, rtcVars, apVars, icmVars, boardVars>>

KeyEvents ==
  /\ Ready /\ stage = "11_key_filter" /\ KeyEvent
  /\ UNCHANGED <<clkVars, rtcVars, apVars, icmVars, boardVars>>

Clock ==
  /\ Ready /\ stage = "16_rtc" /\ RtcMain
  /\ UNCHANGED <<clkVars, keyVars, apVars, icmVars, boardVars>>

LightSensor ==
  /\ Ready /\ stage = "17_i2c"
  /\ ApCall \/ ApReturn \/ ApWait \/ ApShow \/ ApAgain
  /\ UNCHANGED <<clkVars, keyVars, rtcVars, icmVars, boardVars>>

MotionSensor ==
  /\ Ready /\ stage = "18_spi"
  /\ Select \/ spi_ch0_rw_byte \/ Deselect \/ (ConsoleUp /\ CheckId) \/ InitEnds \/ DataEnds \/ IcmAgain
  /\ UNCHANGED <<clkVars, keyVars, rtcVars, apVars, boardVars>>

TimePasses ==
  Ready /\ stage = "16_rtc" /\ Ticks /\ UNCHANGED <<clkVars, keyVars, apVars, icmVars, boardVars>>

Measures == Ready /\ stage = "17_i2c" /\ Measure /\ UNCHANGED <<clkVars, keyVars, rtcVars, icmVars, boardVars>>

Program == ClockInit \/ SetUp \/ Key \/ Clock \/ LightSensor \/ MotionSensor

Next == Program \/ KeyEvents \/ Switched \/ TimePasses \/ Measures

\* The enable bit of the clock takes effect.
Synced == TimePasses /\ running' # running

Spec == Init /\ [][Next]_vars /\ WF_vars(Program) /\ WF_vars(Switched) /\ WF_vars(Synced)

-----------------------------------------------------------------------------
\* The state of the clocks, of the sensors and of main; icm20608_read_len and
\* the two scales stay within their buffers of 14 and 2 bytes.
TypeOK ==
  /\ KeyTypeOK /\ RtcTypeOK
  /\ store \in 1 .. Len(Stores) + 1
  /\ ap.pc \in {"reset", "wait", "on", "check", "read", "show", "shown"}
  /\ Len(ap.bytes) <= 6 /\ Len(acc.rx) <= 16
  /\ faults \in 0 .. MaxFaults /\ icm.lost \in 0 .. MaxLost
  /\ acc.pc \in {"select", "bytes", "id", "end", "shown"}
  /\ up = SubSeq(Setup, 1, Len(up))

\* What a function computes does not depend on the state, so the functions are
\* checked in one, the end of clock_init in the smallest of the stages.
AfterClocks == stage = "11_key_filter" /\ up = <<"clock_enable">> /\ ~ISR

\* lcd_draw_line joins its ends, lcd_draw_circle stays on the circle,
\* lcd_show_char on the screen, and lcd_show_num shows the number.
ScreenRight ==
  AfterClocks =>
    LineRight(Screen) /\ CircleRight(1 .. MaxRadius) /\ CharRight(Screen) /\ NumRight(0 .. MaxNum - 1)

\* uart_set_baudrate gives the rate or leaves the registers alone: BaudRight.
BaudSet == AfterClocks => BaudRight(Clocks, Bauds)

\* The seconds that rtc_set_date_time stores are those since 1970 of the date
\* it is given, and rtc_second_to_date gives that date back, whatever date of
\* 1970 to 2099 it is.
ConversionsRight == AfterClocks => ToSecondsRight(Days) /\ ToDateRight(Days)

\* A sensor that main says is ready is set up as its driver means it to be,
\* although transfers fail and resets take time: ap3216c_init by its check,
\* icm20608_init when none of its accesses is lost.
SensorsReady == ApReady /\ IcmConfigured

\* What is shown of a sensor is what it measured, in the range it really has
\* (but for the sign of the motion sensor's readings: IcmReadingRight).
ReadingsShown == ReadingRight /\ IcmReadingRight

\* main of the stages: the time or the readings are shown again and again,
\* however the first transfers fail; no wait of clock_init, of the console, of
\* the clock or of a sensor holds it up for ever.
KeepsShowing ==
  stage # "11_key_filter" => []<>((pc = "main" /\ got # None) \/ ap.pc = "shown" \/ acc.pc = "shown")
=============================================================================
