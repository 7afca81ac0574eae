-------------------------------- MODULE Gpio --------------------------------
(***************************************************************************)
(* The GPIO helpers (gpio.c) on one port. A register with a bit per pin is *)
(* the set of the pins whose bit is 1, so |= 1 << pin is a union and       *)
(* &= ~(1 << pin) a difference; the two ICR registers have a two-bit field *)
(* per pin. Every call is a read-modify-write of whole registers, and      *)
(* gpio_init makes several of them, between which pins are flagged and     *)
(* handlers clear flags.                                                   *)
(***************************************************************************)
EXTENDS Integers

CONSTANT Pins  \* the pins of the port that the drivers use

ASSUME GpioAssumption == Pins \subseteq 0 .. 31

Dirs == {"GPIO_INPUT", "GPIO_OUTPUT"}
Levels == {"LEVEL_LOW", "LEVEL_HIGH"}

\* The trigger an ICR field selects, and the one of EDGE_SEL.
FieldModes == {"LOW", "HIGH", "REDGE", "FEDGE"}
Modes == FieldModes \cup {"RFEDGE"}

VARIABLES
  GDIR, DR, EDGE_SEL, IMR, ISR,  \* sets of pins
  ICR1, ICR2,                    \* fields of the pins below 16, and the others
  at, pin, cfg,                  \* the call main is in, and its arguments
  asked                          \* history: what was last asked for each pin

gpioVars == <<GDIR, DR, EDGE_SEL, IMR, ISR, ICR1, ICR2, at, pin, cfg, asked>>

Configs == [dir : Dirs, def_val : Levels, irq_mode : Modes \cup {"NONE"}]

\* cfg outside a call.
NoConfig == [dir |-> "GPIO_INPUT", def_val |-> "LEVEL_LOW", irq_mode |-> "NONE"]

\* Reset values. The pads' flags are what the pads made them.
GpioInit ==
  /\ GDIR = {} /\ DR = {} /\ EDGE_SEL = {} /\ IMR = {} /\ ISR \in SUBSET Pins
  /\ ICR1 = [f \in 0 .. 15 |-> "LOW"] /\ ICR2 = [f \in 0 .. 15 |-> "LOW"]
  /\ at = "idle" /\ pin \in Pins /\ cfg = NoConfig
  /\ asked = [p \in Pins |-> [dir |-> "none", level |-> "none", mode |-> "NONE", on |-> FALSE]]

-----------------------------------------------------------------------------
(* Reading DR gives the latch of an output, but the pad of an input.       *)
ReadDR == {(DR \cap GDIR) \cup X : X \in SUBSET (Pins \ GDIR)}

set_pin_intput(p) == GDIR' = GDIR \ {p}
set_pin_output(p) == GDIR' = GDIR \cup {p}

\* pin_output_low or pin_output_high
pin_write(p, level) ==
  \E word \in ReadDR :
    DR' = IF level = "LEVEL_LOW" THEN word \ {p} ELSE word \cup {p}

\* What a caller of gpio_init asks for its pin.
Ask(p, c) ==
  asked' = [asked EXCEPT ![p].dir = c.dir, ![p].mode = c.irq_mode,
                         ![p].level = IF c.dir = "GPIO_OUTPUT" THEN c.def_val ELSE "none"]

Call(p, c, next) == pin' = p /\ cfg' = c /\ at' = next

gpio_init(p, c) ==
  /\ at = "idle" /\ Ask(p, c)
  /\ IF c.dir = "GPIO_INPUT"
     THEN set_pin_intput(p) /\ Call(p, c, "pin_int_config")
     ELSE set_pin_output(p) /\ Call(p, c, "pin_write")
  /\ UNCHANGED <<DR, EDGE_SEL, IMR, ISR, ICR1, ICR2>>

InitWrites ==
  /\ at = "pin_write" /\ pin_write(pin, cfg.def_val)
  /\ at' = "pin_int_config"
  /\ UNCHANGED <<GDIR, EDGE_SEL, IMR, ISR, ICR1, ICR2, pin, cfg, asked>>

\* Mutated form: EDGE_SEL is left alone.
pin_int_configKeeps ==
  /\ at = "pin_int_config" /\ at' = "icr"
  /\ UNCHANGED <<GDIR, DR, EDGE_SEL, IMR, ISR, ICR1, ICR2, pin, cfg, asked>>

\* pin_int_config: first EDGE_SEL is cleared ...
pin_int_config ==
  /\ at = "pin_int_config" /\ at' = "icr"
  /\ EDGE_SEL' = EDGE_SEL \ {pin}
  /\ UNCHANGED <<GDIR, DR, IMR, ISR, ICR1, ICR2, pin, cfg, asked>>

\* ... then the pin's field is written, in the register that has it, or
\* EDGE_SEL set; any other mode leaves both.
SetField(p, mode) ==
  IF p < 16
  THEN ICR1' = [ICR1 EXCEPT ![p] = mode] /\ UNCHANGED ICR2
  ELSE ICR2' = [ICR2 EXCEPT ![p - 16] = mode] /\ UNCHANGED ICR1

SetTrigger ==
  /\ at = "icr" /\ at' = "idle" /\ cfg' = NoConfig
  /\ IF cfg.irq_mode \in FieldModes
     THEN SetField(pin, cfg.irq_mode) /\ UNCHANGED EDGE_SEL
     ELSE /\ EDGE_SEL' = IF cfg.irq_mode = "RFEDGE" THEN EDGE_SEL \cup {pin} ELSE EDGE_SEL
          /\ UNCHANGED <<ICR1, ICR2>>
  /\ UNCHANGED <<GDIR, DR, IMR, ISR, pin, asked>>

\* A driver writes its own pin, which is an output.
DriverWrites(p, level) ==
  /\ at = "idle" /\ asked[p].dir = "GPIO_OUTPUT"
  /\ pin_write(p, level) /\ asked' = [asked EXCEPT ![p].level = level]
  /\ UNCHANGED <<GDIR, EDGE_SEL, IMR, ISR, ICR1, ICR2, at, pin, cfg>>

pin_int_enable(p) ==
  /\ at = "idle" /\ IMR' = IMR \cup {p} /\ asked' = [asked EXCEPT ![p].on = TRUE]
  /\ UNCHANGED <<GDIR, DR, EDGE_SEL, ISR, ICR1, ICR2, at, pin, cfg>>

pin_int_disable(p) ==
  /\ at = "idle" /\ IMR' = IMR \ {p} /\ asked' = [asked EXCEPT ![p].on = FALSE]
  /\ UNCHANGED <<GDIR, DR, EDGE_SEL, ISR, ICR1, ICR2, at, pin, cfg>>

\* Called by the handler of pin p, which may interrupt main anywhere. ISR
\* clears the bits that are written as 1: those of every pin flagged when
\* ISR was read, and p's.
pin_int_clear(p) ==
  /\ p \in IMR \cap ISR
  /\ LET word == ISR \cup {p} IN ISR' = ISR \ word
  /\ UNCHANGED <<GDIR, DR, EDGE_SEL, IMR, ICR1, ICR2, at, pin, cfg, asked>>

\* A pad does what its trigger waits for.
Flag(p) ==
  /\ ISR' = ISR \cup {p}
  /\ UNCHANGED <<GDIR, DR, EDGE_SEL, IMR, ICR1, ICR2, at, pin, cfg, asked>>

GpioNext ==
  \/ \E p \in Pins :
       \/ \E c \in Configs : gpio_init(p, c)
       \/ \E level \in Levels : DriverWrites(p, level)
       \/ pin_int_enable(p) \/ pin_int_disable(p) \/ pin_int_clear(p) \/ Flag(p)
  \/ InitWrites \/ pin_int_config \/ SetTrigger

GpioSpec == GpioInit /\ [][GpioNext]_gpioVars

-----------------------------------------------------------------------------
(* What the hardware makes of the registers for a pin.                     *)
Icr(p) == IF p < 16 THEN ICR1[p] ELSE ICR2[p - 16]
Trigger(p) == IF p \in EDGE_SEL THEN "RFEDGE" ELSE Icr(p)
InCall(p) == at # "idle" /\ p = pin

GpioTypeOK ==
  /\ GDIR \subseteq Pins /\ DR \subseteq Pins /\ EDGE_SEL \subseteq Pins
  /\ IMR \subseteq Pins /\ ISR \subseteq Pins
  /\ ICR1 \in [0 .. 15 -> FieldModes] /\ ICR2 \in [0 .. 15 -> FieldModes]
  /\ at \in {"idle", "pin_write", "pin_int_config", "icr"} /\ pin \in Pins /\ cfg \in Configs
  /\ asked \in [Pins -> [dir : Dirs \cup {"none"}, level : Levels \cup {"none"},
                         mode : Modes \cup {"NONE"}, on : BOOLEAN]]

\* After any sequence of calls for any pins, and during a call for another
\* pin, each pin is what its own last calls made it: its direction, the level
\* it drives, its trigger, whether its interrupt is enabled. A pin initialised
\* with IRQ_MODE_NONE keeps some trigger. Pin 16 has its trigger in ICR2, as the
\* hardware and the code (pin < 16) have it; the comments at gpio.c:79 and 82,
\* which give ICR1 the pins 0 to 16, are off by one.
DirAsAsked(p) == p \in GDIR <=> asked[p].dir = "GPIO_OUTPUT"
LevelAsAsked(p) == asked[p].dir = "GPIO_OUTPUT" => (p \in DR <=> asked[p].level = "LEVEL_HIGH")
TriggerAsAsked(p) == asked[p].mode # "NONE" => Trigger(p) = asked[p].mode
OnAsAsked(p) == p \in IMR <=> asked[p].on
AsAsked ==
  \A p \in Pins : ~InCall(p) =>
    DirAsAsked(p) /\ LevelAsAsked(p) /\ TriggerAsAsked(p) /\ OnAsAsked(p)

\* What the comment on pin_int_clear says, that it clears the flag of its pin:
\* at most one flag disappears at a time.
ClearsItsPin == [][\A p, q \in ISR \ ISR' : p = q]_gpioVars
=============================================================================
