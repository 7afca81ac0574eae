SPECIFICATION GpioSpec
CONSTANT Pins = {0, 16}
INVARIANTS AsAsked
