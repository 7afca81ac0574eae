SPECIFICATION GpioSpec
CONSTANT Pins = {9, 18}
PROPERTIES ClearsItsPin
