SPECIFICATION Spec
CONSTANTS
  Debounce = 4
  MaxBounce = 3
  MinGap = 5
  SmallMask = 15
  Clocks = {3000, 8000, 9999, 12345, 66000, 80000, 120001, 160000}
  Bauds = {100, 101, 110, 150, 163, 200, 300, 960, 1200, 1999}
  Width = 14
  Height = 18
  MaxRadius = 30
  Sizes = {12, 16}
  MaxNum = 1100
  LowSize = 4
  HighSize = 3
  Samples <- MCSamples
  MaxFaults = 3
  MaxLost = 2
  Motions <- MCMotions
INVARIANTS RatesRight SensorsReady ReadingsShown ScreenRight BaudSet SetTakes ClockRuns QuietReadIsCurrent ConversionsRight OncePerPress HeldIsRegistered
PROPERTIES ClockSwitches KeepsShowing
