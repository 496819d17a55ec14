SPECIFICATION Spec
CONSTANTS
  BootMhz = 1785
  PlayMhz <- Auto
  GpuMhz = 600
  Ladder <- ThreeRates
  MinFrames = 2
  UpMissed = 2
  UpSeconds = 2
  DownCalm = 2
  TickLooks = 2
  StallLooks = 2
  MaxFrames = 2
INVARIANT StockWhileAway
