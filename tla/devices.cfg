CONSTANTS
  Parts = {"uart", "receive", "spi", "rate", "i2c", "pll", "pmp", "hpm", "watchdog"}
  Uarts = {"u1", "u2"}
  Speeds = {1, 2}
  FifoDepth = 2
  CharBits = 3
  TxLevels = {2}
  LongMax = 15
  NoUart = "NULL"
  Configs <- MCConfigs
  Lengths = {1, 3}
  Entries = 2
  Transfers = 3
  Clocks = {1, 4, 16, 25, 64, 90}
  Bauds = {1, 2, 3, 8, 12, 40}
  Dividers = 7
  I2cCalls <- MCI2cCalls
  I2cMax = 3
  Regions = 2
  G = 2
  Bits = 4
  Asks = {0, 1, 5}
  Last = 4
  Implemented = {3}
  HalfBits = 1
  Counted = 3
  TimeoutMask = 3
  ScaleMask = 2
  ClockRate = 8
  Rates = {3, 8}
  Timeouts = {1, 5}
  Calls = 3
  Latest = 12
  Refs = {5000000, 16000000}
  Wanted = {1, 500000, 16000000, 65000000, 320000000}
  Ticks = 5
SPECIFICATION SpecDevices
INVARIANTS
  RateFollows
  DataIsOwn
  BusAsPromised
  NeverUnlocked
  RegionAsAsked
  WatchdogAsAsked
PROPERTIES
  NothingCutOff
  CountIsAMoment
  ImplementsClock
  CallsReturn
CHECK_DEADLOCK FALSE
