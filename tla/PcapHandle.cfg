SPECIFICATION MCSpec
CONSTANTS
  NibbleBits = 2
  MemWords = 1
  Packets <- SomePackets
  Filters <- SomeFilters
  QueueRoom = 1
  Counts <- SomeCounts
  MaxFilterLength = 4
  MaxArrivals <- SomeArrivals
  MaxEvents = 2
  Devices <- SomeDevices
  ArpTypes <- SomeArpTypes
  Kernels <- SomeKernels
  Options <- SomeOptions
  PrivateCalls <- SomePrivateCalls
  Busy = {"st0", "ppp0", "any"}
  Interfaces <- SomeInterfaces
  PageSize = 256
  TpHdrLen = 52
  MaxLinkHeader = 256
  Mtu = 100
  DefaultBuffer = 256
  ShrinkFrom = 4
  Names <- SomeNames
  Instance <- SomeNumbers
  Loopback = {"lo"}
  Dummy = {"dummy0"}
  Addresses <- SomeAddresses
  Sources <- SomeSources
  Openable <- SomeOpenable
INVARIANTS
  Consistent
  NothingLeft
  
  
  RightBytes
  NextIsStable
  
  DeviceList

  
CHECK_DEADLOCK FALSE
