CONSTANTS
  b1 = b1
  b2 = b2
  Lanes <- MCLanes
  Bytes <- MCBytes
  Capacity = 2
  Latencies <- MCLatencies
  Holdoffs <- MCHoldoffs
  Addresses <- MCAddresses
  Absent = Absent
SPECIFICATION FairSpec
PROPERTIES ImplementsService EveryRequestServed
