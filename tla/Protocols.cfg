CONSTANTS
  None = None
  clientA = clientA
  clientB = clientB
  macA = macA
  macB = macB
  TickBits = 5
  SecsCap = 31
  Leases <- SomeLeases
  Ips = {1, 2}
  Macs = {macA, macB}
  ARP_CACHE_MAX = 1
  ARP_REACH_TIMEOUT = 2
  ARP_PROBE_TIMEOUT = 2
SPECIFICATION AllSpec
CHECK_DEADLOCK FALSE
INVARIANTS
  AnswersHeard
  NotPastLease
  DeadlinesOrdered
PROPERTIES
  LeaseHonoured
  SilentForgotten
  ConnectionsEnd
  AllRead
  Drains
  FinEnds
  FindsAddress
