SPECIFICATION FairSpec
CONSTANTS
  Client = {c1, c2}
  Proxied = {c1}
  Fd = {f1, f2}
  Addr = {a1, a2}
  NoClient = NoClient
  NoRecord = NoRecord
  Device = Device
  NoFd = NoFd
CONSTRAINT OneImpatient
PROPERTIES Answered Released ImplementsService
CHECK_DEADLOCK FALSE
