SPECIFICATION Spec
CONSTANTS
  Client = {c1, c2, c3}
  Proxied = {c1}
  Fd = {f1, f2}
  Addr = {a1, a2}
  NoClient = NoClient
  NoRecord = NoRecord
  Device = Device
  NoFd = NoFd
CONSTRAINT Orderly
INVARIANTS TypeOK MapMatchesDescriptors OneOwner OwnAnswer NoneForgotten
PROPERTIES NoneDropped
CHECK_DEADLOCK FALSE
SYMMETRY Alike
