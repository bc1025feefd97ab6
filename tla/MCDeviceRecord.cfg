SPECIFICATION RecordSpec
CONSTANTS
  Mutex = {m1, m2, m3}
  Null = Null
  Nobody = Nobody
  Address <- MCAddress
  Version = {v1, v2}
  Unset = Unset
SYMMETRY Symmetry
INVARIANTS UndisturbedExcludes RecordTypeOK AnnouncedKept
PROPERTIES LookupRight
