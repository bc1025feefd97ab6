SPECIFICATION Spec
CONSTANTS
  Mutex = {m1, m2, m3}
  Null = Null
  Nobody = Nobody
INVARIANTS MutexUnique
