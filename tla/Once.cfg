CONSTANTS
  Thread = {t1, t2}
  a = a
  b = b
  c = c
  Once = {a, b, c}
  HasError = {a, b}
  Nested <- NestedChain
  Outcomes = {"ZERO", "WARNING", "FAILURE"}
  Platform = "posix"
  MaxCalls = 2
  Null = Null
SPECIFICATION MCSpec
INVARIANTS NoEarlyReturn ErrorAgrees NoLostWakeup
PROPERTIES EveryCallReturns
