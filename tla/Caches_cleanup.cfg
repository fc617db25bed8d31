SPECIFICATION MCSpec
CONSTANTS
  Component = {"currency"}
  NULL = NULL
  Garbage = Garbage
  Thread = {t1, t2}
  Locale = {l1, l2}
  Entry = {e1, e2, e3}
  Reg = {r1}
  Id = {i1}
  CURRENCY_NAME_CACHE_NUM = 1
  Failing = {}
  Calls = {"register", "unregister", "forLocale", "isAvailable", "parse", "cleanup"}
  MaxArrays = 3
  Address = {1, 2, 3, 4}
  Object = {1, 2}
  Bundle = {b1, b2}
  NamesFailing = {"open", "data", "core", "put"}
  Profile = {1, 2, 3, 4}
SYMMETRY Symmetry
CHECK_DEADLOCK FALSE
PROPERTIES CleanupFreesAll
