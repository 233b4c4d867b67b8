SPECIFICATION Spec
CONSTANTS
  s1 = s1
  s2 = s2
  t1 = t1
  t2 = t2
  Seeds = {s1}
  Torn = Torn
  Targets = {t1}
  MaxCycle = 1
  MaxEvents = 3
  Workers = 1
  Gens = 1
  MaxStarts = 2
PROPERTIES
  Demotes
CHECK_DEADLOCK FALSE
