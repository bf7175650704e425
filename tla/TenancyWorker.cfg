SPECIFICATION Spec
CONSTANTS
  Tenants = {t1}
  Requests = {q1}
  Workers = {w1}
  Rows = {r1}
  Checked = {r1}
  Apart = TRUE
  Faults = {}
  MaxFaults = 0
PROPERTY WorkersReachTheSchema
CHECK_DEADLOCK FALSE
