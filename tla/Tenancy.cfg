SPECIFICATION Spec
CONSTANTS
  Tenants = {t1, t2}
  Requests = {q1, q2}
  Workers = {w1}
  Rows = {r1, r2}
  Checked = {r1}
  Apart = TRUE
  Faults = {"ddl", "crash"}
  MaxFaults = 1
SYMMETRY Symmetry
INVARIANTS
  TypeOK
  RowsInOwnSchema
  ReadyHaveSchemas
PROPERTIES
  RequestsReachTheSchema
  OnlyForceDropsData
