SPECIFICATION FairSpec
CONSTANTS
  here = here
  there = there
  s1 = s1
  a1 = a1
  a2 = a2
  b1 = b1
  Processes = {here, there}
  Subscribers = {s1}
  Events = {a1, a2, b1}
  Home <- MCHome
  Origin <- MCOrigin
  Topics <- MCTopics
  Capacity = 2
  Redis = TRUE
  Faults = {"redis", "crash"}
  MaxFaults = 2
INVARIANTS
  TypeOK
  OneCopyPerPath
  OwnEventsInOrder
  NothingSlipsAway
PROPERTY EventuallySeen
CHECK_DEADLOCK FALSE
