SPECIFICATION Spec
CONSTANTS
  MaxRecordings = 2
  Stops = {t1}
  t1 = t1
  Services = {}
  Isolates = {i1}
  i1 = i1
  MaxFaults = 1
PROPERTIES
  OnlyCompletedAreQueued
