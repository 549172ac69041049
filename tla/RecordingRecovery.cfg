SPECIFICATION FairSpec
CONSTANTS
  MaxRecordings = 1
  Stops = {t1}
  t1 = t1
  Services = {s1}
  s1 = s1
  Isolates = {i1}
  i1 = i1
  MaxFaults = 3
INVARIANTS
  TypeOK
  KeptUntilTranscribed
  OneJobPerInterruption
PROPERTIES
  EveryRecordingSettles
