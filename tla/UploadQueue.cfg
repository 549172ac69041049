SPECIFICATION FairSpec
CONSTANTS
  Services = {}
  Isolates = {i1}
  Foreground = notifier
  Owner = owner
  MaxRetries = 5
  MaxKeys = 6
  MaxFaults = 2
INVARIANTS
  TypeOK
  AudioKept
  OneJobUnlessFailed
PROPERTIES
  RowOutlivesAudio
  RecordingSettles
