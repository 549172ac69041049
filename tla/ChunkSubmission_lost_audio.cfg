SPECIFICATION Spec
CONSTANTS
  Pusher = {p1}
  Finalizer = {f1, f2}
  Cleaner = {c1}
  AfterWork = {}
  ChunkCount = 1
  Bytes = {a}
  MaxUpdates = 0
  MaxErrors = 1
  MaxCrashes = 0
INVARIANTS
  AcceptedAudioKept
