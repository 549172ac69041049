SPECIFICATION MCSpec
CONSTANTS
  Pusher = {p1, p2}
  Finalizer = {f1, f2}
  Cleaner = {c1, w1}
  AfterWork = {w1}
  ChunkCount = 2
  Bytes = {a, b}
  MaxUpdates = 1
  MaxErrors = 1
  MaxCrashes = 1
INVARIANTS
  TypeOK
  ChunksKept
  AudioKeptUnlessFinalizeFails
  AnswersAreKept
PROPERTIES
  OnlyPowerLossUndoesRelease
  SettledAudioIsReleased
