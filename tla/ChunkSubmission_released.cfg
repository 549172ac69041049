SPECIFICATION Spec
CONSTANTS
  Pusher = {p1, p2}
  Finalizer = {f1}
  Cleaner = {c1, w1}
  AfterWork = {w1}
  ChunkCount = 2
  Bytes = {a}
  MaxUpdates = 0
  MaxErrors = 0
  MaxCrashes = 0
INVARIANTS
  ReleasedChunksStayGone
