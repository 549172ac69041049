SPECIFICATION Spec
CONSTANTS
  Owners = {o1, o2}
  Keys = {k1}
  Bodies = {b1}
  SessionIds = {s1}
  TagIds = {t1, t2}
  Folds = {f1, f2}
  Connections = {c1, c2}
  None = None
SYMMETRY Interchangeable
CHECK_DEADLOCK FALSE
INVARIANTS
  TypeOK
  ReferencesHold
  NoteKeepsSession
  AnswersAgree
  TagsAreDistinct
