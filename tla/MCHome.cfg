\* Two brook-tui and one brook.
SPECIFICATION Spec
CONSTANTS
  Tuis = {t1, t2}
  Clis = {b1}
  Convs = {c1, c2}
  NoConv = NoConv
  MaxIndex = 2
  MaxRuns = 2
  MaxStarts = 2
  Absent = Absent
  Empty = Empty
  Torn = Torn
VIEW View
SYMMETRY Symmetry
INVARIANTS
  TypeOK
  FilesStayWhole
  IndexPointsToArchives
  SessionIsBackedByArchives
PROPERTIES
  NothingSavedIsLost
CHECK_DEADLOCK FALSE
