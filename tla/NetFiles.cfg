\* Two users; three buttons pressed.
CONSTANTS
  Users = {a, b}
  Dir = Dir
  InitialFs <- MCFs
  d = d
  f = f
  Words = {d, e, f, g}
  DirNames = {e}
  FileNames = {f, g}
  NoName = NoName
  NoPath = NoPath
  MaxClicks = 3
SYMMETRY MCSymmetry
SPECIFICATION Spec
INVARIANTS ViewIsCurrent NothingMissingIsUsed ActsOnWhatIsShown FilesKept
CHECK_DEADLOCK FALSE
