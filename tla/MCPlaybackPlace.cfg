SPECIFICATION Spec
CONSTANTS
  Songs = {net, file}
  LocalSongs = {file}
  Qualities = {lo, hi}
  Nothing = Nothing
  MaxGeneration = 4
INVARIANTS AtPlace
CHECK_DEADLOCK FALSE
