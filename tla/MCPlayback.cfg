SPECIFICATION Spec
CONSTANTS
  Songs = {net, file}
  LocalSongs = {file}
  Qualities = {lo, hi}
  Nothing = Nothing
  MaxGeneration = 4
INVARIANT SwitchKeepsPlace
PROPERTIES SourceOfSelection SwitchFallsBack StaysTimed
SYMMETRY EitherQuality
CHECK_DEADLOCK FALSE
