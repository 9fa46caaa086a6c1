CONSTANTS
  MaxNotes = 3
  Limit = 1
  MaxReloads = 1
  Slots = {1, 2}
  Alphabets <- SmallAlphabets
  MaxText = 6
  MaxChunk = 2
SPECIFICATION ReadsSpec
INVARIANTS ListIsWhole EventsSurviveChunks
PROPERTY LoadsEnd
CHECK_DEADLOCK FALSE
