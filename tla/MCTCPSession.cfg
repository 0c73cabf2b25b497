SPECIFICATION FairSession
CONSTANTS
  LF = "LF"
  CR = "CR"
  NUL = "NUL"
  Bytes = {"q", "t", "LF", "CR", "NUL"}
  QUIT <- MCQuit
  RecvMax = 3
  MaxBytes = 6
INVARIANT SessionTypeOK
PROPERTIES LinesInOrder LinesAnswered
CHECK_DEADLOCK FALSE
