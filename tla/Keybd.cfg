SPECIFICATION Spec
CONSTANTS
  a = a
  enter = enter
  Letters <- MCLetters
  Enter = enter
  Command <- MCCommand
  BufSize = 4
  SizeMax = 15
  MaxKeys = 5
  Users = {TRUE, FALSE}
INVARIANTS
  TypeOK
  CopySizeSane
  CopyStable
  
  LinesInOrder
  LaterLinesTerminated
  RepliesMatchEcho
PROPERTIES
  EveryEnterAnswered
