SPECIFICATION Spec
CONSTANTS
  a = a
  enter = enter
  Letters <- MCLetters
  Enter = enter
  Command <- MCCommand
  BufSize = 4
  SizeMax = 15
  MaxKeys = 3
  Users = {TRUE}
INVARIANT FirstReplyMatchesEcho
