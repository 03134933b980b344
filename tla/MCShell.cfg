\* Buffers of two or four characters, read three at a time; stacks of two to six
\* entries and lines of seven tokens; pipes of two items.
CONSTANTS
  BufSizes = {2, 4}
  READ_BUF_SIZE = 3
  YYINITDEPTH = 2
  YYMAXDEPTH = 6
  MaxTokens = 7
  NoValue = NoValue
  Lines <- MCLines
  Capacity = 2
  FileItems = 2
SPECIFICATION MCSpec
INVARIANTS LinesAreRead LineIsDone
PROPERTIES WaitReapsOwn ShellGoesOn
\* The scanner, the parser and a line end.
CHECK_DEADLOCK FALSE
