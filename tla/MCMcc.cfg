\* Buffers of two or four characters, read three at a time; stacks of two to nine
\* entries and programs of eight tokens; ints of five bits.
CONSTANTS
  BufSizes = {2, 4}
  READ_BUF_SIZE = 3
  YYINITDEPTH = 2
  YYMAXDEPTH = 9
  MaxTokens = 8
  NoValue = NoValue
  Programs <- MCPrograms
  W = 5
SPECIFICATION MCSpec
INVARIANTS ProgramsAreRead CodeIsRight OutputAsAsked PrintfIsRight
PROPERTIES PartsEnd
\* Every part ends.
CHECK_DEADLOCK FALSE
