CONSTANTS
  MAX_FILENAME_LENGTH = 2
  MAX_ARG_LENGTH = 2
  a = a
  b = b
  sp = sp
  SP <- sp
  Chars <- MCChars
  Commands <- WellFormed
  NBytes = {1, 2, 3}
  StackByteAfterName = {0}
  MAGIC_NUM = 4
  Image <- MCImage
  StaleHeaderByte = {FALSE}
SPECIFICATION InputSpec
INVARIANT TypeOK ParseAsSpecified ArgsDelivered NoOverrun KeyboardTypeOK KeysAsTyped EchoShown PrintfNumbers MemsetFills MemcpyCopies StrncpyPads PrintfAsDocumented TermWriteShows
