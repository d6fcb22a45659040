\* Messages of at most 5 characters, cut at 4, answers up to 8 characters;
\* a buffer of 5 bytes; replies up to 8 characters; up to 3 test binaries
\* and fragments of a description.
SPECIFICATION Spec
CONSTANTS
  MaxLength = 5
  Overhead = 1
  MaxSize = 5
  MaxMessage = 8
  MaxChunk = 7
  MaxBytes = 20
  MaxReply = 8
  MaxTests = 3
  MaxFragments = 3
INVARIANTS PartsKeepAll BufferIsSuffix ObjectFound ReportsAreRight
CHECK_DEADLOCK FALSE
