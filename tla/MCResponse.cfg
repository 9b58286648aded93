\* A text can leave room, fill a buffer to the last byte, or be longer than one.  The
\* Date fits behind a short status line, and in place of one that is too long.
CONSTANTS
  iobuf_size = 4
  DateLen = 2
  Lens = {1, 3, 4, 9}
  MaxLines = 4
  MaxTexts = 4
SPECIFICATION Spec
INVARIANT TypeOK
INVARIANT HeaderOfWholeLines
INVARIANT StatusFirst
INVARIANT BodyAsWritten
CHECK_DEADLOCK FALSE
