\* Three messages: one being written, one that waits, one being filled.
SPECIFICATION FairSpec
CONSTANTS
  None = None
  Msg = {m1, m2, m3}
INVARIANTS
  TypeOK
  OneWrite
  MessagesAreSafe
  OpenListens
  StopIsLast
PROPERTY
  ClosedIsReleased
CHECK_DEADLOCK FALSE
