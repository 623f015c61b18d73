SPECIFICATION FairSpec
CONSTANTS
    Sender = {s1, s2}
    Unwrapping = {s2}
    Address = {1}
    NoAddress = 0
    NoMessage = NoMessage
    Text = {t1, t2}
    MaxMessages = 2
INVARIANTS
  LastMessageKept
PROPERTIES
  ImplementsLogSink
  OwnerIsReleased
CHECK_DEADLOCK FALSE
