CONSTANTS
  text = text
  blob = blob
  Messages = {text, blob}
  Attachments <- TextAndBlob
  Noop = Noop
  Error = Error
  Pollers = {p1, p2}
  Aborters = {a2}
  Refusing = {a2}
  WakesPoller = TRUE
SPECIFICATION FairSpec
INVARIANTS
  TypeOK
  OneFate
  LostOnlyAfterAbort
  PrefixDelivered
PROPERTIES
  AbortEndsGet
  EverythingArrives
CHECK_DEADLOCK FALSE
