SPECIFICATION OutgoingSpec
CONSTANTS
  Texts = {"a", "b"}
  FollowUpTexts = {"b"}
  MaxRequests = 3
  MaxPending = 3
CHECK_DEADLOCK FALSE
INVARIANTS
  CountTracksTable
  NoTextBlocked
  CallbackOnce
  SentOnce
PROPERTIES
  AlwaysAnswered
  TypedIsSent
