SPECIFICATION Spec
CONSTANTS
  m1 = m1
  m2 = m2
  m3 = m3
  Frames = {"f1"}
  Messages = {m1}
  Senders = {"sender"}
  SenderOf <- OneSender
  TextOf <- SharedText
  replaceMode = TRUE
  ApiOutcomes = {"queued", "skipped", "refused"}
  MayFail = TRUE
CHECK_DEADLOCK FALSE
PROPERTIES
  HeldLineAppears
