SPECIFICATION Spec
CONSTANTS
  m1 = m1
  m2 = m2
  m3 = m3
  Frames = {"f1", "f2"}
  Messages = {m1, m2, m3}
  Senders = {"sender"}
  SenderOf <- OneSender
  TextOf <- SharedText
  replaceMode = TRUE
  ApiOutcomes = {"queued", "skipped", "refused"}
  MayFail = TRUE
CHECK_DEADLOCK FALSE
PROPERTIES
  NoReappearance
  OwedLineAppears
