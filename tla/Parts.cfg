SPECIFICATION Spec
CONSTANTS
  DevicePath <- MCDevicePath
  NameLike <- MCNameLike
  Caption <- MCCaption
  Participant <- MCParticipant
  Message <- MCMessage
  Own <- MCOwn
  Counter <- MCCounter
  Download = {"md", "same", "log", "lite"}
  MaxBatch = 2
  Prefix <- MCPrefix
  MaxPending = 3
  MaxStops = 1
INVARIANTS
    ReadAsPacked
    ItsOwnName
CHECK_DEADLOCK FALSE
