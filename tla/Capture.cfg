SPECIFICATION Spec
CONSTANTS
  Hooks = {"prototype"}
  NumPc = 2
  NumMedia = 2
  Lang = {"en", "es"}
  DefaultLang = "en"
  Served = "captions"
  MaxEvents = 3
  CreateFails = FALSE
INVARIANTS
    ServedLanguage
    ArmedReachesAdapter
    MediaCountIsTrue
    CaptionsKept
CHECK_DEADLOCK FALSE
