SPECIFICATION Spec
CONSTANTS
  A = A
  B = B
  Path = {A, B}
  MediaGrace = 3
  LeaveChecks = 3
  TailGrace = 4
  Flush = 1
  Residue = 3
  Device = {"a1", "a2", "b1"}
  Name = {"Ann", "Bob", "Me"}
  Self = "Me"
  Owner <- MCOwner
  Settle = 1
  ArmGrace = 1
  SilentGrace = 2
  Budgets <- MCBudgets
INVARIANTS
    RecordedSoon
    MarkersTell
    SpeakersAreListed
SYMMETRY MCSymmetry
PROPERTIES
    FollowsTheCall
    NoticeTells
CHECK_DEADLOCK FALSE
