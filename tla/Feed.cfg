SPECIFICATION Spec
CONSTANTS
  Key <- MCKey
  ann = ann  bob = bob  hi = hi  bye = bye  o1 = o1  o2 = o2
  Channel = {"captions"}
  Unknown = {"renamed"}
  Word = {"a", "b"}
  Gap = 1
  SniffFrames = 1
  MaxNoise = 1
  Own = {o1, o2}
  Theirs = {t1}
  Text = {hi, bye}
  t1 = t1
  Window = 2
  Budgets <- MCBudgets
INVARIANTS
    NoWordLost
    NoWordTwice
    NewestHeld
    ShownOnce
    TheirsKept
    OwnKept
SYMMETRY MCSymmetry
CHECK_DEADLOCK FALSE
