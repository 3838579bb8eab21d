SPECIFICATION DmSpec
CONSTANTS
  Accounts = {1, 2}
  ConvIds = {c1, c2, c3, c4}
  Calls = {r1, r2, r3}
  Nothing = Nothing
INVARIANTS
  DmTypeOK
  OneConversationPerPair
  AnswersAreComplete
PROPERTY
  ImplementsDirectory
SYMMETRY Symmetry
