SPECIFICATION Spec
CONSTANTS
  Contents = {c1, c2}
  Slots = {s1, s2}
  MaxVersions = 2
  Approvers = {a1}
  MaxChains = 0
  MaxApprovers = 1
  Users = {u1, u2}
  MaxSignatures = 2
  MaxKeys = 2
  Checkers = {k1}
  MaxAltered = 1
INVARIANTS SignedFlagTellsSignatures SignatureBoundToVersion OneActiveKey
           ChecksTellTruth
PROPERTIES AnsweredOnce
CONSTRAINT CheckedInSmall
SYMMETRY Symmetry
CHECK_DEADLOCK FALSE
