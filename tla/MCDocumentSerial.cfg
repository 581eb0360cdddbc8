SPECIFICATION Spec
CONSTANTS
  Contents = {c1}
  Slots = {s1}
  MaxVersions = 3
  Approvers = {a1, a2, a3}
  MaxChains = 2
  MaxApprovers = 2
  Users = {u1, u2}
  MaxSignatures = 1
  MaxKeys = 1
  Checkers = {}
  MaxAltered = 0
INVARIANTS TypeOK VersionsMoveForward ReviewMatchesChain ChainsInOrder TurnIsOffered
SYMMETRY Symmetry
CHECK_DEADLOCK FALSE
