SPECIFICATION Spec
CONSTANTS
  Contents = {c1}
  Slots = {s1}
  MaxVersions = 1
  Approvers = {a1}
  MaxChains = 0
  MaxApprovers = 1
  Users = {u1}
  MaxSignatures = 2
  MaxKeys = 1
  Checkers = {}
  MaxAltered = 0
PROPERTIES FinalIsTerminal
CHECK_DEADLOCK FALSE
