SPECIFICATION Spec
CONSTANTS
  Users = {u1, u2}
  Members = {u1, u2}
  Artifacts = {a1}
  Slots = {s1}
  Nobody = Nobody
  MaxTrail = 5
PROPERTIES TransitionsAreLegal
CHECK_DEADLOCK FALSE
