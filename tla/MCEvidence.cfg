SPECIFICATION Spec
CONSTANTS
  Users = {u1, u2, u3}
  Members = {u1, u2, u3}
  Artifacts = {a1}
  Slots = {s1, s2}
  Nobody = Nobody
  MaxTrail = 5
SYMMETRY Symmetry
INVARIANTS TypeOK TrailNamesCustodian TrailInOrder ModifiedIsReported
CHECK_DEADLOCK FALSE
