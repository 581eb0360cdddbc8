SPECIFICATION Spec
CONSTANTS
  Users = {u1, u2, u3}
  Members = {u1, u2, u3}
  Artifacts = {a1, a2}
  Slots = {s1}
  Nobody = Nobody
  MaxTrail = 8
INVARIANTS PartiesHoldItem TrailTellsStatus PageGuidesItem
SYMMETRY Symmetry
CHECK_DEADLOCK FALSE
