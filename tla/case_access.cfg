SPECIFICATION Spec
CONSTANTS
  dgp = dgp
  inspector = inspector
  Users = {dgp, inspector}
  RoleOf <- MCRoleOf
  Slots = {s1, s2}
  Resources = {"CASE", "EVIDENCE"}
  Codes = {"SHARE"}
  ShareCodes = {"VIEW"}
  Expiries = {"future"}
  GivenRoles = {"OWNER", "VIEWER"}
  MaxRows = 3
INVARIANTS TypeOK StampsMatchStatus OwnerKept AccessTracesToCreator SharesTellAccess
SYMMETRY Symmetry
CHECK_DEADLOCK FALSE
