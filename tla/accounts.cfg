SPECIFICATION Spec
CONSTANTS
  chief = chief
  captain = captain
  srpf = srpf
  group = group
  camp = camp
  Admins = {chief, captain}
  AdminRole <- MCAdminRole
  AdminUnit <- MCAdminUnit
  Units = {srpf, group, camp}
  ParentUnit <- MCParentUnit
  UnitLevel <- MCUnitLevel
  NoUnit = NoUnit
  RolesGiven <- MCRolesGiven
  Threshold = 2
  Slots = {s1, s2}
  MaxFailed = 3
  MaxSessions = 1
  MaxCredentials = 2
SYMMETRY Symmetry
INVARIANTS TypeOK LockAtThreshold InvitationTellsActivation MfaUsable
CHECK_DEADLOCK FALSE
