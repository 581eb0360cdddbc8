SPECIFICATION Spec
CONSTANTS
  transfer = transfer
  capitals = capitals
  recipient = recipient
  refused = refused
  Requests <- MCRequests
  Transfers <- MCTransfers
  Items = {i1}
  Uuids <- MCUuids
  Times <- ShortTimes
  StrictClock = FALSE
  Spellings <- MCSpellings
  Column = "small"
  EvidenceId <- SmallEvidenceId
  Respelt = {}
  Updates <- MCUpdates
INVARIANTS CustodyChainIntact
CHECK_DEADLOCK FALSE
