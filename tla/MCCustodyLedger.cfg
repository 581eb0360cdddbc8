SPECIFICATION Spec
CONSTANTS
  transfer = transfer
  capitals = capitals
  recipient = recipient
  refused = refused
  Requests <- MCRequests
  Transfers <- MCTransfers
  Items = {i1, i2}
  Uuids <- MCUuids
  Times <- MCTimes
  StrictClock = TRUE
  Spellings <- MCSpellings
  Column = "small"
  EvidenceId <- MCEvidenceId
  Respelt = {recipient}
  Updates <- MCUpdates
INVARIANTS TypeOK CustodyChainIntact NewestTransferFound
SYMMETRY Symmetry
CHECK_DEADLOCK FALSE
