----------------------------- MODULE MCAccounts -----------------------------
EXTENDS Accounts, TLC

CONSTANTS chief, captain, srpf, group, camp

\* The admin of a service and of one of its groups; the camp is a second group
\* that is still to be created.
MCAdminRole == (chief :> adminRole("SRPF")) @@ (captain :> adminRole("SRPF_GROUP"))
MCAdminUnit == (chief :> srpf) @@ (captain :> group)
MCParentUnit == (srpf :> NoUnit) @@ (group :> srpf) @@ (camp :> srpf)
MCUnitLevel == (srpf :> "SRPF") @@ (group :> "SRPF_GROUP") @@ (camp :> "SRPF_GROUP")
MCRolesGiven == {officerRole("SRPF")}

Symmetry == Permutations(Slots)
=============================================================================
