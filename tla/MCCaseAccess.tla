---------------------------- MODULE MCCaseAccess ----------------------------
EXTENDS CaseAccess, TLC

CONSTANTS dgp, inspector

\* Top command and a unit's admin: both may share, only one may reopen.
MCRoleOf == (dgp       :> adminRole("STATE_HQ")) @@
            (inspector :> adminRole("STATION"))

Symmetry == Permutations(Slots)
=============================================================================
