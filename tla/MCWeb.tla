------------------------------- MODULE MCWeb -------------------------------
EXTENDS Web, TLC

\* Who looks at the pages: the case's owner, who also manages users; members
\* whose case role, or whose platform role, allows little; and one who holds
\* an explicit grant on a document only.
PlatformRole == [owner |-> adminRole("STATION"), reader |-> officerRole("STATION"),
                 auditor |-> officerRole("ADMINISTRATION_HQ"),
                 guest |-> officerRole("STATION")]
CaseRole == [owner |-> "OWNER", reader |-> "VIEWER", auditor |-> "INVESTIGATOR",
             guest |-> "none"]
MCVisitors ==
  {[role |-> PlatformRole[v], caseRole |-> CaseRole[v],
    holds |-> IF v = "guest" THEN {<<"DOCUMENT", "VIEW">>} ELSE {}]
     : v \in DOMAIN CaseRole}

Symmetry == Permutations(Clicks) \cup Permutations(Fetches)
              \cup Permutations(Callers) \cup Permutations(WebUsers)
=============================================================================
