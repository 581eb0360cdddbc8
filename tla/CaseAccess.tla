----------------------------- MODULE CaseAccess -----------------------------
(***************************************************************************)
(* One case with its members, its document's shares and the explicit       *)
(* grants: three modules that write the rows the access engine reads, and  *)
(* that are themselves guarded by it.                                      *)
(***************************************************************************)
EXTENDS Cases, Sharing

vars == <<accessVars, caseVars, shares, req>>

Init == AccessInit /\ CaseInit /\ SharingInit

Next == \/ AccessNext /\ UNCHANGED <<caseVars, shares>>
        \/ CaseNext /\ UNCHANGED shares
        \/ SharingNext /\ UNCHANGED caseVars

Spec == Init /\ [][Next]_vars

-----------------------------------------------------------------------------
MemberRow == [user : Users, caseRole : CASE_ROLES, by : Users,
              through : SUBSET Nat, at : Nat, active : BOOLEAN]

GrantRow == [resource : Resources \cup {"DOCUMENT"}, user : Users, code : PERMISSIONS,
             by : Users, through : SUBSET Nat, at : Nat, revoked : BOOLEAN,
             expires : {"never", "future", "past"}]

ShareRow == [grant : Nat, to : Users, code : {"VIEW", "DOWNLOAD"}]

\* Every variable keeps its type, a user is an active member once at most,
\* and each share has a grant of its own.
TypeOK ==
  /\ members \in Seq(MemberRow)
  /\ \A u \in Users : Cardinality(ActiveRows(u)) <= 1
  /\ grants \in Seq(GrantRow)
  /\ shares \in Seq(ShareRow)
  /\ \A h, k \in DOMAIN shares :
       /\ shares[h].grant \in DOMAIN grants
       /\ shares[h].grant = shares[k].grant => h = k
  /\ case \in [status : CASE_STATUSES \cup {"NONE"}, closed : BOOLEAN,
               archived : BOOLEAN]
  /\ raced \in BOOLEAN
  /\ \A s \in Slots : req[s] = Idle \/ req[s].user \in Users

\* closed_at is set exactly in a closed or archived case, archived_at exactly
\* in an archived one: although updateCaseStatus writes what it computed from
\* an old row, whatever changes overlap ("the service is responsible for
\* computing the correct final value for each", cases.repository.js).
StampsMatchStatus ==
  /\ case.closed <=> case.status \in {"CLOSED", "ARCHIVED"}
  /\ case.archived <=> case.status = "ARCHIVED"

\* "A case must always have at least one owner" (cases.service.js), as long
\* as no removal was decided on a count or a role that changed before it was
\* written.
OwnerKept == (case.status # "NONE" /\ ~raced) => ownerCount >= 1

\* The rows that user u was let through by gave him, before `at`, the right
\* to share resource r: those of them that are memberships by their role,
\* the others as grants of SHARE on r itself.
GaveShare(u, r, through, at) ==
  /\ CeilingAllows(u, "SHARE")
  /\ through # {}
  /\ \A t \in through :
       /\ t < at
       /\ \/ \E m \in DOMAIN members :
               /\ members[m].user = u /\ members[m].at = t
               /\ "SHARE" \in CASE_ROLE_ACTIONS[members[m].caseRole]
          \/ \E g \in DOMAIN grants :
               /\ grants[g].user = u /\ grants[g].at = t
               /\ grants[g].resource = r /\ grants[g].code = "SHARE"

\* Access comes from somewhere: every membership but the creator's, and every
\* grant on the case or its document, was given by somebody who at his check
\* held the right to give it, through an older row that was in force then,
\* whatever was removed, revoked or expired before the write.  So all of it
\* goes back to the creator.  Grants on evidence and reports do not: top
\* command gives them, member of the case or not - but they give no right to
\* admit members or to grant access to the case or its document.
AccessTracesToCreator ==
  /\ \A m \in DOMAIN members :
       LET row == members[m]
       IN m > 1 => GaveShare(row.by, "CASE", row.through, row.at)
  /\ \A g \in DOMAIN grants :
       LET row == grants[g]
       IN IF row.resource \in {"CASE", "DOCUMENT"}
          THEN GaveShare(row.by, row.resource, row.through, row.at)
          ELSE RoleOf[row.by] \in TOP_OVERSIGHT_ROLES

\* "there's nothing that can drift out of sync" (document_shares migration):
\* the status a share is listed with is ACTIVE exactly while its own grant
\* lets the recipient through, also when the grant was revoked directly.
SharesTellAccess ==
  \A h \in DOMAIN shares :
    LET share == shares[h]
        grant == grants[share.grant]
    IN /\ <<grant.resource, grant.user, grant.code>>
            = <<"DOCUMENT", share.to, share.code>>
       /\ shareStatus(share) = "ACTIVE" <=> InForce(grant)
=============================================================================
