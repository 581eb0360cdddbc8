------------------------------- MODULE Cases --------------------------------
(***************************************************************************)
(* One case (modules/cases): its status and its members.  Every handler    *)
(* checks rows it read before its transaction; the transaction then writes *)
(* without a condition, and only case_members_active_unique is checked     *)
(* again.                                                                  *)
(*                                                                         *)
(* Left out: titles, priorities and departments (updateCase), case         *)
(* numbers, and reads.                                                     *)
(***************************************************************************)
EXTENDS Access

CONSTANT GivenRoles   \* case roles handed out in this instance

ASSUME GivenRolesAssumption == GivenRoles \subseteq CASE_ROLES

VARIABLES case,       \* the cases row: status, closed_at and archived_at set?
          raced       \* a removal was written after what it checked had changed

caseVars == <<case, raced>>

CASE_STATUSES == {"OPEN", "UNDER_INVESTIGATION", "UNDER_REVIEW", "SUBMITTED",
                  "CLOSED", "ARCHIVED"}

ALLOWED_TRANSITIONS ==
  [OPEN                |-> {"UNDER_INVESTIGATION"},
   UNDER_INVESTIGATION |-> {"UNDER_REVIEW"},
   UNDER_REVIEW        |-> {"SUBMITTED"},
   SUBMITTED           |-> {"CLOSED"},
   CLOSED              |-> {"ARCHIVED", "UNDER_INVESTIGATION"},
   ARCHIVED            |-> {}]

\* countActiveMembersByRole(OWNER)
ownerCount == Cardinality({m \in DOMAIN members :
                 members[m].caseRole = "OWNER" /\ members[m].active})

\* findActiveCaseMember: the case role, or "NONE".
caseRoleOf(user) ==
  IF ActiveRows(user) = {} THEN "NONE"
  ELSE members[CHOOSE m \in ActiveRows(user) : TRUE].caseRole

-----------------------------------------------------------------------------
CaseInit == /\ case = [status |-> "NONE", closed |-> FALSE, archived |-> FALSE]
            /\ raced = FALSE

\* createCase: the row and its first member, the owner, in one transaction.
createCase(user) ==
  /\ case.status = "NONE" /\ Now < MaxRows
  /\ RoleOf[user] \in CASE_CREATOR_ROLES
  /\ case' = [case EXCEPT !.status = "OPEN"]
  /\ members' = Append(members, Member(user, "OWNER", user, {}))
  /\ UNCHANGED <<grants, req, raced>>

\* PATCH /:id/status
updateCaseStatus(s) ==
  /\ case.status # "NONE"
  /\ \E user \in Users : Guarded(s, user, "status", "EDIT", "CASE", NoArg)
  /\ UNCHANGED <<accessVars, caseVars>>

\* Mutant: reopening leaves closed_at as it was, as a COALESCE would.
StampsKept(existing, to) ==
  [status   |-> to,
   closed   |-> to = "CLOSED" \/ existing.closed,
   archived |-> to = "ARCHIVED" \/ existing.archived]

\* closedAt and archivedAt are computed from the row that was read.
Stamps(existing, to) ==
  [status   |-> to,
   closed   |-> \/ to = "CLOSED"
                \/ existing.closed /\ ~(/\ existing.status = "CLOSED"
                                        /\ to = "UNDER_INVESTIGATION"),
   archived |-> to = "ARCHIVED" \/ existing.archived]

ReadStatus(s) ==
  /\ case.status # "NONE"
  /\ \E to \in ALLOWED_TRANSITIONS[case.status] :
       /\ Reads(s, "status", [row |-> Stamps(case, to)])
       /\ (case.status = "CLOSED" /\ to = "UNDER_INVESTIGATION")
            => RoleOf[req[s].user] \in TOP_OVERSIGHT_ROLES
  /\ UNCHANGED <<accessVars, caseVars>>

CommitStatus(s) ==
  /\ Ends(s, "status", "read")
  /\ case' = req[s].arg.row
  /\ UNCHANGED <<accessVars, raced>>

\* POST /:id/members
addMember(s) ==
  /\ case.status # "NONE" /\ Now < MaxRows
  /\ \E user \in Users : Guarded(s, user, "add", "SHARE", "CASE", NoArg)
  /\ UNCHANGED <<accessVars, caseVars>>

ReadForAdd(s) ==
  /\ \E user \in Users : /\ ActiveRows(user) = {}
                         /\ Reads(s, "add", [user |-> user])
  /\ UNCHANGED <<accessVars, caseVars>>

\* Mutant: without the partial unique index.
insertCaseMemberUnchecked(s) ==
  /\ Ends(s, "add", "read") /\ Now < MaxRows
  /\ \E r \in GivenRoles :
       members' = Append(members,
                         Member(req[s].arg.user, r, req[s].user, req[s].held))
  /\ UNCHANGED <<grants, caseVars>>

\* The partial unique index refuses a second active row.
insertCaseMember(s) ==
  /\ Ends(s, "add", "read") /\ Now < MaxRows
  /\ ActiveRows(req[s].arg.user) = {}
  /\ \E r \in GivenRoles :
       members' = Append(members,
                         Member(req[s].arg.user, r, req[s].user, req[s].held))
  /\ UNCHANGED <<grants, caseVars>>

\* DELETE /:id/members/:userId
removeMember(s) ==
  /\ case.status # "NONE"
  /\ \E user \in Users : Guarded(s, user, "remove", "SHARE", "CASE", NoArg)
  /\ UNCHANGED <<accessVars, caseVars>>

\* Mutant: the last owner is not looked for.
ReadForRemoveUncounted(s) ==
  /\ \E user \in Users :
       /\ Reads(s, "remove", [user |-> user, role |-> caseRoleOf(user),
                              owners |-> ownerCount])
       /\ caseRoleOf(user) # "NONE"
  /\ UNCHANGED <<accessVars, caseVars>>

\* An owner is only removed while there is another one.
ReadForRemove(s) ==
  /\ \E user \in Users :
       /\ Reads(s, "remove", [user |-> user, role |-> caseRoleOf(user),
                              owners |-> ownerCount])
       /\ caseRoleOf(user) # "NONE"
       /\ caseRoleOf(user) = "OWNER" => ownerCount > 1
  /\ UNCHANGED <<accessVars, caseVars>>

revokeCaseMember(s) ==
  /\ Ends(s, "remove", "read")
  /\ LET seen == req[s].arg IN
       /\ members' = [m \in DOMAIN members |->
            [members[m] EXCEPT !.active = @ /\ m \notin ActiveRows(seen.user)]]
       /\ raced' = \/ raced
                   \/ seen.role # caseRoleOf(seen.user)
                   \/ seen.role = "OWNER" /\ seen.owners # ownerCount
  /\ UNCHANGED <<grants, case>>

CaseNext ==
  \/ \E user \in Users : createCase(user)
  \/ \E s \in Slots : \/ updateCaseStatus(s)
                      \/ ReadStatus(s)
                      \/ CommitStatus(s)
                      \/ addMember(s)
                      \/ ReadForAdd(s)
                      \/ insertCaseMember(s)
                      \/ removeMember(s)
                      \/ ReadForRemove(s)
                      \/ revokeCaseMember(s)
=============================================================================
