------------------------------- MODULE Access -------------------------------
(***************************************************************************)
(* Who may do what with one case and its document: the access engine       *)
(* (services/permissions), the guard that every route puts in front of its *)
(* handler (middleware/require-permission.js), and the explicit grants     *)
(* (modules/permissions).  Cases writes the memberships, Sharing the       *)
(* grants behind a share; CaseAccess puts the three together.              *)
(*                                                                         *)
(* A request is checked first and acts later: can() reads the membership,  *)
(* then, if that does not allow it, the grants, and nothing it read is     *)
(* looked at again when the handler writes.  Inputs are chosen by the step *)
(* that first uses them.                                                   *)
(*                                                                         *)
(* Left out: the UNAUTH_ACCESS event of a refusal and the audit event of   *)
(* each transaction (AuditLedger).  Roles are the token's: they are fixed  *)
(* while the token lasts.                                                  *)
(***************************************************************************)
EXTENDS Roles, Naturals, Sequences

CONSTANTS Users,      \* users with an account
          RoleOf,     \* RoleOf[u]: the role in u's token
          Slots,      \* requests served at the same time
          Resources,  \* resources that explicit grants are given on
          Codes,      \* permissions given by the grants of this instance
          Expiries,   \* expires_at of a new grant: "never" or "future"
          MaxRows     \* bound on the rows of members and grants together

ASSUME RoleOfAssumption == \A u \in Users : RoleOf[u] \in ROLES
ASSUME ResourcesAssumption ==
         Resources \subseteq {"CASE", "DOCUMENT", "EVIDENCE", "REPORT"}
ASSUME CodesAssumption  == Codes \subseteq PERMISSIONS
ASSUME ExpiriesAssumption == Expiries \subseteq {"never", "future"}

VARIABLES members,    \* case_members rows, in the order of their commits
          grants,     \* resource_permissions rows
          req         \* req[s]: the request slot s serves, or Idle

accessVars == <<members, grants>>

-----------------------------------------------------------------------------
Idle == [op |-> "idle"]
NoArg == [grant |-> 0]

\* The number of rows committed so far stands for joined_at and created_at.
Now == Len(members) + Len(grants)

\* A row keeps the rights its giver held when he was checked: `through`, a
\* history that no step reads.
Member(user, caseRole, by, through) ==
  [user |-> user, caseRole |-> caseRole, by |-> by, through |-> through,
   at |-> Now, active |-> TRUE]

Grant(resource, user, code, by, through, expires) ==
  [resource |-> resource, user |-> user, code |-> code, by |-> by,
   through |-> through, at |-> Now, revoked |-> FALSE, expires |-> expires]

\* case_members_active_unique: one active row per user and case.
ActiveRows(user) == {m \in DOMAIN members :
                       members[m].user = user /\ members[m].active}

\* resolveOwningCaseId knows no case for a REPORT.
resolveOwningCaseId(resource) == resource \in {"CASE", "DOCUMENT", "EVIDENCE"}

checkCaseScope(user, action) ==
  \E m \in ActiveRows(user) : action \in CASE_ROLE_ACTIONS[members[m].caseRole]

InForce(grant) == ~grant.revoked /\ grant.expires # "past"

\* Mutant: a grant lets its user through after it was revoked.
checkResourceGrantEvenRevoked(user, resource, action) ==
  \E g \in DOMAIN grants : /\ grants[g].user = user
                           /\ grants[g].resource = resource
                           /\ grants[g].code = action

checkResourceGrant(user, resource, action) ==
  \E g \in DOMAIN grants : /\ grants[g].user = user
                           /\ grants[g].resource = resource
                           /\ grants[g].code = action
                           /\ InForce(grants[g])

\* can(), as far as its first query: the ceiling, then the case scope.
ScopeAllows(user, action, resource) ==
  /\ resolveOwningCaseId(resource)
  /\ checkCaseScope(user, action)

\* The rows in force that let user do action, each named by its age.
RightsInForce(user, action, resource) ==
  {members[m].at : m \in {n \in ActiveRows(user) :
     /\ resolveOwningCaseId(resource)
     /\ action \in CASE_ROLE_ACTIONS[members[n].caseRole]}}
  \cup
  {grants[g].at : g \in {h \in DOMAIN grants :
     /\ grants[h].user = user /\ grants[h].resource = resource
     /\ grants[h].code = action /\ InForce(grants[h])}}

CeilingAllows(user, action) ==
  action \in TIER_CEILINGS[ceilingTierFor(RoleOf[user])]

-----------------------------------------------------------------------------
AccessInit ==
  /\ members = << >>
  /\ grants = << >>
  /\ req = [s \in Slots |-> Idle]

\* requirePermission: the request comes in and is let through by the case
\* scope, or goes on to ask for a grant.  A role whose ceiling forbids the
\* action is refused.
Guarded(s, user, op, action, resource, arg) ==
  /\ req[s] = Idle
  /\ CeilingAllows(user, action)
  /\ req' = [req EXCEPT ![s] =
       [op |-> op, user |-> user, action |-> action, resource |-> resource,
        arg |-> arg, held |-> RightsInForce(user, action, resource),
        stage |-> IF ScopeAllows(user, action, resource)
                  THEN "allowed" ELSE "grant?"]]

\* can(), second query.  Without a grant in force the request is refused.
CheckGrant(s) ==
  /\ req[s] # Idle /\ req[s].stage = "grant?"
  /\ req' = [req EXCEPT ![s] =
       IF checkResourceGrant(req[s].user, req[s].resource, req[s].action)
       THEN [req[s] EXCEPT !.stage = "allowed",
               !.held = RightsInForce(req[s].user, req[s].action, req[s].resource)]
       ELSE Idle]
  /\ UNCHANGED accessVars

\* The handler of an allowed request has read and checked what it needs.
Reads(s, op, seen) ==
  /\ req[s] # Idle /\ req[s].op = op /\ req[s].stage = "allowed"
  /\ req' = [req EXCEPT ![s].stage = "read", ![s].arg = seen]

Ends(s, op, stage) ==
  /\ req[s] # Idle /\ req[s].op = op /\ req[s].stage = stage
  /\ req' = [req EXCEPT ![s] = Idle]

\* assertGrantAuthority: SHARE on the case or document; of a resource of
\* another type top command disposes, also of evidence, which a case owns.
assertGrantAuthority(s, user, op, resource, arg) ==
  IF resource \in {"CASE", "DOCUMENT"}
  THEN Guarded(s, user, op, "SHARE", resource, arg)
  ELSE /\ RoleOf[user] \in TOP_OVERSIGHT_ROLES
       /\ req[s] = Idle
       /\ req' = [req EXCEPT ![s] =
            [op |-> op, user |-> user, action |-> "SHARE",
             resource |-> resource, arg |-> arg, held |-> {},
             stage |-> "allowed"]]

grantPermission(s) ==
  /\ Now < MaxRows
  /\ \E user \in Users, r \in Resources :
       assertGrantAuthority(s, user, "grant", r, NoArg)
  /\ UNCHANGED accessVars

insertGrant(s) ==
  /\ Ends(s, "grant", "allowed") /\ Now < MaxRows
  /\ \E to \in Users, c \in Codes, e \in Expiries :
       grants' = Append(grants,
                        Grant(req[s].resource, to, c, req[s].user, req[s].held, e))
  /\ UNCHANGED members

\* The grant is found first, then the authority over its resource.
revokeGrant(s) ==
  /\ \E user \in Users, g \in DOMAIN grants :
       assertGrantAuthority(s, user, "revoke", grants[g].resource,
                            [grant |-> g])
  /\ UNCHANGED accessVars

CommitRevokeGrant(s) ==
  /\ Ends(s, "revoke", "allowed")
  /\ grants' = [grants EXCEPT ![req[s].arg.grant].revoked = TRUE]
  /\ UNCHANGED members

\* expires_at passes.
Expire(g) ==
  /\ grants[g].expires = "future"
  /\ grants' = [grants EXCEPT ![g].expires = "past"]
  /\ UNCHANGED <<members, req>>

\* A request fails, is rolled back or dies with the process.
Abort(s) ==
  /\ req[s] # Idle
  /\ req' = [req EXCEPT ![s] = Idle]
  /\ UNCHANGED accessVars

AccessNext ==
  \/ \E g \in DOMAIN grants : Expire(g)
  \/ \E s \in Slots : \/ CheckGrant(s)
                      \/ grantPermission(s)
                      \/ insertGrant(s)
                      \/ revokeGrant(s)
                      \/ CommitRevokeGrant(s)
                      \/ Abort(s)
=============================================================================
