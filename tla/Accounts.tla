------------------------------ MODULE Accounts ------------------------------
(***************************************************************************)
(* One account from its invitation to its sessions: modules/users (invite, *)
(* activate, status, roles, units) and modules/auth (login and lockout,    *)
(* refresh, logout, MFA).  The administrators who manage it are given.     *)
(*                                                                         *)
(* Handlers read through the pool, hash passwords for a long time, and     *)
(* write in a transaction that checks nothing again.                       *)
(*                                                                         *)
(* Left out: names and mails, login_attempts, last_login_at, the audit     *)
(* event of each transaction (AuditLedger), and the sessions of others.    *)
(***************************************************************************)
EXTENDS Roles, Naturals, Sequences

CONSTANTS Admins,          \* accounts that manage others
          AdminRole,       \* AdminRole[a]: the role in a's token
          AdminUnit,       \* AdminUnit[a]: a's department
          Units,           \* departments
          ParentUnit,      \* ParentUnit[u]: the department above, or NoUnit
          UnitLevel,       \* UnitLevel[u]: its unit_type
          NoUnit,
          RolesGiven,      \* roles that updateUserRoles sets in this instance
          Threshold,       \* config.auth.lockoutThreshold
          Slots,           \* requests served at the same time
          MaxFailed,       \* bounds on the failure counter,
          MaxSessions,     \* on the sessions
          MaxCredentials   \* and on the MFA enrolments

ASSUME AdminAssumption == \A a \in Admins : /\ AdminRole[a] \in ROLES
                                            /\ AdminUnit[a] \in Units
ASSUME UnitAssumption == /\ NoUnit \notin Units
                         /\ \A u \in Units : /\ UnitLevel[u] \in Levels
                                             /\ ParentUnit[u] \in Units \cup {NoUnit}
ASSUME ThresholdAssumption == Threshold \in Nat \ {0} /\ MaxFailed \in Nat
ASSUME RolesAssumption == RolesGiven \subseteq ROLES
ASSUME BoundAssumption == MaxSessions \in Nat /\ MaxCredentials \in Nat

VARIABLES account,     \* the users row and its user_roles
          invitation,  \* the user_invitations row
          units,       \* departments that exist
          credentials, \* mfa_credentials rows in the order of created_at
          sessions,    \* sessions[i]: is auth_sessions row i still good?
          token,       \* is one of the account's access tokens still good?
          overtaken,   \* writes that came after what they rely on was undone
          req          \* req[s]: the request slot s serves, or Idle

rows == <<account, invitation, units, credentials, sessions, token, overtaken>>
vars == <<rows, req>>

Idle == [op |-> "idle"]

\* Slot s goes from one step of a handler to its next.
Step(s, from, to) ==
  /\ req[s].op = from
  /\ req' = [req EXCEPT ![s] = to]

Begins(s, to) == Step(s, "idle", to) /\ UNCHANGED rows
Ends(s, from) == Step(s, from, Idle)

-----------------------------------------------------------------------------
Init ==
  /\ account = [status |-> "NONE", unit |-> NoUnit, roles |-> {},
                password |-> FALSE, failed |-> 0, mfa |-> FALSE]
  /\ invitation = [status |-> "NONE"]
  /\ units = {AdminUnit[a] : a \in Admins}
  /\ credentials = << >>
  /\ sessions = << >>
  /\ token = FALSE
  /\ overtaken = {}
  /\ req = [s \in Slots |-> Idle]

\* isDepartmentWithinSubtree walks from a unit towards the root.
Above[u \in Units] ==
  {u} \cup IF ParentUnit[u] = NoUnit THEN {} ELSE Above[ParentUnit[u]]

requireAnyAdmin(a) == createsRolesFor(AdminRole[a]) # {}

assertManagementAuthority(a) ==
  /\ requireAnyAdmin(a)
  /\ account.status # "NONE"
  /\ AdminUnit[a] \in Above[account.unit]

\* assertCreationAuthority: the own unit for an officer, a unit directly
\* below, there already or created on the spot, for its admin.
UnitFor(a, role) ==
  IF role.side = "OFFICER" THEN {AdminUnit[a]}
  ELSE {u \in Units : /\ ParentUnit[u] = AdminUnit[a]
                      /\ UnitLevel[u] = role.level}

createDepartment(a) ==
  /\ \E u \in Units : /\ ParentUnit[u] = AdminUnit[a]
                      /\ adminRole(UnitLevel[u]) \in createsRolesFor(AdminRole[a])
                      /\ units' = units \cup {u}
  /\ UNCHANGED <<account, invitation, credentials, sessions, token,
                 overtaken, req>>

\* Mutant: the new unit is not inserted.
inviteUserIntoNoUnit(a) ==
  /\ account.status = "NONE"
  /\ \E role \in createsRolesFor(AdminRole[a]) : \E u \in UnitFor(a, role) :
       /\ account' = [account EXCEPT !.status = "INVITED", !.unit = u]
       /\ invitation' = [status |-> "PENDING", role |-> role]
  /\ UNCHANGED <<units, credentials, sessions, token, overtaken, req>>

\* The unique username lets one invitation through.
inviteUser(a) ==
  /\ account.status = "NONE"
  /\ \E role \in createsRolesFor(AdminRole[a]) : \E u \in UnitFor(a, role) :
       /\ account' = [account EXCEPT !.status = "INVITED", !.unit = u]
       /\ invitation' = [status |-> "PENDING", role |-> role]
       /\ units' = units \cup {u}
  /\ UNCHANGED <<credentials, sessions, token, overtaken, req>>

expireInvitation ==
  /\ invitation.status = "PENDING"
  /\ invitation' = [invitation EXCEPT !.status = "EXPIRED"]
  /\ UNCHANGED <<account, units, credentials, sessions, token, overtaken, req>>

\* findValidInvitationOrThrow and the INVITED account, before the slow hash.
LoadActivate(s) ==
  /\ invitation.status = "PENDING" /\ account.status = "INVITED"
  /\ Begins(s, [op |-> "activate"])

\* Mutant: the invitation is marked before the transaction and stays accepted
\* when the transaction fails.
activateMarksFirst(s) ==
  /\ Ends(s, "activate")
  /\ invitation' = [invitation EXCEPT !.status = "ACCEPTED"]
  /\ \/ account' = account
     \/ account' = [account EXCEPT !.status = "ACTIVE", !.password = TRUE,
                                   !.roles = @ \cup {invitation.role}]
  /\ UNCHANGED <<units, credentials, sessions, token, overtaken>>

\* setUserPasswordAndActivate, insertUserRole, markInvitationAccepted: all of
\* them without a condition.
activateAccount(s) ==
  /\ Ends(s, "activate")
  /\ account' = [account EXCEPT !.status = "ACTIVE", !.password = TRUE,
                                !.roles = @ \cup {invitation.role}]
  /\ invitation' = [invitation EXCEPT !.status = "ACCEPTED"]
  /\ overtaken' = IF account.status = "INVITED" THEN overtaken
                  ELSE overtaken \cup {"activation"}
  /\ UNCHANGED <<units, credentials, sessions, token>>

\* PATCH /users/:id/status
LoadStatus(s, a) ==
  /\ assertManagementAuthority(a)
  /\ \E to \in {"ACTIVE", "INACTIVE", "LOCKED"} :
       Begins(s, [op |-> "status", to |-> to])

\* Mutant: unlocking keeps the failure counter.
updateUserStatusKeepsCount(s) ==
  /\ Ends(s, "status")
  /\ account' = [account EXCEPT !.status = req[s].to]
  /\ UNCHANGED <<invitation, units, credentials, sessions, token, overtaken>>

updateUserStatus(s) ==
  /\ Ends(s, "status")
  /\ account' = [account EXCEPT !.status = req[s].to,
                                !.failed = IF req[s].to = "ACTIVE" THEN 0 ELSE @]
  /\ UNCHANGED <<invitation, units, credentials, sessions, token, overtaken>>

\* PUT /users/:id/roles.  The DELETE removes the roles it sees when it starts;
\* those of a transaction that commits meanwhile stay.
LoadRoles(s, a) ==
  /\ assertManagementAuthority(a)
  /\ \E r \in RolesGiven : Begins(s, [op |-> "roles", roles |-> {r},
                                      deleted |-> account.roles])

replaceUserRoles(s) ==
  /\ Ends(s, "roles")
  /\ account' = [account EXCEPT !.roles = (@ \ req[s].deleted) \cup req[s].roles]
  /\ UNCHANGED <<invitation, units, credentials, sessions, token, overtaken>>

-----------------------------------------------------------------------------
\* login: the account is not locked; then the password is verified.
LoadLogin(s) ==
  /\ account.status \notin {"NONE", "LOCKED"}
  /\ \E ok \in {FALSE, account.password} :
       Begins(s, [op |-> IF ~ok THEN "failed"
                         ELSE IF account.mfa THEN "otp" ELSE "login"])

\* The one-time password, against a verified credential.
CheckOtp(s) ==
  /\ \/ Step(s, "otp", [op |-> "failed"])
     \/ /\ \E c \in DOMAIN credentials : credentials[c] = "verified"
        /\ Step(s, "otp", [op |-> "login"])
  /\ UNCHANGED rows

\* incrementFailedLoginCount, and LOCKED at the threshold.
failLogin(s) ==
  /\ Ends(s, "failed") /\ account.failed < MaxFailed
  /\ account' = [account EXCEPT !.failed = @ + 1,
                   !.status = IF account.failed + 1 >= Threshold
                              THEN "LOCKED" ELSE @]
  /\ UNCHANGED <<invitation, units, credentials, sessions, token, overtaken>>

\* The counter is reset, a session is opened, a token is issued; the status is
\* not looked at again.
login(s) ==
  /\ Ends(s, "login") /\ Len(sessions) < MaxSessions
  /\ account' = [account EXCEPT !.failed = 0]
  /\ sessions' = Append(sessions, TRUE)
  /\ token' = TRUE
  /\ UNCHANGED <<invitation, units, credentials, overtaken>>

\* refresh: the session, then the account, then its roles.
LoadRefresh(s) == /\ \E i \in DOMAIN sessions : sessions[i]
                  /\ Begins(s, [op |-> "session"])

CheckRefreshUser(s) ==
  /\ account.status = "ACTIVE"
  /\ Step(s, "session", [op |-> "refresh"])
  /\ UNCHANGED rows

refresh(s) ==
  /\ Ends(s, "refresh")
  /\ token' = TRUE
  /\ UNCHANGED <<account, invitation, units, credentials, sessions, overtaken>>

\* revokeSessionByHash, for a caller who holds a token.
logout ==
  /\ token
  /\ \E i \in DOMAIN sessions : /\ sessions[i]
                                /\ sessions' = [sessions EXCEPT ![i] = FALSE]
  /\ UNCHANGED <<account, invitation, units, credentials, token, overtaken, req>>

\* The access token's short lifetime and the session's long one.
expireToken ==
  /\ token
  /\ token' = FALSE
  /\ UNCHANGED <<account, invitation, units, credentials, sessions, overtaken, req>>

expireSession ==
  /\ \E i \in DOMAIN sessions : /\ sessions[i]
                                /\ sessions' = [sessions EXCEPT ![i] = FALSE]
  /\ UNCHANGED <<account, invitation, units, credentials, token, overtaken, req>>

-----------------------------------------------------------------------------
Drop(c, state) == IF c = state THEN "deleted" ELSE c

\* enrollMfa: two statements without a transaction.
LoadEnroll(s) == /\ token /\ Len(credentials) < MaxCredentials
                 /\ Begins(s, [op |-> "enroll"])

\* Mutant: re-enrolment deletes verified credentials as well.
deleteMfaCredentials(s) ==
  /\ Step(s, "enroll", [op |-> "insert"])
  /\ credentials' = [c \in DOMAIN credentials |-> "deleted"]
  /\ UNCHANGED <<account, invitation, units, sessions, token, overtaken>>

deleteUnverifiedMfaCredentials(s) ==
  /\ Step(s, "enroll", [op |-> "insert"])
  /\ credentials' = [c \in DOMAIN credentials |->
                       Drop(credentials[c], "unverified")]
  /\ UNCHANGED <<account, invitation, units, sessions, token, overtaken>>

insertMfaCredential(s) ==
  /\ Ends(s, "insert") /\ Len(credentials) < MaxCredentials
  /\ credentials' = Append(credentials, "unverified")
  /\ UNCHANGED <<account, invitation, units, sessions, token, overtaken>>

\* verifyMfaEnrollment: the latest unverified credential and its code.
LoadVerifyMfa(s) ==
  /\ token
  /\ \E c \in DOMAIN credentials :
       /\ credentials[c] = "unverified"
       /\ \A d \in DOMAIN credentials : credentials[d] = "unverified" => d <= c
       /\ Begins(s, [op |-> "verifyMfa", credential |-> c])

\* markMfaCredentialVerified finds no row when the credential was deleted
\* meanwhile; mfa_enabled is set all the same.
verifyMfaEnrollment(s) ==
  /\ Ends(s, "verifyMfa")
  /\ LET c == req[s].credential IN
       /\ credentials' = [credentials EXCEPT ![c] =
                            IF @ = "deleted" THEN @ ELSE "verified"]
       /\ overtaken' = IF credentials[c] = "deleted"
                       THEN overtaken \cup {"credential"} ELSE overtaken
  /\ account' = [account EXCEPT !.mfa = TRUE]
  /\ UNCHANGED <<invitation, units, sessions, token>>

\* A request fails, is refused or dies with the process.
Abort(s) == req[s] # Idle /\ Ends(s, req[s].op) /\ UNCHANGED rows

-----------------------------------------------------------------------------
Serve(s) ==
  \/ activateAccount(s)
  \/ updateUserStatus(s)
  \/ replaceUserRoles(s)
  \/ CheckOtp(s)
  \/ failLogin(s)
  \/ login(s)
  \/ CheckRefreshUser(s)
  \/ refresh(s)
  \/ deleteUnverifiedMfaCredentials(s)
  \/ insertMfaCredential(s)
  \/ verifyMfaEnrollment(s)
  \/ Abort(s)

Next ==
  \/ expireInvitation
  \/ logout
  \/ expireToken
  \/ expireSession
  \/ \E a \in Admins : createDepartment(a) \/ inviteUser(a)
  \/ \E s \in Slots : \/ LoadActivate(s)
                      \/ LoadLogin(s)
                      \/ LoadRefresh(s)
                      \/ LoadEnroll(s)
                      \/ LoadVerifyMfa(s)
                      \/ \E a \in Admins : LoadStatus(s, a) \/ LoadRoles(s, a)
                      \/ Serve(s)

Spec == Init /\ [][Next]_vars

-----------------------------------------------------------------------------
RoleSets == SUBSET ROLES

\* Every variable keeps its type.
TypeOK ==
  /\ account.status \in {"NONE", "INVITED", "ACTIVE", "INACTIVE", "LOCKED"}
  /\ account.unit \in units \cup {NoUnit}
  /\ account.roles \in RoleSets
  /\ account.password \in BOOLEAN /\ account.mfa \in BOOLEAN
  /\ account.failed \in 0 .. MaxFailed
  /\ invitation.status \in {"NONE", "PENDING", "ACCEPTED", "EXPIRED"}
  /\ units \subseteq Units
  /\ credentials \in Seq({"unverified", "verified", "deleted"})
  /\ sessions \in Seq(BOOLEAN)
  /\ token \in BOOLEAN
  /\ overtaken \subseteq {"activation", "credential"}

\* An account at the threshold (config.auth.lockoutThreshold) is locked, and
\* becomes ACTIVE only with its counter reset: logins that fail at the same
\* time are all counted, none that ends after the lock undoes it.  Two things
\* lift the lock and keep the counter, and an account at the threshold is then
\* open for a login, which refuses LOCKED alone: an administrator who sets a
\* locked account INACTIVE, and an activation that overtakes the locking of an
\* invited account.
LockAtThreshold ==
  account.failed >= Threshold =>
    \/ account.status \in {"LOCKED", "INACTIVE"}
    \/ "activation" \in overtaken

\* The password, the role and the end of the invitation come together: an
\* account has a password exactly when its invitation was accepted, whatever
\* expiry, status change or second activation comes in between.
InvitationTellsActivation ==
  account.password <=> invitation.status = "ACCEPTED"

\* With mfa_enabled the account has a verified credential to log in with,
\* through any number of enrolments, unless a second enrolment deleted the
\* credential while it was being verified.
MfaUsable ==
  account.mfa => \/ \E c \in DOMAIN credentials : credentials[c] = "verified"
                 \/ "credential" \in overtaken
=============================================================================
