--------------------------- MODULE AccountsProofs ---------------------------
(***************************************************************************)
(* Proofs about Accounts for any administrators, any tree of units, any    *)
(* threshold and any number of requests served at the same time.  The last *)
(* part says what holds besides when they are served one at a time.        *)
(***************************************************************************)
EXTENDS Accounts, TLAPS, SequenceTheorems

-----------------------------------------------------------------------------
(* The inductive invariant.                                                *)

CredentialStates == {"unverified", "verified", "deleted"}

\* TypeOK with the shape of the two rows.
RowInv ==
  /\ account \in [status : {"NONE", "INVITED", "ACTIVE", "INACTIVE", "LOCKED"},
                  unit : units \cup {NoUnit}, roles : SUBSET ROLES,
                  password : BOOLEAN, failed : 0 .. MaxFailed, mfa : BOOLEAN]
  /\ invitation \in [status : {"NONE"}]
       \cup [status : {"PENDING", "ACCEPTED", "EXPIRED"}, role : ROLES]
  /\ units \subseteq Units
  /\ credentials \in Seq(CredentialStates)
  /\ sessions \in Seq(BOOLEAN)
  /\ token \in BOOLEAN
  /\ overtaken \subseteq {"activation", "credential"}

\* An account that was never invited has nothing.
UninvitedInv ==
  account.status = "NONE" => invitation.status = "NONE" /\ ~account.password

\* What a request brings along.
ReqOk(r) ==
  /\ r.op \in {"status", "activate"} => account.status # "NONE"
  /\ r.op = "activate" => invitation.status # "NONE"
  /\ r.op = "status" => r.to \in {"ACTIVE", "INACTIVE", "LOCKED"}
  /\ r.op = "roles" => r.roles \subseteq ROLES /\ account.status # "NONE"
  /\ r.op = "verifyMfa" => r.credential \in DOMAIN credentials

ReqInv == \A s \in Slots : ReqOk(req[s])

IInv == /\ RowInv
        /\ UninvitedInv
        /\ req = [s \in Slots |-> req[s]]
        /\ ReqInv
        /\ LockAtThreshold
        /\ InvitationTellsActivation
        /\ MfaUsable

-----------------------------------------------------------------------------
(* A role creates roles of the hierarchy.                                  *)
LEMMA CreatesRoles ==
  ASSUME NEW role \in ROLES PROVE createsRolesFor(role) \subseteq ROLES
BY DEF createsRolesFor, ROLES, officerRole, adminRole, childLevelsOf

(* No failed login is within the bound.                                    *)
LEMMA ZeroFailed == 0 \in 0 .. MaxFailed
BY ThresholdAssumption

(* An invited user is put into a unit of the organisation.                 *)
LEMMA UnitForType ==
  ASSUME NEW a \in Admins, NEW role \in ROLES PROVE UnitFor(a, role) \subseteq Units
BY AdminAssumption DEF UnitFor

(* A function over a sequence's positions is a sequence.                   *)
LEMMA MappedCredentials ==
  ASSUME credentials \in Seq(CredentialStates),
         NEW f, f \in [DOMAIN credentials -> CredentialStates]
  PROVE  f \in Seq(CredentialStates) /\ DOMAIN f = DOMAIN credentials
<1>1. Len(credentials) \in Nat /\ DOMAIN credentials = 1..Len(credentials)
  BY LenProperties
<1>2. f \in [1..Len(credentials) -> CredentialStates]
  BY <1>1
<1>3. QED
  BY <1>1, <1>2, SeqDef

(* The steps of the handlers and of time, one at a time.                   *)
LEMMA InviteStep ==
  ASSUME IInv, NEW a \in Admins, inviteUser(a) PROVE IInv'
<1>1. PICK role, u :
        /\ role \in createsRolesFor(AdminRole[a]) /\ u \in UnitFor(a, role)
        /\ account' = [account EXCEPT !.status = "INVITED", !.unit = u]
        /\ invitation' = [status |-> "PENDING", role |-> role]
        /\ units' = units \cup {u}
  BY DEF inviteUser
<1>2. role \in ROLES /\ u \in Units
  BY <1>1, CreatesRoles, UnitForType, AdminAssumption
<1>3. account.status = "NONE" /\ ~account.password
  BY DEF inviteUser, IInv, UninvitedInv
<1>4. account' \in [status : {"NONE", "INVITED", "ACTIVE", "INACTIVE", "LOCKED"},
                  unit : units' \cup {NoUnit}, roles : SUBSET ROLES,
                  password : BOOLEAN, failed : 0 .. MaxFailed, mfa : BOOLEAN]
  BY <1>1 DEF IInv, RowInv
<1>5. /\ account'.status = "INVITED" /\ account'.password = account.password
      /\ account'.failed = account.failed /\ account'.mfa = account.mfa
      /\ invitation'.status = "PENDING"
  BY <1>1 DEF IInv, RowInv
<1>6. RowInv'
  BY <1>1, <1>2, <1>4 DEF IInv, RowInv, inviteUser
<1>7. UninvitedInv' /\ InvitationTellsActivation'
  BY <1>3, <1>5 DEF UninvitedInv, InvitationTellsActivation
<1>8. ReqInv' /\ (req = [s \in Slots |-> req[s]])'
  BY <1>3, <1>5 DEF IInv, ReqInv, ReqOk, inviteUser
<1>9. LockAtThreshold' /\ MfaUsable'
  BY <1>3, <1>5 DEF IInv, LockAtThreshold, MfaUsable, inviteUser
<1>10. QED
  BY <1>6, <1>7, <1>8, <1>9 DEF IInv

LEMMA ActivateStep ==
  ASSUME IInv, NEW s \in Slots, activateAccount(s) PROVE IInv'
<1>1. /\ req[s].op = "activate" /\ req' = [req EXCEPT ![s] = Idle]
      /\ account' = [account EXCEPT !.status = "ACTIVE", !.password = TRUE,
                                    !.roles = @ \cup {invitation.role}]
      /\ invitation' = [invitation EXCEPT !.status = "ACCEPTED"]
      /\ UNCHANGED <<units, credentials, sessions, token>>
      /\ overtaken' = IF account.status = "INVITED" THEN overtaken
                      ELSE overtaken \cup {"activation"}
  BY DEF activateAccount, Ends, Step
<1>2. invitation \in [status : {"PENDING", "ACCEPTED", "EXPIRED"}, role : ROLES]
  BY <1>1 DEF IInv, RowInv, ReqInv, ReqOk
<1>3. /\ account'.status = "ACTIVE" /\ account'.password = TRUE
      /\ account'.failed = account.failed /\ account'.mfa = account.mfa
      /\ invitation'.status = "ACCEPTED"
      /\ overtaken \subseteq overtaken'
  BY <1>1, <1>2 DEF IInv, RowInv
<1>4. account' \in [status : {"NONE", "INVITED", "ACTIVE", "INACTIVE", "LOCKED"},
                  unit : units' \cup {NoUnit}, roles : SUBSET ROLES,
                  password : BOOLEAN, failed : 0 .. MaxFailed, mfa : BOOLEAN]
  BY <1>1, <1>2 DEF IInv, RowInv
<1>5. RowInv'
  BY <1>1, <1>2, <1>4 DEF IInv, RowInv
<1>6. UninvitedInv' /\ InvitationTellsActivation'
  BY <1>3 DEF UninvitedInv, InvitationTellsActivation
<1>7. ReqInv' /\ (req = [t \in Slots |-> req[t]])'
  BY <1>1, <1>3 DEF IInv, ReqInv, ReqOk, Idle
<1>8. LockAtThreshold'
  BY <1>1, <1>3 DEF IInv, LockAtThreshold
<1>9. MfaUsable'
  BY <1>1, <1>3 DEF IInv, MfaUsable
<1>10. QED
  BY <1>5, <1>6, <1>7, <1>8, <1>9 DEF IInv

LEMMA StatusStep ==
  ASSUME IInv, NEW s \in Slots, updateUserStatus(s) PROVE IInv'
<1>1. /\ req[s].op = "status" /\ req' = [req EXCEPT ![s] = Idle]
      /\ account' = [account EXCEPT !.status = req[s].to,
                       !.failed = IF req[s].to = "ACTIVE" THEN 0 ELSE @]
      /\ UNCHANGED <<invitation, units, credentials, sessions, token, overtaken>>
  BY DEF updateUserStatus, Ends, Step
<1>2. req[s].to \in {"ACTIVE", "INACTIVE", "LOCKED"}
  BY <1>1 DEF IInv, ReqInv, ReqOk
<1>3. /\ account'.status = req[s].to /\ account'.password = account.password
      /\ account'.failed = (IF req[s].to = "ACTIVE" THEN 0 ELSE account.failed)
      /\ account'.mfa = account.mfa
  BY <1>1 DEF IInv, RowInv
<1>4. account' \in [status : {"NONE", "INVITED", "ACTIVE", "INACTIVE", "LOCKED"},
                  unit : units' \cup {NoUnit}, roles : SUBSET ROLES,
                  password : BOOLEAN, failed : 0 .. MaxFailed, mfa : BOOLEAN]
  BY <1>1, <1>2, ZeroFailed DEF IInv, RowInv
<1>5. RowInv'
  BY <1>1, <1>4 DEF IInv, RowInv
<1>6. UninvitedInv' /\ InvitationTellsActivation'
  BY <1>1, <1>2, <1>3 DEF IInv, UninvitedInv, InvitationTellsActivation
<1>7. ReqInv' /\ (req = [t \in Slots |-> req[t]])'
  BY <1>1, <1>2, <1>3 DEF IInv, ReqInv, ReqOk, Idle
<1>8. LockAtThreshold'
  BY <1>1, <1>2, <1>3, ThresholdAssumption DEF IInv, LockAtThreshold
<1>9. MfaUsable'
  BY <1>1, <1>3 DEF IInv, MfaUsable
<1>10. QED
  BY <1>5, <1>6, <1>7, <1>8, <1>9 DEF IInv

LEMMA RolesStep ==
  ASSUME IInv, NEW s \in Slots, replaceUserRoles(s) PROVE IInv'
<1>1. /\ req[s].op = "roles" /\ req' = [req EXCEPT ![s] = Idle]
      /\ account' = [account EXCEPT
                       !.roles = (@ \ req[s].deleted) \cup req[s].roles]
      /\ UNCHANGED <<invitation, units, credentials, sessions, token, overtaken>>
  BY DEF replaceUserRoles, Ends, Step
<1>2. req[s].roles \subseteq ROLES
  BY <1>1 DEF IInv, ReqInv, ReqOk
<1>3. /\ account'.status = account.status /\ account'.password = account.password
      /\ account'.failed = account.failed /\ account'.mfa = account.mfa
  BY <1>1 DEF IInv, RowInv
<1>4. account' \in [status : {"NONE", "INVITED", "ACTIVE", "INACTIVE", "LOCKED"},
                  unit : units' \cup {NoUnit}, roles : SUBSET ROLES,
                  password : BOOLEAN, failed : 0 .. MaxFailed, mfa : BOOLEAN]
  BY <1>1, <1>2 DEF IInv, RowInv
<1>5. RowInv'
  BY <1>1, <1>4 DEF IInv, RowInv
<1>6. ReqInv' /\ (req = [t \in Slots |-> req[t]])'
  BY <1>1, <1>3 DEF IInv, ReqInv, ReqOk, Idle
<1>7. QED
  BY <1>1, <1>3, <1>5, <1>6
     DEF IInv, UninvitedInv, LockAtThreshold, InvitationTellsActivation, MfaUsable

LEMMA FailedLoginStep ==
  ASSUME IInv, NEW s \in Slots, failLogin(s) PROVE IInv'
<1>1. /\ req[s].op = "failed" /\ req' = [req EXCEPT ![s] = Idle]
      /\ account.failed < MaxFailed
      /\ account' = [account EXCEPT !.failed = @ + 1,
                       !.status = IF account.failed + 1 >= Threshold
                                  THEN "LOCKED" ELSE @]
      /\ UNCHANGED <<invitation, units, credentials, sessions, token, overtaken>>
  BY DEF failLogin, Ends, Step
<1>2. /\ account.failed \in 0 .. MaxFailed
      /\ account'.status = (IF account.failed + 1 >= Threshold
                            THEN "LOCKED" ELSE account.status)
      /\ account'.password = account.password
      /\ account'.failed = account.failed + 1 /\ account'.mfa = account.mfa
  BY <1>1 DEF IInv, RowInv
<1>3. account.failed + 1 \in 0 .. MaxFailed
  BY <1>1, <1>2, ThresholdAssumption
<1>4. account' \in [status : {"NONE", "INVITED", "ACTIVE", "INACTIVE", "LOCKED"},
                  unit : units' \cup {NoUnit}, roles : SUBSET ROLES,
                  password : BOOLEAN, failed : 0 .. MaxFailed, mfa : BOOLEAN]
  BY <1>1, <1>3 DEF IInv, RowInv
<1>5. RowInv'
  BY <1>1, <1>4 DEF IInv, RowInv
<1>6. UninvitedInv' /\ InvitationTellsActivation'
  BY <1>1, <1>2 DEF IInv, UninvitedInv, InvitationTellsActivation
<1>7. ReqInv' /\ (req = [t \in Slots |-> req[t]])'
  BY <1>1, <1>2 DEF IInv, ReqInv, ReqOk, Idle
<1>8. LockAtThreshold' /\ MfaUsable'
  BY <1>1, <1>2 DEF IInv, LockAtThreshold, MfaUsable
<1>9. QED
  BY <1>5, <1>6, <1>7, <1>8 DEF IInv

LEMMA LoginStep ==
  ASSUME IInv, NEW s \in Slots, login(s) PROVE IInv'
<1>1. /\ req[s].op = "login" /\ req' = [req EXCEPT ![s] = Idle]
      /\ account' = [account EXCEPT !.failed = 0]
      /\ sessions' = Append(sessions, TRUE) /\ token' = TRUE
      /\ UNCHANGED <<invitation, units, credentials, overtaken>>
  BY DEF login, Ends, Step
<1>2. /\ account'.status = account.status /\ account'.password = account.password
      /\ account'.failed = 0 /\ account'.mfa = account.mfa
  BY <1>1 DEF IInv, RowInv
<1>3. account' \in [status : {"NONE", "INVITED", "ACTIVE", "INACTIVE", "LOCKED"},
                  unit : units' \cup {NoUnit}, roles : SUBSET ROLES,
                  password : BOOLEAN, failed : 0 .. MaxFailed, mfa : BOOLEAN]
  BY <1>1, ZeroFailed DEF IInv, RowInv
<1>4. RowInv'
  BY <1>1, <1>3, AppendProperties DEF IInv, RowInv
<1>5. ReqInv' /\ (req = [t \in Slots |-> req[t]])'
  BY <1>1, <1>2 DEF IInv, ReqInv, ReqOk, Idle
<1>6. LockAtThreshold'
  BY <1>1, <1>2, ThresholdAssumption DEF LockAtThreshold
<1>7. QED
  BY <1>1, <1>2, <1>4, <1>5, <1>6
     DEF IInv, UninvitedInv, InvitationTellsActivation, MfaUsable

LEMMA DeleteCredentialsStep ==
  ASSUME IInv, NEW s \in Slots, deleteUnverifiedMfaCredentials(s) PROVE IInv'
<1>1. /\ req' = [req EXCEPT ![s] = [op |-> "insert"]]
      /\ credentials' = [c \in DOMAIN credentials |->
                           Drop(credentials[c], "unverified")]
      /\ UNCHANGED <<account, invitation, units, sessions, token, overtaken>>
  BY DEF deleteUnverifiedMfaCredentials, Step
<1>2. credentials' \in [DOMAIN credentials -> CredentialStates]
  BY <1>1, ElementOfSeq, LenProperties DEF IInv, RowInv, Drop, CredentialStates
<1>3. credentials' \in Seq(CredentialStates) /\ DOMAIN credentials' = DOMAIN credentials
  BY <1>2, MappedCredentials DEF IInv, RowInv
<1>4. RowInv'
  BY <1>1, <1>3 DEF IInv, RowInv
<1>5. ReqInv' /\ (req = [t \in Slots |-> req[t]])'
  BY <1>1, <1>3 DEF IInv, ReqInv, ReqOk
<1>6. \A c \in DOMAIN credentials :
        credentials[c] = "verified" => credentials'[c] = "verified"
  BY <1>1 DEF Drop
<1>7. MfaUsable'
  BY <1>1, <1>3, <1>6 DEF IInv, MfaUsable
<1>8. QED
  BY <1>1, <1>4, <1>5, <1>7
     DEF IInv, UninvitedInv, LockAtThreshold, InvitationTellsActivation

LEMMA InsertCredentialStep ==
  ASSUME IInv, NEW s \in Slots, insertMfaCredential(s) PROVE IInv'
<1>1. /\ req' = [req EXCEPT ![s] = Idle]
      /\ credentials' = Append(credentials, "unverified")
      /\ UNCHANGED <<account, invitation, units, sessions, token, overtaken>>
  BY DEF insertMfaCredential, Ends, Step
<1>2. /\ credentials' \in Seq(CredentialStates)
      /\ DOMAIN credentials \subseteq DOMAIN credentials'
      /\ \A c \in DOMAIN credentials : credentials'[c] = credentials[c]
  BY <1>1, AppendProperties DEF IInv, RowInv, CredentialStates
<1>3. RowInv'
  BY <1>1, <1>2 DEF IInv, RowInv
<1>4. ReqInv' /\ (req = [t \in Slots |-> req[t]])'
  BY <1>1, <1>2 DEF IInv, ReqInv, ReqOk, Idle
<1>5. MfaUsable'
  BY <1>1, <1>2 DEF IInv, MfaUsable
<1>6. QED
  BY <1>1, <1>3, <1>4, <1>5
     DEF IInv, UninvitedInv, LockAtThreshold, InvitationTellsActivation

LEMMA VerifyMfaStep ==
  ASSUME IInv, NEW s \in Slots, verifyMfaEnrollment(s) PROVE IInv'
<1> DEFINE c == req[s].credential
<1>1. /\ req[s].op = "verifyMfa" /\ req' = [req EXCEPT ![s] = Idle]
      /\ credentials' = [credentials EXCEPT ![c] =
                           IF @ = "deleted" THEN @ ELSE "verified"]
      /\ overtaken' = IF credentials[c] = "deleted"
                      THEN overtaken \cup {"credential"} ELSE overtaken
      /\ account' = [account EXCEPT !.mfa = TRUE]
      /\ UNCHANGED <<invitation, units, sessions, token>>
  BY DEF verifyMfaEnrollment, Ends, Step
<1>2. c \in DOMAIN credentials
  BY <1>1 DEF IInv, ReqInv, ReqOk
<1>3. credentials' \in [DOMAIN credentials -> CredentialStates]
  BY <1>1, <1>2, ElementOfSeq, LenProperties DEF IInv, RowInv, CredentialStates
<1>4. credentials' \in Seq(CredentialStates) /\ DOMAIN credentials' = DOMAIN credentials
  BY <1>3, MappedCredentials DEF IInv, RowInv
<1>5. /\ account'.status = account.status /\ account'.password = account.password
      /\ account'.failed = account.failed
  BY <1>1 DEF IInv, RowInv
<1>6. account' \in [status : {"NONE", "INVITED", "ACTIVE", "INACTIVE", "LOCKED"},
                  unit : units' \cup {NoUnit}, roles : SUBSET ROLES,
                  password : BOOLEAN, failed : 0 .. MaxFailed, mfa : BOOLEAN]
  BY <1>1 DEF IInv, RowInv
<1>7. RowInv'
  BY <1>1, <1>4, <1>6 DEF IInv, RowInv
<1>8. ReqInv' /\ (req = [t \in Slots |-> req[t]])'
  BY <1>1, <1>4, <1>5 DEF IInv, ReqInv, ReqOk, Idle
<1>9. CASE credentials[c] = "deleted"
  BY <1>1, <1>5, <1>7, <1>8, <1>9
     DEF IInv, UninvitedInv, LockAtThreshold, InvitationTellsActivation, MfaUsable
<1>10. CASE credentials[c] # "deleted"
  <2>1. credentials'[c] = "verified"
    BY <1>1, <1>2, <1>10
  <2>2. MfaUsable'
    BY <1>2, <1>4, <2>1 DEF MfaUsable
  <2>3. QED
    BY <1>1, <1>5, <1>7, <1>8, <1>10, <2>2
       DEF IInv, UninvitedInv, LockAtThreshold, InvitationTellsActivation
<1>11. QED
  BY <1>9, <1>10

(* What only changes the requests, the sessions, the token or the units.   *)
LEMMA OtherStep ==
  ASSUME IInv, UNCHANGED <<account, invitation, credentials, overtaken>>,
         units \subseteq units', units' \subseteq Units,
         sessions' \in Seq(BOOLEAN), token' \in BOOLEAN,
         (req = [t \in Slots |-> req[t]])', ReqInv'
  PROVE  IInv'
<1>1. account \in [status : {"NONE", "INVITED", "ACTIVE", "INACTIVE", "LOCKED"},
                  unit : units' \cup {NoUnit}, roles : SUBSET ROLES,
                  password : BOOLEAN, failed : 0 .. MaxFailed, mfa : BOOLEAN]
  BY DEF IInv, RowInv
<1>2. RowInv'
  BY <1>1 DEF IInv, RowInv
<1>3. QED
  BY <1>2 DEF IInv, UninvitedInv, LockAtThreshold, InvitationTellsActivation,
              MfaUsable

(* The steps that read, refuse or only end a request.                      *)
LEMMA RequestStep ==
  ASSUME IInv, NEW s \in Slots,
         \/ LoadActivate(s) \/ LoadLogin(s) \/ LoadRefresh(s) \/ LoadEnroll(s)
         \/ LoadVerifyMfa(s) \/ CheckOtp(s) \/ CheckRefreshUser(s)
         \/ refresh(s) \/ Abort(s)
         \/ \E a \in Admins : LoadStatus(s, a) \/ LoadRoles(s, a)
  PROVE  IInv'
<1>1. UNCHANGED <<account, invitation, units, credentials, sessions, overtaken>>
      /\ token' \in BOOLEAN
  BY DEF IInv, RowInv, rows, LoadActivate, LoadLogin, LoadRefresh, LoadEnroll,
         LoadVerifyMfa, CheckOtp, CheckRefreshUser, refresh, Abort, LoadStatus,
         LoadRoles, Begins
<1>2. PICK to :
        /\ req' = [req EXCEPT ![s] = to]
        /\ ReqOk(to)
  <2>1. CASE LoadActivate(s)
    <3>1. req' = [req EXCEPT ![s] = [op |-> "activate"]]
      BY <2>1 DEF LoadActivate, Begins, Step
    <3>2. ReqOk([op |-> "activate"])
      BY <2>1 DEF LoadActivate, ReqOk
    <3>3. QED
      BY <3>1, <3>2
  <2>2. CASE LoadLogin(s)
    <3>1. PICK op \in {"failed", "otp", "login"} :
            req' = [req EXCEPT ![s] = [op |-> op]]
      BY <2>2 DEF LoadLogin, Begins, Step
    <3>2. ReqOk([op |-> op])
      BY DEF ReqOk
    <3>3. QED
      BY <3>1, <3>2
  <2>3. CASE LoadRefresh(s) \/ LoadEnroll(s)
    BY <2>3 DEF LoadRefresh, LoadEnroll, Begins, Step, ReqOk
  <2>4. CASE LoadVerifyMfa(s)
    BY <2>4 DEF LoadVerifyMfa, Begins, Step, ReqOk
  <2>5. CASE CheckOtp(s) \/ CheckRefreshUser(s)
    BY <2>5 DEF CheckOtp, CheckRefreshUser, Step, ReqOk
  <2>6. CASE refresh(s) \/ Abort(s)
    BY <2>6 DEF refresh, Abort, Ends, Step, Idle, ReqOk
  <2>7. CASE \E a \in Admins : LoadStatus(s, a)
    BY <2>7 DEF LoadStatus, assertManagementAuthority, Begins, Step, ReqOk
  <2>8. CASE \E a \in Admins : LoadRoles(s, a)
    BY <2>8, RolesAssumption
       DEF LoadRoles, assertManagementAuthority, Begins, Step, ReqOk
  <2>9. QED
    BY <2>1, <2>2, <2>3, <2>4, <2>5, <2>6, <2>7, <2>8
<1>3. ReqInv' /\ (req = [t \in Slots |-> req[t]])'
  BY <1>1, <1>2 DEF IInv, ReqInv, ReqOk
<1>4. QED
  BY <1>1, <1>3, OtherStep DEF IInv, RowInv

(* The steps of time, of a logout and of a new unit.                       *)
LEMMA TimeStep ==
  ASSUME IInv,
         \/ expireInvitation \/ logout \/ expireToken \/ expireSession
         \/ \E a \in Admins : createDepartment(a)
  PROVE  IInv'
<1>1. CASE expireInvitation
  <2>1. /\ invitation.status = "PENDING"
        /\ invitation' = [invitation EXCEPT !.status = "EXPIRED"]
        /\ UNCHANGED <<account, units, credentials, sessions, token, overtaken, req>>
    BY <1>1 DEF expireInvitation
  <2>2. invitation \in [status : {"PENDING", "ACCEPTED", "EXPIRED"}, role : ROLES]
    BY <2>1 DEF IInv, RowInv
  <2>3. /\ invitation' \in [status : {"PENDING", "ACCEPTED", "EXPIRED"}, role : ROLES]
        /\ invitation'.status = "EXPIRED"
    BY <2>1, <2>2
  <2>4. RowInv'
    BY <2>1, <2>3 DEF IInv, RowInv
  <2>5. ReqInv' /\ UninvitedInv' /\ InvitationTellsActivation'
    BY <2>1, <2>3 DEF IInv, ReqInv, ReqOk, UninvitedInv, InvitationTellsActivation
  <2>6. QED
    BY <2>1, <2>4, <2>5 DEF IInv, LockAtThreshold, MfaUsable
<1>2. CASE logout \/ expireSession
  <2>1. PICK i \in DOMAIN sessions : sessions' = [sessions EXCEPT ![i] = FALSE]
    BY <1>2 DEF logout, expireSession
  <2>2. sessions' \in Seq(BOOLEAN)
    BY <2>1, ExceptSeq DEF IInv, RowInv
  <2>3. UNCHANGED <<account, invitation, units, credentials, token, overtaken, req>>
    BY <1>2 DEF logout, expireSession
  <2>4. QED
    BY <2>2, <2>3, OtherStep DEF IInv, RowInv, ReqInv, ReqOk
<1>3. CASE expireToken
  BY <1>3, OtherStep DEF expireToken, IInv, RowInv, ReqInv, ReqOk
<1>4. CASE \E a \in Admins : createDepartment(a)
  <2>1. PICK u \in Units : units' = units \cup {u}
    BY <1>4 DEF createDepartment
  <2>2. UNCHANGED <<account, invitation, credentials, sessions, token, overtaken, req>>
    BY <1>4 DEF createDepartment
  <2>3. QED
    BY <2>1, <2>2, OtherStep DEF IInv, RowInv, ReqInv, ReqOk
<1>5. QED
  BY <1>1, <1>2, <1>3, <1>4

-----------------------------------------------------------------------------
LEMMA InitInv == Init => IInv
<1> SUFFICES ASSUME Init PROVE IInv
  OBVIOUS
<1>1. RowInv
  <2>1. account \in [status : {"NONE", "INVITED", "ACTIVE", "INACTIVE", "LOCKED"},
                  unit : units \cup {NoUnit}, roles : SUBSET ROLES,
                  password : BOOLEAN, failed : 0 .. MaxFailed, mfa : BOOLEAN]
    BY ZeroFailed DEF Init
  <2>2. credentials \in Seq(CredentialStates) /\ sessions \in Seq(BOOLEAN)
    BY EmptySeq DEF Init
  <2>3. QED
    BY <2>1, <2>2, AdminAssumption DEF Init, RowInv
<1>2. QED
  BY <1>1, ThresholdAssumption
     DEF Init, IInv, UninvitedInv, ReqInv, ReqOk, Idle, LockAtThreshold,
         InvitationTellsActivation, MfaUsable

LEMMA StepInv == IInv /\ [Next]_vars => IInv'
<1> SUFFICES ASSUME IInv, [Next]_vars PROVE IInv'
  OBVIOUS
<1>1. CASE \E a \in Admins : inviteUser(a)
  BY <1>1, InviteStep
<1>2. CASE \E s \in Slots : activateAccount(s) \/ updateUserStatus(s)
                            \/ replaceUserRoles(s)
  BY <1>2, ActivateStep, StatusStep, RolesStep
<1>3. CASE \E s \in Slots : failLogin(s) \/ login(s)
  BY <1>3, FailedLoginStep, LoginStep
<1>4. CASE \E s \in Slots : \/ deleteUnverifiedMfaCredentials(s)
                            \/ insertMfaCredential(s) \/ verifyMfaEnrollment(s)
  BY <1>4, DeleteCredentialsStep, InsertCredentialStep, VerifyMfaStep
<1>5. CASE \E s \in Slots :
             \/ LoadActivate(s) \/ LoadLogin(s) \/ LoadRefresh(s) \/ LoadEnroll(s)
             \/ LoadVerifyMfa(s) \/ CheckOtp(s) \/ CheckRefreshUser(s)
             \/ refresh(s) \/ Abort(s)
             \/ \E a \in Admins : LoadStatus(s, a) \/ LoadRoles(s, a)
  BY <1>5, RequestStep
<1>6. CASE \/ expireInvitation \/ logout \/ expireToken \/ expireSession
           \/ \E a \in Admins : createDepartment(a)
  BY <1>6, TimeStep
<1>7. CASE UNCHANGED vars
  BY <1>7, OtherStep DEF vars, rows, IInv, RowInv, ReqInv, ReqOk
<1>8. QED
  BY <1>1, <1>2, <1>3, <1>4, <1>5, <1>6, <1>7 DEF Next, Serve

(* The inductive invariant holds in every reachable state.                 *)
THEOREM Invariance == Spec => []IInv
BY InitInv, StepInv, PTL DEF Spec

(* Every variable keeps its type.                                          *)
THEOREM TypeCorrect == Spec => []TypeOK
<1>1. IInv => TypeOK
  BY DEF IInv, RowInv, TypeOK, RoleSets, CredentialStates
<1>2. QED
  BY <1>1, Invariance, PTL

(* Whatever logins, unlockings and activations overlap, an account at the  *)
(* threshold is locked, unless an administrator set it INACTIVE or an      *)
(* activation overtook the lock (users.service.js, auth.service.js).       *)
THEOREM LockCorrect == Spec => []LockAtThreshold
<1>1. IInv => LockAtThreshold
  BY DEF IInv
<1>2. QED
  BY <1>1, Invariance, PTL

(* A password is set exactly by accepting the invitation (activateAccount).*)
THEOREM ActivationCorrect == Spec => []InvitationTellsActivation
<1>1. IInv => InvitationTellsActivation
  BY DEF IInv
<1>2. QED
  BY <1>1, Invariance, PTL

(* MFA is demanded of accounts with a verified credential, but for the one *)
(* race between two enrolments (auth.service.js, verifyMfaEnrollment).     *)
THEOREM MfaCorrect == Spec => []MfaUsable
<1>1. IInv => MfaUsable
  BY DEF IInv
<1>2. QED
  BY <1>1, Invariance, PTL

-----------------------------------------------------------------------------
(* Requests served one at a time: what a handler has read is still so when *)
(* it writes.                                                              *)

Serial == \A s, t \in Slots : s = t

\* What the reads of request r still say of the account and its credentials.
StillTrue(r) ==
  /\ r.op = "activate" => account.status = "INVITED"
  /\ r.op \in {"failed", "otp", "login"} => account.status \notin {"NONE", "LOCKED"}
  /\ r.op = "refresh" => account.status = "ACTIVE"
  /\ r.op = "verifyMfa" => credentials[r.credential] # "deleted"

SerialInv == overtaken = {} /\ \A s \in Slots : StillTrue(req[s])

(* The only request goes on or ends.                                       *)
LEMMA SerialRequest ==
  ASSUME Serial, IInv, NEW s \in Slots, NEW to, req' = [req EXCEPT ![s] = to],
         overtaken' = {}, StillTrue(to)'
  PROVE  SerialInv'
<1>1. \A t \in Slots : req'[t] = to
  BY DEF Serial, IInv
<1>2. QED
  BY <1>1 DEF SerialInv, StillTrue

(* What no request takes part in.                                          *)
LEMMA SerialOther ==
  ASSUME SerialInv, UNCHANGED <<credentials, overtaken, req>>,
         account'.status = account.status
  PROVE  SerialInv'
BY DEF SerialInv, StillTrue

LEMMA SerialInvite ==
  ASSUME SerialInv, NEW a \in Admins, inviteUser(a) PROVE SerialInv'
<1>1. /\ account.status = "NONE" /\ UNCHANGED <<credentials, overtaken, req>>
  BY DEF inviteUser
<1>2. ASSUME NEW s \in Slots
      PROVE  req[s].op \notin {"activate", "failed", "otp", "login", "refresh"}
  BY <1>1 DEF SerialInv, StillTrue
<1>3. QED
  BY <1>1, <1>2 DEF SerialInv, StillTrue

(* A request reads and checks.                                             *)
LEMMA SerialLoad ==
  ASSUME Serial, IInv, SerialInv, NEW s \in Slots,
         \/ LoadActivate(s) \/ LoadLogin(s) \/ LoadRefresh(s) \/ LoadEnroll(s)
         \/ LoadVerifyMfa(s) \/ CheckOtp(s) \/ CheckRefreshUser(s)
         \/ \E a \in Admins : LoadStatus(s, a) \/ LoadRoles(s, a)
  PROVE  SerialInv'
<1>1. UNCHANGED <<account, credentials, overtaken>> /\ overtaken' = {}
  BY DEF SerialInv, rows, LoadActivate, LoadLogin, LoadRefresh, LoadEnroll,
         LoadVerifyMfa, CheckOtp, CheckRefreshUser, LoadStatus, LoadRoles, Begins
<1>2. CASE LoadActivate(s)
  <2>1. /\ req' = [req EXCEPT ![s] = [op |-> "activate"]]
        /\ account.status = "INVITED"
    BY <1>2 DEF LoadActivate, Begins, Step
  <2>2. StillTrue([op |-> "activate"])'
    BY <1>1, <2>1 DEF StillTrue
  <2>3. QED
    BY <1>1, <2>1, <2>2, SerialRequest
<1>3. CASE LoadLogin(s)
  <2>1. /\ account.status \notin {"NONE", "LOCKED"}
        /\ \E op \in {"failed", "otp", "login"} :
             req' = [req EXCEPT ![s] = [op |-> op]]
    BY <1>3 DEF LoadLogin, Begins, Step
  <2>2. PICK op \in {"failed", "otp", "login"} : req' = [req EXCEPT ![s] = [op |-> op]]
    BY <2>1
  <2>3. StillTrue([op |-> op])'
    BY <1>1, <2>1 DEF StillTrue
  <2>4. QED
    BY <1>1, <2>2, <2>3, SerialRequest
<1>4. CASE LoadVerifyMfa(s)
  <2>1. PICK c \in DOMAIN credentials :
          /\ credentials[c] = "unverified"
          /\ req' = [req EXCEPT ![s] = [op |-> "verifyMfa", credential |-> c]]
    BY <1>4 DEF LoadVerifyMfa, Begins, Step
  <2>2. StillTrue([op |-> "verifyMfa", credential |-> c])'
    BY <1>1, <2>1 DEF StillTrue
  <2>3. QED
    BY <1>1, <2>1, <2>2, SerialRequest
<1>5. CASE CheckOtp(s)
  <2>1. /\ req[s].op = "otp"
        /\ \E op \in {"failed", "login"} : req' = [req EXCEPT ![s] = [op |-> op]]
    BY <1>5 DEF CheckOtp, Step
  <2>2. PICK op \in {"failed", "login"} : req' = [req EXCEPT ![s] = [op |-> op]]
    BY <2>1
  <2>3. StillTrue([op |-> op])'
    BY <1>1, <2>1 DEF SerialInv, StillTrue
  <2>4. QED
    BY <1>1, <2>2, <2>3, SerialRequest
<1>6. CASE CheckRefreshUser(s)
  <2>1. /\ req' = [req EXCEPT ![s] = [op |-> "refresh"]]
        /\ account.status = "ACTIVE"
    BY <1>6 DEF CheckRefreshUser, Step
  <2>2. StillTrue([op |-> "refresh"])'
    BY <1>1, <2>1 DEF StillTrue
  <2>3. QED
    BY <1>1, <2>1, <2>2, SerialRequest
<1>7. CASE LoadRefresh(s) \/ LoadEnroll(s)
  <2>1. PICK op \in {"session", "enroll"} : req' = [req EXCEPT ![s] = [op |-> op]]
    BY <1>7 DEF LoadRefresh, LoadEnroll, Begins, Step
  <2>2. StillTrue([op |-> op])'
    BY DEF StillTrue
  <2>3. QED
    BY <1>1, <2>1, <2>2, SerialRequest
<1>8. CASE \E a \in Admins : LoadStatus(s, a)
  <2>1. PICK to : req' = [req EXCEPT ![s] = [op |-> "status", to |-> to]]
    BY <1>8 DEF LoadStatus, Begins, Step
  <2>2. StillTrue([op |-> "status", to |-> to])'
    BY DEF StillTrue
  <2>3. QED
    BY <1>1, <2>1, <2>2, SerialRequest
<1>9. CASE \E a \in Admins : LoadRoles(s, a)
  <2>1. PICK r : req' = [req EXCEPT ![s] = [op |-> "roles", roles |-> {r},
                                            deleted |-> account.roles]]
    BY <1>9 DEF LoadRoles, Begins, Step
  <2>2. PICK deleted : deleted = account.roles
    OBVIOUS
  <2>3. StillTrue([op |-> "roles", roles |-> {r}, deleted |-> deleted])'
    BY DEF StillTrue
  <2>4. QED
    BY <1>1, <2>1, <2>2, <2>3, SerialRequest
<1>10. QED
  BY <1>2, <1>3, <1>4, <1>5, <1>6, <1>7, <1>8, <1>9

(* A request writes.                                                       *)
LEMMA SerialWrite ==
  ASSUME Serial, IInv, SerialInv, NEW s \in Slots,
         \/ activateAccount(s) \/ updateUserStatus(s) \/ replaceUserRoles(s)
         \/ failLogin(s) \/ login(s) \/ refresh(s)
         \/ deleteUnverifiedMfaCredentials(s) \/ insertMfaCredential(s)
         \/ verifyMfaEnrollment(s) \/ Abort(s)
  PROVE  SerialInv'
<1>1. \/ req' = [req EXCEPT ![s] = Idle]
      \/ req' = [req EXCEPT ![s] = [op |-> "insert"]]
  BY DEF activateAccount, updateUserStatus, replaceUserRoles, failLogin, login,
         refresh, deleteUnverifiedMfaCredentials, insertMfaCredential,
         verifyMfaEnrollment, Abort, Ends, Step
<1>2. StillTrue(Idle)' /\ StillTrue([op |-> "insert"])'
  BY DEF StillTrue, Idle
<1>3. overtaken' = {}
  <2>1. CASE activateAccount(s)
    BY <2>1 DEF activateAccount, Ends, Step, SerialInv, StillTrue
  <2>2. CASE verifyMfaEnrollment(s)
    BY <2>2 DEF verifyMfaEnrollment, Ends, Step, SerialInv, StillTrue
  <2>3. QED
    BY <2>1, <2>2
       DEF updateUserStatus, replaceUserRoles, failLogin, login, refresh,
           deleteUnverifiedMfaCredentials, insertMfaCredential, Abort, rows, SerialInv
<1>4. QED
  BY <1>1, <1>2, <1>3, SerialRequest

THEOREM SerialInvariance == ASSUME Serial PROVE Spec => [](IInv /\ SerialInv)
<1>1. Init => SerialInv
  BY DEF Init, Idle, SerialInv, StillTrue
<1>2. IInv /\ SerialInv /\ [Next]_vars => SerialInv'
  <2> SUFFICES ASSUME IInv, SerialInv, [Next]_vars PROVE SerialInv'
    OBVIOUS
  <2>1. CASE \/ UNCHANGED vars
             \/ expireInvitation \/ logout \/ expireToken \/ expireSession
             \/ \E a \in Admins : createDepartment(a)
    BY <2>1, SerialOther DEF vars, rows, expireInvitation, logout, expireToken,
                             expireSession, createDepartment
  <2>2. CASE \E a \in Admins : inviteUser(a)
    BY <2>2, SerialInvite
  <2>3. ASSUME NEW s \in Slots,
               \/ LoadActivate(s) \/ LoadLogin(s) \/ LoadRefresh(s)
               \/ LoadEnroll(s) \/ LoadVerifyMfa(s)
               \/ \E a \in Admins : LoadStatus(s, a) \/ LoadRoles(s, a)
               \/ Serve(s)
        PROVE  SerialInv'
    BY <2>3, SerialLoad, SerialWrite DEF Serve
  <2>4. QED
    BY <2>1, <2>2, <2>3 DEF Next
<1>3. QED
  BY <1>1, <1>2, InitInv, StepInv, PTL DEF Spec

\* lockoutThreshold (auth.service.js): an account at the threshold is locked, or
\* was set INACTIVE by an administrator (in which state login accepts it), and
\* mfa_enabled means that there is a verified credential: the races excepted by
\* LockAtThreshold and MfaUsable do not arise when requests are served one at a
\* time.  The lock lifted by INACTIVE is no race and remains.
LockedAndUsable ==
  /\ account.failed >= Threshold => account.status \in {"LOCKED", "INACTIVE"}
  /\ account.mfa => \E c \in DOMAIN credentials : credentials[c] = "verified"

THEOREM ExceptionsNeedOverlap == ASSUME Serial PROVE Spec => []LockedAndUsable
<1>1. IInv /\ SerialInv => LockedAndUsable
  BY DEF IInv, SerialInv, LockAtThreshold, MfaUsable, LockedAndUsable
<1>2. QED
  BY <1>1, SerialInvariance, PTL

\* "Account is locked" (login, auth.service.js), and refresh asks for an ACTIVE
\* account: the account gets a session or a token at no moment at which it is
\* locked, when requests are served one at a time.
NoTokenWhileLocked ==
  [][account.status = "LOCKED" =>
       Len(sessions') = Len(sessions) /\ (token' => token)]_<<sessions, token>>

THEOREM LockKeepsOut == ASSUME Serial PROVE Spec => NoTokenWhileLocked
<1>1. ASSUME IInv, SerialInv, [Next]_vars, account.status = "LOCKED"
      PROVE  Len(sessions') = Len(sessions) /\ (token' => token)
  <2>1. \A s \in Slots : ~login(s) /\ ~refresh(s)
    BY <1>1 DEF SerialInv, StillTrue, login, refresh, Ends, Step
  <2>2. CASE logout \/ expireSession
    <3>1. PICK i \in DOMAIN sessions : sessions' = [sessions EXCEPT ![i] = FALSE]
      BY <2>2 DEF logout, expireSession
    <3>2. Len(sessions') = Len(sessions)
      BY <1>1, <3>1, ExceptSeq DEF IInv, RowInv
    <3>3. QED
      BY <2>2, <3>2 DEF logout, expireSession
  <2>3. CASE ~logout /\ ~expireSession
    <3>1. ASSUME NEW s \in Slots,
                 \/ LoadActivate(s) \/ LoadLogin(s) \/ LoadRefresh(s)
                 \/ LoadEnroll(s) \/ LoadVerifyMfa(s)
                 \/ \E a \in Admins : LoadStatus(s, a) \/ LoadRoles(s, a)
          PROVE  UNCHANGED <<sessions, token>>
      BY <3>1 DEF LoadActivate, LoadLogin, LoadRefresh, LoadEnroll, LoadVerifyMfa,
                  LoadStatus, LoadRoles, Begins, rows
    <3>2. ASSUME NEW s \in Slots, Serve(s) PROVE UNCHANGED <<sessions, token>>
      BY <2>1, <3>2
         DEF Serve, activateAccount, updateUserStatus, replaceUserRoles, CheckOtp,
             failLogin, CheckRefreshUser, deleteUnverifiedMfaCredentials,
             insertMfaCredential, verifyMfaEnrollment, Abort, rows
    <3>3. ASSUME \/ UNCHANGED vars \/ expireInvitation
                 \/ \E a \in Admins : createDepartment(a) \/ inviteUser(a)
          PROVE  UNCHANGED <<sessions, token>>
      BY <3>3 DEF vars, rows, expireInvitation, createDepartment, inviteUser
    <3>4. CASE expireToken
      BY <3>4 DEF expireToken
    <3>5. CASE UNCHANGED <<sessions, token>>
      BY <3>5
    <3>6. QED
      <4>1. \/ UNCHANGED <<sessions, token>>
            \/ expireToken
        BY <1>1, <2>3, <3>1, <3>2, <3>3 DEF Next
      <4>2. QED
        BY <3>4, <3>5, <4>1
  <2>4. QED
    BY <2>2, <2>3
<1>2. IInv /\ SerialInv /\ [Next]_vars =>
        [account.status = "LOCKED" =>
           Len(sessions') = Len(sessions) /\ (token' => token)]_<<sessions, token>>
  BY <1>1
<1>3. QED
  BY <1>2, SerialInvariance, PTL DEF Spec, NoTokenWhileLocked
=============================================================================
