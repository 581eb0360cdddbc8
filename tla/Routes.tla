------------------------------- MODULE Routes -------------------------------
(***************************************************************************)
(* What each route asks of its caller before its controller runs: the      *)
(* routers of the API (modules/<name>/<name>.routes.js), a field for each  *)
(* controller function.  Health checks and the checks inside services are  *)
(* left out.                                                               *)
(***************************************************************************)
EXTENDS Roles

\* requirePermission, requireAuth, requireRole, and routes that ask nothing.
Needs(action, resource) == [asks |-> "permission", action |-> action,
                            resource |-> resource]
RequireAuth     == [asks |-> "login"]
OneOf(roles)    == [asks |-> "role", roles |-> roles]
Public          == [asks |-> "nothing"]
RequireAnyAdmin == OneOf({r \in ROLES : createsRolesFor(r) # {}})

documentRoutes ==
  [listTypes       |-> RequireAuth,
   create          |-> Needs("UPLOAD", "CASE"),
   list            |-> Needs("VIEW", "CASE"),
   getById         |-> Needs("VIEW", "DOCUMENT"),
   update          |-> Needs("EDIT", "DOCUMENT"),
   remove          |-> Needs("DELETE", "DOCUMENT"),
   downloadCurrent |-> Needs("DOWNLOAD", "DOCUMENT"),
   addVersion      |-> Needs("UPLOAD", "DOCUMENT"),
   listVersions    |-> Needs("VIEW", "DOCUMENT"),
   downloadVersion |-> Needs("DOWNLOAD", "DOCUMENT"),
   restoreVersion  |-> Needs("EDIT", "DOCUMENT"),
   addComment      |-> Needs("COMMENT", "DOCUMENT"),
   listComments    |-> Needs("VIEW", "DOCUMENT")]

evidenceRoutes ==
  [register         |-> Needs("UPLOAD", "CASE"),
   list             |-> Needs("VIEW", "CASE"),
   getById          |-> Needs("VIEW", "EVIDENCE"),
   addArtifact      |-> Needs("EDIT", "EVIDENCE"),
   listArtifacts    |-> Needs("VIEW", "EVIDENCE"),
   downloadArtifact |-> Needs("DOWNLOAD", "EVIDENCE"),
   seal             |-> Needs("EDIT", "EVIDENCE"),
   verify           |-> Needs("VERIFY", "EVIDENCE"),
   requestTransfer  |-> Needs("EDIT", "EVIDENCE"),
   acceptTransfer   |-> RequireAuth,
   rejectTransfer   |-> RequireAuth,
   startAnalysis    |-> Needs("EDIT", "EVIDENCE"),
   completeAnalysis |-> Needs("EDIT", "EVIDENCE"),
   returnEvidence   |-> Needs("EDIT", "EVIDENCE"),
   archive          |-> Needs("ARCHIVE", "EVIDENCE"),
   custodyTimeline  |-> Needs("VIEW", "EVIDENCE"),
   verifyCustody    |-> Needs("VERIFY", "EVIDENCE")]

caseRoutes ==
  [create       |-> OneOf(CASE_CREATOR_ROLES),
   list         |-> RequireAuth,
   getById      |-> Needs("VIEW", "CASE"),
   update       |-> Needs("EDIT", "CASE"),
   updateStatus |-> Needs("EDIT", "CASE"),
   addMember    |-> Needs("SHARE", "CASE"),
   listMembers  |-> Needs("VIEW", "CASE"),
   removeMember |-> Needs("SHARE", "CASE")]

signatureRoutes ==
  [generateKey      |-> RequireAuth,
   getMyKey         |-> RequireAuth,
   myQueue          |-> RequireAuth,
   selfSign         |-> Needs("SIGN", "DOCUMENT"),
   requestSignature |-> Needs("SIGN", "DOCUMENT"),
   listForDocument  |-> Needs("VIEW", "DOCUMENT"),
   fulfillPending   |-> RequireAuth,
   declinePending   |-> RequireAuth]

approvalRoutes ==
  [myInbox           |-> RequireAuth,
   submitForApproval |-> Needs("EDIT", "DOCUMENT"),
   listForDocument   |-> Needs("VIEW", "DOCUMENT"),
   finalizeDocument  |-> Needs("EDIT", "DOCUMENT"),
   decideStep        |-> RequireAuth]

sharingRoutes ==
  [listMine        |-> RequireAuth,
   createShare     |-> Needs("SHARE", "DOCUMENT"),
   listForDocument |-> Needs("SHARE", "DOCUMENT"),
   revokeShare     |-> Needs("SHARE", "DOCUMENT")]

verificationRoutes ==
  [verifyDocument |-> Needs("VERIFY", "DOCUMENT"),
   listRecords    |-> Needs("VIEW", "DOCUMENT"),
   verifyPublic   |-> Public]

userRoutes ==
  [lookup            |-> RequireAuth,
   listDepartments   |-> RequireAuth,
   createDepartment  |-> RequireAnyAdmin,
   previewActivation |-> Public,
   activate          |-> Public,
   invite            |-> RequireAuth,
   list              |-> RequireAnyAdmin,
   getById           |-> RequireAnyAdmin,
   updateStatus      |-> RequireAnyAdmin,
   updateRoles       |-> RequireAnyAdmin]

\* can(), for one who stays what they are: `holds` are explicit grants.
can(visitor, action, resource) ==
  /\ action \in TIER_CEILINGS[ceilingTierFor(visitor.role)]
  /\ \/ /\ visitor.caseRole \in CASE_ROLES
        /\ action \in CASE_ROLE_ACTIONS[visitor.caseRole]
     \/ <<resource, action>> \in visitor.holds

Passes(visitor, route) ==
  CASE route.asks = "permission" -> can(visitor, route.action, route.resource)
    [] route.asks = "role"       -> visitor.role \in route.roles
    [] OTHER                     -> TRUE
=============================================================================
