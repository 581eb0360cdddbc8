------------------------------ MODULE WebPages ------------------------------
(***************************************************************************)
(* The pages of the web client (apps/web/src/app), as tables: how each one *)
(* loads what it shows (its refresh) and what its handlers do.  WebPage    *)
(* runs the tables.                                                        *)
(*                                                                         *)
(* Left out: the state of forms and wording, what a button requires beside *)
(* the data it is drawn from (DocumentPage, EvidencePage), and lists that  *)
(* never change (document types).                                          *)
(***************************************************************************)
EXTENDS Routes, Naturals, Sequences, FiniteSets

\* One await of a refresh: parts fetched together in a Promise.all.  `caught`
\* are those with a catch that empties them; any other failure ends the try
\* block and leaves what was shown.
Phase(block, parts, caught) ==
  [block |-> block, parts |-> parts, caught |-> caught]

\* A handler: the route it calls, the parts its button is drawn from, the busy
\* flag it sets (and how many rows have a button behind that flag), the parts
\* its call changes on the server, and what follows an acknowledged call: refresh() without an
\* await, a direct set of the part from the answer, or nothing.
Handler(calls, needs, flag, rows, changes, then) ==
  [calls |-> calls, needs |-> needs, flag |-> flag, rows |-> rows,
   changes |-> changes, then |-> then]

-----------------------------------------------------------------------------
\* cases/[id]/documents/[documentId]
\* Mutant: the list of shares is fetched without a catch of its own.
document_refreshWithoutCatch ==
  << Phase(1, {"doc", "versions", "comments"}, {}),
     Phase(1, {"signatures", "members", "shares", "approvals"}, {"approvals"}),
     Phase(2, {"key"}, {"key"}) >>

document_refresh ==
  << Phase(1, {"doc", "versions", "comments"}, {}),
     Phase(1, {"signatures", "members", "shares", "approvals"},
              {"shares", "approvals"}),
     Phase(2, {"key"}, {"key"}) >>

document_handleDownload ==
  Handler(documentRoutes.downloadVersion,
          {"doc"}, "busyVersionId", 2, {"versions"}, "nothing")
document_handleRestore ==
  Handler(documentRoutes.restoreVersion,
          {"versions"}, "none", 1, {"doc", "versions"}, "refresh")
document_handleAddComment ==
  Handler(documentRoutes.addComment,
          {"doc"}, "none", 1, {"comments"}, "refresh")
document_handleGenerateKey ==
  Handler(signatureRoutes.generateKey,
          {"doc"}, "none", 1, {"key"}, "set")
document_handleSelfSign ==
  Handler(signatureRoutes.selfSign,
          {"key"}, "signBusy", 1, {"signatures", "doc"}, "refresh")
document_handleRequestSignature ==
  Handler(signatureRoutes.requestSignature,
          {"members"}, "signBusy", 1, {"signatures"}, "refresh")
document_handleVerify ==
  Handler(verificationRoutes.verifyDocument,
          {"doc"}, "verifyBusy", 1, {}, "nothing")
document_handleCreateShare ==
  Handler(sharingRoutes.createShare,
          {"doc"}, "shareBusy", 1, {"shares"}, "refresh")
document_handleRevokeShare ==
  Handler(sharingRoutes.revokeShare,
          {"shares"}, "shareBusy", 1, {"shares"}, "refresh")
document_handleSubmitApproval ==
  Handler(approvalRoutes.submitForApproval,
          {"doc"}, "approvalBusy", 1, {"approvals", "doc"}, "refresh")
document_handleDecideStep ==
  Handler(approvalRoutes.decideStep,
          {"approvals"}, "approvalBusy", 1, {"approvals", "doc"}, "refresh")
document_handleFinalize ==
  Handler(approvalRoutes.finalizeDocument,
          {"doc"}, "none", 1, {"doc"}, "refresh")

\* cases/[id]/evidence/[evidenceId]
evidence_refresh == << Phase(1, {"item", "timeline"}, {}),
                       Phase(1, {"members"}, {"members"}) >>

RunActionRoutes ==
  {evidenceRoutes.seal, evidenceRoutes.verify, evidenceRoutes.startAnalysis,
   evidenceRoutes.completeAnalysis, evidenceRoutes.returnEvidence,
   evidenceRoutes.archive, evidenceRoutes.acceptTransfer}

\* runAction: seal, verify, analysis, return, archive, and accept.
evidence_runAction(route) ==
  Handler(route,
          {"item"}, "busy", 1, {"item", "timeline"}, "refresh")
evidence_handleTransferRequest ==
  Handler(evidenceRoutes.requestTransfer,
          {"members"}, "busy", 1, {"item", "timeline"}, "refresh")
evidence_handleReject ==
  Handler(evidenceRoutes.rejectTransfer,
          {"timeline"}, "busy", 1, {"item", "timeline"}, "refresh")
evidence_handleAddArtifact ==
  Handler(evidenceRoutes.addArtifact,
          {"item"}, "addingArtifact", 1, {"item"}, "refresh")
evidence_handleDownload ==
  Handler(evidenceRoutes.downloadArtifact,
          {"item"}, "busyArtifactId", 2, {"item"}, "nothing")
evidence_handleVerifyChain ==
  Handler(evidenceRoutes.verifyCustody,
          {"item"}, "none", 1, {}, "nothing")

\* cases/[id]
case_refresh ==
  << Phase(1, {"case", "documents", "members", "evidence"}, {}) >>

case_handleUpload ==
  Handler(documentRoutes.create,
          {"case"}, "uploading", 1, {"documents"}, "refresh")
case_handleRegisterEvidence ==
  Handler(evidenceRoutes.register,
          {"case"}, "registering", 1, {"evidence"}, "refresh")
case_handleAddMember ==
  Handler(caseRoutes.addMember,
          {"case"}, "none", 1, {"members"}, "refresh")
case_handleAdvanceStatus ==
  Handler(caseRoutes.updateStatus,
          {"case"}, "none", 1, {"case"}, "refresh")

\* admin/users; a status or role change that fails is not caught.
users_refresh == << Phase(1, {"users", "departments"}, {}) >>

users_handleInvite ==
  Handler(userRoutes.invite,
          {}, "inviting", 1, {"users", "departments"}, "refresh")
users_handleStatusChange ==
  Handler(userRoutes.updateStatus,
          {"users"}, "none", 1, {"users"}, "refresh")
users_handleRolesChange ==
  Handler(userRoutes.updateRoles,
          {"users"}, "none", 1, {"users"}, "refresh")

\* signatures/queue
queue_refresh == << Phase(1, {"queue"}, {}), Phase(2, {"key"}, {"key"}) >>

queue_handleGenerateKey ==
  Handler(signatureRoutes.generateKey,
          {}, "generating", 1, {"key"}, "set")
queue_handleSign ==
  Handler(signatureRoutes.fulfillPending,
          {"queue", "key"}, "busyId", 2, {"queue"}, "refresh")
queue_handleDecline ==
  Handler(signatureRoutes.declinePending,
          {"queue"}, "busyId", 2, {"queue"}, "refresh")

\* approval/inbox
inbox_refresh == << Phase(1, {"inbox"}, {}) >>
inbox_decide ==
  Handler(approvalRoutes.decideStep,
          {"inbox"}, "busyId", 2, {"inbox"}, "refresh")

\* cases
cases_refresh      == << Phase(1, {"cases"}, {}) >>
cases_handleCreate ==
  Handler(caseRoutes.create,
          {}, "creating", 1, {"cases"}, "refresh")

\* sharing/mine and verify/[code] only load.
mine_refresh   == << Phase(1, {"sharedWithMe"}, {}) >>
verify_refresh == << Phase(1, {"result"}, {}) >>

\* activate/[token]: a submitted activation leaves for the login page.
activate_preview      == << Phase(1, {"preview"}, {}) >>
activate_handleSubmit ==
  Handler(userRoutes.activate,
          {"preview"}, "submitting", 1, {"preview"}, "nothing")

\* components/UserPicker: what is looked up is the query itself, so that
\* typing changes what the next lookup should show.
picker_lookup == << Phase(1, {"results"}, {"results"}) >>

-----------------------------------------------------------------------------
\* "session" is no page: WebSession takes its place.
Refresh ==
  [document |-> document_refresh, evidence |-> evidence_refresh,
   case     |-> case_refresh,     users    |-> users_refresh,
   queue    |-> queue_refresh,    inbox    |-> inbox_refresh,
   cases    |-> cases_refresh,    mine     |-> mine_refresh,
   verify   |-> verify_refresh,   activate |-> activate_preview,
   picker   |-> picker_lookup,    session  |-> << >>]

Handlers ==
  [document |-> {document_handleDownload, document_handleRestore,
                 document_handleAddComment, document_handleGenerateKey,
                 document_handleSelfSign, document_handleRequestSignature,
                 document_handleVerify, document_handleCreateShare,
                 document_handleRevokeShare, document_handleSubmitApproval,
                 document_handleDecideStep, document_handleFinalize},
   evidence |-> {evidence_runAction(r) : r \in RunActionRoutes}
                 \cup {evidence_handleTransferRequest, evidence_handleReject,
                       evidence_handleAddArtifact, evidence_handleDownload,
                       evidence_handleVerifyChain},
   case     |-> {case_handleUpload, case_handleRegisterEvidence,
                 case_handleAddMember, case_handleAdvanceStatus},
   users    |-> {users_handleInvite, users_handleStatusChange,
                 users_handleRolesChange},
   queue    |-> {queue_handleGenerateKey, queue_handleSign, queue_handleDecline},
   inbox    |-> {inbox_decide},
   cases    |-> {cases_handleCreate},
   mine     |-> {},
   verify   |-> {},
   activate |-> {activate_handleSubmit},
   picker   |-> {},
   session  |-> {}]

\* The route that a part is read from.
Get ==
  [doc        |-> documentRoutes.getById,
   versions   |-> documentRoutes.listVersions,
   comments   |-> documentRoutes.listComments,
   signatures |-> signatureRoutes.listForDocument,
   members    |-> caseRoutes.listMembers,
   shares     |-> sharingRoutes.listForDocument,
   approvals  |-> approvalRoutes.listForDocument,
   key        |-> signatureRoutes.getMyKey,
   item       |-> evidenceRoutes.getById,
   timeline   |-> evidenceRoutes.custodyTimeline,
   case       |-> caseRoutes.getById,
   documents  |-> documentRoutes.list,
   evidence   |-> evidenceRoutes.list,
   users      |-> userRoutes.list,
   departments |-> userRoutes.listDepartments,
   queue      |-> signatureRoutes.myQueue,
   inbox      |-> approvalRoutes.myInbox,
   cases      |-> caseRoutes.list,
   sharedWithMe |-> sharingRoutes.listMine,
   result     |-> verificationRoutes.verifyPublic,
   preview    |-> userRoutes.previewActivation,
   results    |-> userRoutes.lookup]

PartsOf(page) ==
  UNION {Refresh[page][i].parts : i \in DOMAIN Refresh[page]}
FlagsOf(page) == {a.flag : a \in Handlers[page]} \ {"none"}
=============================================================================
