---------------------------- MODULE EvidencePage ----------------------------
(***************************************************************************)
(* What the page of an evidence item (apps/web, cases/[id]/evidence/       *)
(* [evidenceId]/page.js) offers user u when it has just been loaded: one   *)
(* operator per button or form, next to what the service accepts.  The     *)
(* page has rules of its own, computed from the item and its custody       *)
(* timeline; nothing makes them agree with the service's.  WebPages models *)
(* how the page is loaded and goes stale.  Left out: a transfer form that  *)
(* was opened stays open when the status it was offered in is over.        *)
(***************************************************************************)
EXTENDS Evidence

\* Mutant: analysis is offered to everybody, as verification is.
ACTION_BY_STATUS_FOR_ALL ==
  [REGISTERED     |-> [step |-> "seal",             requiresCustodian |-> TRUE],
   SEALED         |-> [step |-> "verify",           requiresCustodian |-> FALSE],
   RECEIVED       |-> [step |-> "startAnalysis",    requiresCustodian |-> FALSE],
   UNDER_ANALYSIS |-> [step |-> "completeAnalysis", requiresCustodian |-> FALSE],
   RETURNED       |-> [step |-> "archive",          requiresCustodian |-> FALSE]]

ACTION_BY_STATUS ==
  [REGISTERED     |-> [step |-> "seal",             requiresCustodian |-> TRUE],
   SEALED         |-> [step |-> "verify",           requiresCustodian |-> FALSE],
   RECEIVED       |-> [step |-> "startAnalysis",    requiresCustodian |-> TRUE],
   UNDER_ANALYSIS |-> [step |-> "completeAnalysis", requiresCustodian |-> TRUE],
   RETURNED       |-> [step |-> "archive",          requiresCustodian |-> FALSE]]

forwardAction == {ACTION_BY_STATUS[t] : t \in {status} \cap DOMAIN ACTION_BY_STATUS}

isCustodian(u) == custodian = u

\* The newest custody event, if it is a transfer request.
pendingTransfer == {t \in DOMAIN trail : t = Len(trail) /\ IsRequest(trail[t])}

forwardButton(u) ==
  {a.step : a \in {f \in forwardAction : isCustodian(u) \/ ~f.requiresCustodian}}

verifyButton ==
  IF status \notin {"REGISTERED", "ARCHIVED"} /\ forwardAction = {}
  THEN {"verify"} ELSE {}

returnButton(u) ==
  IF status = "IN_CUSTODY" /\ isCustodian(u) THEN {"return"} ELSE {}

\* The recipients are the members other than the custodian.
transferForm(u) ==
  IF status = "IN_CUSTODY" /\ isCustodian(u) /\ Members \ {custodian} # {}
  THEN {"request"} ELSE {}

answerButtons(u) ==
  IF \E t \in pendingTransfer : trail[t].to = u
  THEN {"accept", "reject"} ELSE {}

\* The file to add as an artifact: offered to everybody.
artifactForm == {"addArtifact"}

\* One button per artifact of the list, taken as one step.
downloadButtons == IF Present # {} THEN {"download"} ELSE {}

chainButton == {"verifyChain"}

\* What takes the item further.
NextSteps(u) == forwardButton(u) \cup returnButton(u) \cup transferForm(u)
                \cup answerButtons(u)

Offered(u) == NextSteps(u) \cup verifyButton \cup artifactForm
              \cup downloadButtons \cup chainButton

-----------------------------------------------------------------------------
Readable == \A a \in Present : stored[a] # "unreadable"
Intact   == \A a \in Present : stored[a] = "intact"
Blocked  == \E i \in DOMAIN trail : trail[i].status = "BLOCKED"

\* loadPendingTransferOrThrow lets u through.
Receives(u) == \E t \in DOMAIN trail : PendingTransfer(t) /\ trail[t].to = u

\* The steps that would get past the service's checks now: those of which the
\* Load action can be taken (EvidenceProofs, AcceptedLoads), and the check of
\* the custody chain, which anybody may read.
Accepted(u) ==
  LET Checks == [seal             |-> CustodianMay(u, "SEALED"),
                 verify           |-> Present # {} /\ Readable,
                 addArtifact      |-> custodian = u,
                 download         |-> \E a \in Present : stored[a] # "unreadable",
                 verifyChain      |-> status # "NONE",
                 request          |-> CustodianMay(u, "IN_TRANSIT") /\ Members \ {u} # {},
                 accept           |-> Receives(u) /\ Readable,
                 reject           |-> Receives(u),
                 startAnalysis    |-> CustodianMay(u, "UNDER_ANALYSIS"),
                 completeAnalysis |-> CustodianMay(u, "IN_CUSTODY"),
                 return           |-> CustodianMay(u, "RETURNED"),
                 archive          |-> LegalTransition(status, "ARCHIVED")]
  IN {step \in DOMAIN Checks : Checks[step]}

-----------------------------------------------------------------------------
\* A fresh page and the service agree.  The page offers no step that the
\* service would refuse, except the form to add an artifact, which everybody
\* sees and only the custodian may send, and what reads bytes that cannot be
\* read.  It offers every step that the service accepts but those that are
\* left to another moment: the end of an analysis, a further verification, an
\* answer to a request that is not the newest event.  And as long as the
\* stored bytes are intact and no receipt was blocked, somebody is offered a
\* step that takes the item further, until it is archived.
PageGuidesItem ==
  status # "NONE" =>
    /\ \A u \in Users :
         /\ Offered(u) \ Accepted(u) \subseteq
              (IF custodian = u THEN {} ELSE {"addArtifact"}) \cup
              (IF Readable THEN {} ELSE {"verify", "accept", "download"})
         /\ Accepted(u) \ {"completeAnalysis", "verify", "accept", "reject"}
              \subseteq Offered(u)
    /\ (Intact /\ ~Blocked /\ status # "ARCHIVED") =>
         \E u \in Users : NextSteps(u) # {}
=============================================================================
