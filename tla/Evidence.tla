------------------------------ MODULE Evidence ------------------------------
(***************************************************************************)
(* The evidence vault (modules/evidence/evidence.service.js) for one item: *)
(* its status, its current custodian, its artifacts and its chain of       *)
(* custody.                                                                *)
(*                                                                         *)
(* Every handler first reads the rows it needs through the pool, without a *)
(* lock, checks them and does its storage reads (a Load action); then it   *)
(* opens a transaction that writes without checking again (a Commit        *)
(* action).  AuditLedger shows that the transaction is one indivisible     *)
(* step; whatever other requests commit between Load and Commit is not     *)
(* seen.  A slot is a request being served; a slot that gives up, fails or *)
(* is cut off by a crash before COMMIT leaves nothing (Abort).             *)
(*                                                                         *)
(* Left out: titles, numbers and locations, the audit event written with   *)
(* each commit (AuditLedger), and the route's permission check (any user   *)
(* may call).  The trail is kept in the order of appending; CustodyLedger  *)
(* shows when created_at order is that order.                              *)
(***************************************************************************)
EXTENDS Naturals, Sequences, FiniteSets

CONSTANTS Users,      \* all users
          Members,    \* members of the case the item belongs to
          Artifacts,  \* identities of the artifacts that can be attached
          Slots,      \* requests served at the same time
          Nobody,     \* no user
          MaxTrail    \* bound on the custody events of the item

ASSUME MembersAssumption == Members \subseteq Users
ASSUME NobodyAssumption  == Nobody \notin Users

VARIABLES status,     \* evidence.status, "NONE" before the row exists
          custodian,  \* evidence.current_custodian_id
          integrity,  \* integrity[a]: integrity_status, "NONE" if no row
          stored,     \* stored[a]: what storage returns for artifact a
          trail,      \* the item's custody events, oldest first
          alerted,    \* artifacts some security event reported
          req         \* req[s]: what slot s read, or Idle

vars == <<status, custodian, integrity, stored, trail, alerted, req>>

-----------------------------------------------------------------------------
Statuses == {"REGISTERED", "SEALED", "VERIFIED", "IN_CUSTODY", "IN_TRANSIT",
             "RECEIVED", "UNDER_ANALYSIS", "RETURNED", "ARCHIVED"}

ALLOWED_TRANSITIONS ==
  [REGISTERED     |-> {"SEALED"},
   SEALED         |-> {"IN_CUSTODY"},
   VERIFIED       |-> {"IN_CUSTODY"},
   IN_CUSTODY     |-> {"IN_TRANSIT", "RETURNED"},
   IN_TRANSIT     |-> {"RECEIVED", "IN_CUSTODY"},
   RECEIVED       |-> {"UNDER_ANALYSIS"},
   UNDER_ANALYSIS |-> {"IN_CUSTODY"},
   RETURNED       |-> {"ARCHIVED"},
   ARCHIVED       |-> {}]

LegalTransition(from, to) ==
  from \in Statuses /\ to \in ALLOWED_TRANSITIONS[from]

Operations == {"register", "addArtifact", "seal", "verify", "download",
               "request", "accept", "reject", "startAnalysis",
               "completeAnalysis", "return", "archive"}

CustodyEvent(action, state, from, to) ==
  [action |-> action, status |-> state, from |-> from, to |-> to]

CustodyEvents ==
  [action : {"REGISTER", "SEAL", "TRANSFER_REQUEST", "RECEIVE", "ANALYZE",
             "RETURN", "ARCHIVE"},
   status : {"PENDING", "COMPLETED", "REJECTED", "BLOCKED"},
   from   : Users \cup {Nobody},
   to     : Users]

Idle == [op |-> "idle"]

Present == {a \in Artifacts : integrity[a] # "NONE"}

IsRequest(e) == e.action = "TRANSFER_REQUEST" /\ e.status = "PENDING"

\* findLatestPendingTransfer: no row is ever changed, so a request stays
\* PENDING after it has been answered.
PendingTransfer(t) ==
  /\ t \in DOMAIN trail
  /\ IsRequest(trail[t])
  /\ \A i \in DOMAIN trail : IsRequest(trail[i]) => i <= t

-----------------------------------------------------------------------------
Init ==
  /\ status = "NONE"
  /\ custodian = Nobody
  /\ integrity = [a \in Artifacts |-> "NONE"]
  /\ stored = [a \in Artifacts |-> "intact"]
  /\ trail = << >>
  /\ alerted = {}
  /\ req = [s \in Slots |-> Idle]

\* Slot s has read the item for user u and passed the handler's checks.
\* `checked` are the artifacts it re-hashed and `failed` those that differ.
\* storage.get or decrypt throws on an unreadable one, which ends the request
\* before its transaction.
Loaded(s, op, u, other, checked) ==
  /\ req[s] = Idle
  /\ \A a \in checked : stored[a] # "unreadable"
  /\ req' = [req EXCEPT ![s] =
               [op |-> op, actor |-> u, other |-> other, seen |-> status,
                checked |-> checked,
                failed |-> {a \in checked : stored[a] = "replaced"}]]
  /\ UNCHANGED <<status, custodian, integrity, stored, trail, alerted>>

\* Mutant: a handler that forgets assertLegalTransition.
CustodianMayAnything(u, target) == custodian = u

\* assertIsCurrentCustodian, then assertLegalTransition.
CustodianMay(u, target) ==
  /\ custodian = u
  /\ LegalTransition(status, target)

LoadRegister(s, u)    == status = "NONE" /\ Loaded(s, "register", u, Nobody, {})
LoadAddArtifact(s, u) == custodian = u /\ Loaded(s, "addArtifact", u, Nobody, {})
LoadSeal(s, u)        == CustodianMay(u, "SEALED") /\ Loaded(s, "seal", u, Nobody, {})

LoadVerify(s, u) ==
  /\ Present # {}
  /\ Loaded(s, "verify", u, Nobody, Present)

LoadDownload(s, u) ==
  \E a \in Present : Loaded(s, "download", u, Nobody, {a})

\* Mutant: requestTransfer forgets assertIsCurrentCustodian.
LoadRequestTransferByAnyone(s, u) ==
  /\ LegalTransition(status, "IN_TRANSIT")
  /\ \E to \in Members \ {u} : Loaded(s, "request", u, to, {})

LoadRequestTransfer(s, u) ==
  /\ CustodianMay(u, "IN_TRANSIT")
  /\ \E to \in Members \ {u} : Loaded(s, "request", u, to, {})

\* loadPendingTransferOrThrow; it does not look at the item's status.
LoadAccept(s, u) ==
  \E t \in DOMAIN trail :
    /\ PendingTransfer(t) /\ trail[t].to = u
    /\ Loaded(s, "accept", u, trail[t].from, Present)

LoadReject(s, u) ==
  \E t \in DOMAIN trail :
    /\ PendingTransfer(t) /\ trail[t].to = u
    /\ Loaded(s, "reject", u, trail[t].from, {})

LoadStartAnalysis(s, u) ==
  CustodianMay(u, "UNDER_ANALYSIS") /\ Loaded(s, "startAnalysis", u, Nobody, {})

LoadCompleteAnalysis(s, u) ==
  CustodianMay(u, "IN_CUSTODY") /\ Loaded(s, "completeAnalysis", u, Nobody, {})

LoadReturn(s, u) ==
  CustodianMay(u, "RETURNED") /\ Loaded(s, "return", u, Nobody, {})

\* Archiving does not require custody.
LoadArchive(s, u) ==
  LegalTransition(status, "ARCHIVED") /\ Loaded(s, "archive", u, Nobody, {})

-----------------------------------------------------------------------------
\* The slot's transaction commits and its request ends.
Ends(s, op) == /\ req[s].op = op
               /\ req' = [req EXCEPT ![s] = Idle]

AppendCustody(action, state, from, to) ==
  /\ Len(trail) < MaxTrail
  /\ trail' = Append(trail, CustodyEvent(action, state, from, to))

\* updateArtifactIntegrityStatus for every artifact the request re-hashed.
MarkChecked(r) ==
  integrity' = [a \in Artifacts |->
                  IF a \in r.failed THEN "MODIFIED"
                  ELSE IF a \in r.checked THEN "VERIFIED" ELSE integrity[a]]

\* The item's row, its first artifact and the REGISTER event.  There is one
\* item, so a second registration concerns another one.
CommitRegister(s) ==
  /\ status = "NONE"
  /\ Ends(s, "register")
  /\ status' = "REGISTERED"
  /\ custodian' = req[s].actor
  /\ \E a \in Artifacts : integrity' = [integrity EXCEPT ![a] = "UNKNOWN"]
  /\ AppendCustody("REGISTER", "COMPLETED", Nobody, req[s].actor)
  /\ UNCHANGED <<stored, alerted>>

CommitAddArtifact(s) ==
  /\ Ends(s, "addArtifact")
  /\ \E a \in Artifacts \ Present :
       integrity' = [integrity EXCEPT ![a] = "UNKNOWN"]
  /\ UNCHANGED <<status, custodian, stored, trail, alerted>>

\* A custodian's own step: new status, one custody event from and to itself.
Move(s, op, target, action, state) ==
  /\ Ends(s, op)
  /\ status' = target
  /\ AppendCustody(action, state, req[s].actor, req[s].actor)
  /\ UNCHANGED <<custodian, integrity, stored, alerted>>

CommitSeal(s)  == Move(s, "seal", "SEALED", "SEAL", "COMPLETED")
CommitStartAnalysis(s) ==
  Move(s, "startAnalysis", "UNDER_ANALYSIS", "ANALYZE", "PENDING")
CommitCompleteAnalysis(s) ==
  Move(s, "completeAnalysis", "IN_CUSTODY", "ANALYZE", "COMPLETED")
CommitReturn(s)  == Move(s, "return", "RETURNED", "RETURN", "COMPLETED")
CommitArchive(s) == Move(s, "archive", "ARCHIVED", "ARCHIVE", "COMPLETED")

\* An integrity check that fails raises INTEGRITY_FAILURE; one that passes on
\* an item that was SEALED when it was read takes it into custody.
CommitVerify(s) ==
  /\ Ends(s, "verify")
  /\ MarkChecked(req[s])
  /\ alerted' = alerted \cup req[s].failed
  /\ status' = IF req[s].failed = {} /\ req[s].seen = "SEALED"
               THEN "IN_CUSTODY" ELSE status
  /\ UNCHANGED <<custodian, stored, trail>>

\* Mutant: downloadArtifact marks the artifact but raises no alert.
CommitDownloadSilently(s) ==
  /\ Ends(s, "download")
  /\ MarkChecked(req[s])
  /\ UNCHANGED <<status, custodian, stored, trail, alerted>>

CommitDownload(s) ==
  /\ Ends(s, "download")
  /\ MarkChecked(req[s])
  /\ alerted' = alerted \cup req[s].failed
  /\ UNCHANGED <<status, custodian, stored, trail>>

CommitRequestTransfer(s) ==
  /\ Ends(s, "request")
  /\ status' = "IN_TRANSIT"
  /\ AppendCustody("TRANSFER_REQUEST", "PENDING", req[s].actor, req[s].other)
  /\ UNCHANGED <<custodian, integrity, stored, alerted>>

\* Mutant: acceptTransfer does not pass newCustodianId to the update.
CommitAcceptKeepsCustodian(s) ==
  /\ req[s].op = "accept" /\ req[s].failed = {}
  /\ Ends(s, "accept")
  /\ MarkChecked(req[s])
  /\ status' = "RECEIVED"
  /\ AppendCustody("RECEIVE", "COMPLETED", req[s].other, req[s].actor)
  /\ UNCHANGED <<custodian, stored, alerted>>

CommitAccept(s) ==
  /\ req[s].op = "accept" /\ req[s].failed = {}
  /\ Ends(s, "accept")
  /\ MarkChecked(req[s])
  /\ status' = "RECEIVED"
  /\ custodian' = req[s].actor
  /\ AppendCustody("RECEIVE", "COMPLETED", req[s].other, req[s].actor)
  /\ UNCHANGED <<stored, alerted>>

\* Mutant: a blocked receipt puts the item back into custody.
CommitBlockedAcceptMovesItem(s) ==
  /\ req[s].op = "accept" /\ req[s].failed # {}
  /\ Ends(s, "accept")
  /\ MarkChecked(req[s])
  /\ alerted' = alerted \cup req[s].failed
  /\ status' = "IN_CUSTODY"
  /\ AppendCustody("RECEIVE", "BLOCKED", req[s].other, req[s].actor)
  /\ UNCHANGED <<custodian, stored>>

\* Receipt of a modified artifact: CUSTODY_VIOLATION, the item stays where it
\* is.  The code stores REJECTED with its own reason; BLOCKED stands for it.
CommitBlockedAccept(s) ==
  /\ req[s].op = "accept" /\ req[s].failed # {}
  /\ Ends(s, "accept")
  /\ MarkChecked(req[s])
  /\ alerted' = alerted \cup req[s].failed
  /\ AppendCustody("RECEIVE", "BLOCKED", req[s].other, req[s].actor)
  /\ UNCHANGED <<status, custodian, stored>>

\* Mutant: rejectTransfer clears the custodian.
CommitRejectToNobody(s) ==
  /\ Ends(s, "reject")
  /\ status' = "IN_CUSTODY"
  /\ custodian' = Nobody
  /\ AppendCustody("RECEIVE", "REJECTED", req[s].other, req[s].actor)
  /\ UNCHANGED <<integrity, stored, alerted>>

CommitReject(s) ==
  /\ Ends(s, "reject")
  /\ status' = "IN_CUSTODY"
  /\ custodian' = req[s].other
  /\ AppendCustody("RECEIVE", "REJECTED", req[s].other, req[s].actor)
  /\ UNCHANGED <<integrity, stored, alerted>>

\* The request fails, is rolled back or dies with the process.
Abort(s) ==
  /\ req[s] # Idle
  /\ req' = [req EXCEPT ![s] = Idle]
  /\ UNCHANGED <<status, custodian, integrity, stored, trail, alerted>>

\* Environment: outside the program, the stored bytes of an artifact are
\* exchanged for others that decrypt, or are lost or no longer decrypt.
Alter(a) ==
  /\ a \in Present /\ stored[a] = "intact"
  /\ \E state \in {"replaced", "unreadable"} :
       stored' = [stored EXCEPT ![a] = state]
  /\ UNCHANGED <<status, custodian, integrity, trail, alerted, req>>

Load(s, u) ==
  \/ LoadRegister(s, u)
  \/ LoadAddArtifact(s, u)
  \/ LoadSeal(s, u)
  \/ LoadVerify(s, u)
  \/ LoadDownload(s, u)
  \/ LoadRequestTransfer(s, u)
  \/ LoadAccept(s, u)
  \/ LoadReject(s, u)
  \/ LoadStartAnalysis(s, u)
  \/ LoadCompleteAnalysis(s, u)
  \/ LoadReturn(s, u)
  \/ LoadArchive(s, u)

Commit(s) ==
  \/ CommitRegister(s)
  \/ CommitAddArtifact(s)
  \/ CommitSeal(s)
  \/ CommitVerify(s)
  \/ CommitDownload(s)
  \/ CommitRequestTransfer(s)
  \/ CommitAccept(s)
  \/ CommitBlockedAccept(s)
  \/ CommitReject(s)
  \/ CommitStartAnalysis(s)
  \/ CommitCompleteAnalysis(s)
  \/ CommitReturn(s)
  \/ CommitArchive(s)

Next == \/ \E s \in Slots : Abort(s) \/ Commit(s) \/ \E u \in Users : Load(s, u)
        \/ \E a \in Artifacts : Alter(a)

Spec == Init /\ [][Next]_vars

-----------------------------------------------------------------------------
\* Every variable keeps its type; a registered item always has a custodian.
TypeOK ==
  /\ status \in Statuses \cup {"NONE"}
  /\ custodian \in IF status = "NONE" THEN {Nobody} ELSE Users
  /\ integrity \in [Artifacts -> {"NONE", "UNKNOWN", "VERIFIED", "MODIFIED"}]
  /\ stored \in [Artifacts -> {"intact", "replaced", "unreadable"}]
  /\ trail \in Seq(CustodyEvents)
  /\ alerted \subseteq Artifacts
  /\ \A s \in Slots :
       req[s] = Idle \/ req[s] \in
         [op : Operations, actor : Users, other : Users \cup {Nobody},
          seen : Statuses \cup {"NONE"}, checked : SUBSET Artifacts,
          failed : SUBSET Artifacts]

\* Custody records: although every handler acts on what it read earlier, the
\* trail alone tells who holds the item - whoever registered it, received it
\* or got it back last.
Hands(e) ==
  \/ e.action = "REGISTER"
  \/ e.action = "RECEIVE" /\ e.status \in {"COMPLETED", "REJECTED"}

HolderAfter(e) == IF e.status = "REJECTED" THEN e.from ELSE e.to

TrailNamesCustodian ==
  \A i \in DOMAIN trail :
    (Hands(trail[i]) /\ \A j \in DOMAIN trail : j > i => ~Hands(trail[j]))
      => custodian = HolderAfter(trail[i])

\* The order of an item's life survives every race: nothing happens to it
\* before it is sealed, it is received or refused only by the person it was
\* sent to and from the person who sent it, analysed only after a receipt,
\* and archived only after it was returned.
Earlier(i, p(_)) == \E j \in DOMAIN trail : j < i /\ p(trail[j])

TrailInOrder ==
  \A i \in DOMAIN trail :
    LET e == trail[i]
    IN /\ (e.action = "REGISTER") <=> (i = 1)
       /\ e.action \notin {"REGISTER", "SEAL"} =>
            Earlier(i, LAMBDA d : d.action = "SEAL")
       /\ e.action = "RECEIVE" =>
            Earlier(i, LAMBDA d : IsRequest(d) /\ d.from = e.from /\ d.to = e.to)
       /\ (e.action = "ANALYZE" /\ e.status = "PENDING") =>
            Earlier(i, LAMBDA d : d.action = "RECEIVE" /\ d.status = "COMPLETED")
       /\ e.action = "ARCHIVE" => Earlier(i, LAMBDA d : d.action = "RETURN")

\* An artifact is never marked MODIFIED without a security event that
\* reported it, whichever of verify, download and receipt noticed.
ModifiedIsReported ==
  \A a \in Artifacts : integrity[a] = "MODIFIED" => a \in alerted

\* "Only the current custodian may perform this action": while a transfer is
\* the newest one, the item is in the hands of one of its two parties.
PartiesHoldItem ==
  \A t \in DOMAIN trail :
    PendingTransfer(t) => custodian \in {trail[t].from, trail[t].to}

\* The newest custody event that moves an item tells its status, except that
\* a sealed item may have been verified into custody since.
StatusAfter(e) ==
  CASE e.action = "REGISTER"         -> {"REGISTERED"}
    [] e.action = "SEAL"             -> {"SEALED", "IN_CUSTODY"}
    [] e.action = "TRANSFER_REQUEST" -> {"IN_TRANSIT"}
    [] e.action = "RECEIVE"          -> IF e.status = "COMPLETED"
                                        THEN {"RECEIVED"} ELSE {"IN_CUSTODY"}
    [] e.action = "ANALYZE"          -> IF e.status = "PENDING"
                                        THEN {"UNDER_ANALYSIS"} ELSE {"IN_CUSTODY"}
    [] e.action = "RETURN"           -> {"RETURNED"}
    [] e.action = "ARCHIVE"          -> {"ARCHIVED"}

TrailTellsStatus ==
  \A i \in DOMAIN trail :
    (/\ trail[i].status # "BLOCKED"
     /\ \A j \in DOMAIN trail : j > i => trail[j].status = "BLOCKED")
      => status \in StatusAfter(trail[i])

\* "Legal evidence-status transitions ... enforced exactly"
\* (evidence.service.js, ALLOWED_TRANSITIONS).
TransitionsAreLegal ==
  [][status = "NONE" \/ LegalTransition(status, status')]_status
=============================================================================
