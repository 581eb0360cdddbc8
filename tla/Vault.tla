-------------------------------- MODULE Vault --------------------------------
(***************************************************************************)
(* The stored bytes of a document's versions and who checks them: a        *)
(* download (documents.service.js, downloadVersion) and the verification   *)
(* portal (modules/verification), which reads the signature, the document, *)
(* the bytes and the audit ledger one after the other without a lock.      *)
(*                                                                         *)
(* A restored version reuses the storage object of the version it copies,  *)
(* so that objects are named by their content here: two uploads of the     *)
(* same content are altered together.  Version and key rows do not change  *)
(* in what a check reads of them, and an RSA signature that the API made   *)
(* verifies, so reading them is no step.  What verifyChain of the whole    *)
(* ledger answers is AuditLedger!Intact; here it is one flag.              *)
(***************************************************************************)
EXTENDS Signatures

CONSTANTS Checkers,     \* downloads and verifications under way at once
          MaxAltered    \* bound on what is altered outside the program

VARIABLES stored,       \* stored[c]: what storage returns for object c
          ledgerIntact, \* does verifyChain find the audit ledger intact?
          marks,        \* marks[v]: integrity_status of version v
          reported,     \* versions that an INTEGRITY_FAILURE event names
          checks        \* checks[k]: what checker k has read

vaultVars == <<stored, ledgerIntact, marks, reported, checks>>

-----------------------------------------------------------------------------
VaultInit ==
  /\ stored = [c \in Contents |-> "intact"]
  /\ ledgerIntact = TRUE
  /\ marks = [v \in 1..MaxVersions |-> "UNKNOWN"]
  /\ reported = {}
  /\ checks = [k \in Checkers |-> Idle]

Altered == Cardinality({c \in Contents : stored[c] # "intact"})
           + (IF ledgerIntact THEN 0 ELSE 1)

\* Environment: outside the program, a stored object is exchanged for another
\* that decrypts, or is lost or no longer decrypts.
AlterObject ==
  /\ Altered < MaxAltered
  /\ \E v \in DOMAIN versions, state \in {"replaced", "unreadable"} :
       /\ stored[versions[v].content] = "intact"
       /\ stored' = [stored EXCEPT ![versions[v].content] = state]
  /\ UNCHANGED <<ledgerIntact, marks, reported, checks>>

\* Environment: a row of the ledger is altered, or another request appends an
\* event under an id in capitals, which verifyChain cannot tell from that.
AlterLedger ==
  /\ Altered < MaxAltered /\ ledgerIntact
  /\ ledgerIntact' = FALSE
  /\ UNCHANGED <<stored, marks, reported, checks>>

Checks(k, from, to) ==
  /\ checks[k].op = from
  /\ checks' = [checks EXCEPT ![k] = to]

\* downloadVersion, up to the comparison: storage.get or decrypt throws on an
\* object that cannot be read, which ends the request.
LoadDownload(k) ==
  /\ \E v \in DOMAIN versions :
       /\ stored[versions[v].content] # "unreadable"
       /\ Checks(k, "idle", [op |-> "download", version |-> v,
                             same |-> stored[versions[v].content] = "intact"])
  /\ UNCHANGED <<stored, ledgerIntact, marks, reported>>

\* The version's mark, and the security event of a mismatch.
CommitDownload(k) ==
  /\ Checks(k, "download", Idle)
  /\ LET v == checks[k].version
     IN IF checks[k].same
        THEN /\ marks' = [marks EXCEPT ![v] = "VERIFIED"]
             /\ UNCHANGED reported
        ELSE /\ marks' = [marks EXCEPT ![v] = "MODIFIED"]
             /\ reported' = reported \cup {v}
  /\ UNCHANGED <<stored, ledgerIntact>>

\* Mutant: a superseded signature is not checked any further.
VerdictOfCurrent(hashCheck, ledgerCheck, versionCheck) ==
  IF ~versionCheck THEN "SUPERSEDED"
  ELSE IF ~hashCheck \/ ~ledgerCheck THEN "TAMPERED" ELSE "AUTHENTIC"

\* overallResult
Verdict(hashCheck, ledgerCheck, versionCheck) ==
  IF ~hashCheck \/ ~ledgerCheck THEN "TAMPERED"
  ELSE IF ~versionCheck THEN "SUPERSEDED" ELSE "AUTHENTIC"

\* What may be said of signature i at this moment.
TrueVerdicts(i) ==
  IF ~ledgerIntact \/ stored[versions[signatures[i].version].content] # "intact"
  THEN {"TAMPERED"}
  ELSE IF signatures[i].version = current THEN {"AUTHENTIC"} ELSE {"SUPERSEDED"}

\* The verification request goes on with what it just read.  `held` collects
\* the verdicts that were true while it was being served.
Verifies(k, from, read) ==
  /\ checks[k].op = from
  /\ checks' = [checks EXCEPT ![k] =
       [read EXCEPT !.held = @ \cup TrueVerdicts(read.item)]]
  /\ UNCHANGED <<stored, ledgerIntact, marks, reported>>

\* The newest signature of the document, or the one with a given code.
\* Without one the answer is UNSIGNED or NOT_FOUND.
FindSignature(k) ==
  \E i \in DOMAIN signatures :
    /\ signatures[i].status = "SIGNED"
    /\ Verifies(k, "idle", [op |-> "document", item |-> i, versionCheck |-> FALSE,
                            hashCheck |-> FALSE, held |-> {}])

ReadDocument(k) ==
  Verifies(k, "document",
    [checks[k] EXCEPT !.op = "bytes",
                      !.versionCheck = current = signatures[checks[k].item].version])

\* A stored object that is missing or does not decrypt fails the check.
ReadBytes(k) ==
  Verifies(k, "bytes",
    [checks[k] EXCEPT !.op = "ledger",
       !.hashCheck = stored[signatures[checks[k].item].hash] = "intact"])

\* auditService.verifyChain, then the verdict.
ReadLedger(k) ==
  Verifies(k, "ledger",
    [op |-> "record", item |-> checks[k].item, held |-> checks[k].held,
     verdict |-> Verdict(checks[k].hashCheck, ledgerIntact,
                         checks[k].versionCheck)])

\* A row that nothing but the list of records reads again.
insertRecord(k) ==
  /\ Checks(k, "record", Idle)
  /\ UNCHANGED <<stored, ledgerIntact, marks, reported>>

VaultNext ==
  \/ AlterObject
  \/ AlterLedger
  \/ \E k \in Checkers : \/ LoadDownload(k)
                         \/ CommitDownload(k)
                         \/ FindSignature(k)
                         \/ ReadDocument(k)
                         \/ ReadBytes(k)
                         \/ ReadLedger(k)
                         \/ insertRecord(k)
=============================================================================
