------------------------- MODULE DocumentLifecycle --------------------------
(***************************************************************************)
(* A document's draft -> review -> approve -> sign -> final life: versions,*)
(* approval chains and signatures of one document, written by three        *)
(* services that share documents.status and know nothing of each other,    *)
(* and its stored bytes, checked while the others write.                   *)
(***************************************************************************)
EXTENDS Approval, Vault

vars == <<docVars, chains, sigVars, vaultVars, req>>

Init == DocInit /\ VaultInit /\ chains = << >> /\ signatures = << >> /\ keys = << >>

Next == \/ DocNext /\ UNCHANGED <<chains, sigVars, vaultVars>>
        \/ ApprovalNext /\ UNCHANGED <<sigVars, vaultVars>>
        \/ SignaturesNext /\ UNCHANGED <<chains, vaultVars>>
        \/ VaultNext /\ UNCHANGED <<docVars, chains, sigVars, req>>

Spec == Init /\ [][Next]_vars

-----------------------------------------------------------------------------
VersionRow == [content : Contents, number : Nat, began : Nat, signed : BOOLEAN]

Chain == [version   : Nat,
          status    : Decisions \cup {"PENDING"},
          turn      : Nat,
          approvers : Seq(Approvers),
          steps     : Seq(Decisions \cup {"PENDING"})]

SignatureRow == [version : Nat, signer : Users,
                 status : {"PENDING", "SIGNED", "DECLINED"},
                 hash : Contents \cup {"none"}, key : Nat]

Key == [owner : Users, active : BOOLEAN]

\* Every variable keeps its type; a document always shows one of its versions
\* and each chain and signature names one.
TypeOK ==
  /\ status \in Statuses \cup {"NONE"}
  /\ versions \in Seq(VersionRow)
  /\ current \in IF status = "NONE" THEN {0} ELSE DOMAIN versions
  /\ chains \in Seq(Chain)
  /\ \A c \in DOMAIN chains : /\ chains[c].version \in DOMAIN versions
                              /\ chains[c].turn \in DOMAIN chains[c].steps
  /\ signatures \in Seq(SignatureRow)
  /\ \A i \in DOMAIN signatures : signatures[i].version \in DOMAIN versions
  /\ keys \in Seq(Key)
  /\ \A s \in Slots :
       \/ req[s] = Idle
       \/ req[s].op \in {"version", "insert", "delete", "submit", "decide",
                        "finalize", "rotate", "sign", "request", "fulfill",
                        "decline"}
  /\ stored \in [Contents -> {"intact", "replaced", "unreadable"}]
  /\ ledgerIntact \in BOOLEAN
  /\ marks \in [1..MaxVersions -> {"UNKNOWN", "VERIFIED", "MODIFIED"}]
  /\ reported \subseteq DOMAIN versions
  /\ \A k \in Checkers : checks[k].op \in {"idle", "download", "document",
                                         "bytes", "ledger", "record"}

\* "no silent overwrite", "a simple forward integer sequence": when requests
\* are served one at a time, versions are numbered 1, 2, 3... without gap or
\* duplicate, also through restores and failed requests, and the document
\* shows the newest.
VersionsMoveForward ==
  /\ \A v \in DOMAIN versions : versions[v].number = v
  /\ current = Len(versions)

\* A document "needs its current chain resolved ... before another can start"
\* (approval.service.js): one active chain at most, a document under review
\* has one, and one that may be submitted has none.
ActiveChains == {c \in DOMAIN chains : chains[c].status = "PENDING"}

ReviewMatchesChain ==
  /\ Cardinality(ActiveChains) <= 1
  /\ status = "UNDER_REVIEW" => ActiveChains # {}
  /\ status \in SUBMITTABLE_STATUSES => ActiveChains = {}

\* "the chain is sequential": every step before the turn was approved, none
\* after it has been decided, and the chain's outcome is the one its step at
\* the turn was given.  So an active chain can always be decided, an approved
\* one was approved by every approver, and nobody acts after a rejection.
ChainsInOrder ==
  \A c \in DOMAIN chains :
    LET chain == chains[c]
    IN /\ \A k \in DOMAIN chain.steps :
            /\ k < chain.turn => chain.steps[k] = "APPROVED"
            /\ k > chain.turn => chain.steps[k] = "PENDING"
       /\ chain.steps[chain.turn] = chain.status
       /\ chain.status = "APPROVED" => chain.turn = Len(chain.steps)

\* document_versions.is_signed and document_signatures agree, whichever of
\* two answers to one request wins and whatever is rolled back.
SignedFlagTellsSignatures ==
  \A v \in DOMAIN versions :
    versions[v].signed <=> \E i \in DOMAIN signatures :
                             /\ signatures[i].version = v
                             /\ signatures[i].status = "SIGNED"

\* "bound to a version hash": a signature signs the content of the version it
\* was requested for, with a key of its signer, and an unanswered or declined
\* one carries no key.
SignatureBoundToVersion ==
  \A i \in DOMAIN signatures :
    LET g == signatures[i]
    IN IF g.status = "SIGNED"
       THEN /\ g.hash = versions[g.version].content
            /\ g.key \in DOMAIN keys
            /\ keys[g.key].owner = g.signer
       ELSE g.key = 0

\* "A mismatch doesn't just fail the download" (documents.service.js): an
\* INTEGRITY_FAILURE event names every version that is marked MODIFIED, and
\* its bytes were replaced.  The portal reads the document, the bytes and the
\* ledger at different moments while versions are added and things are
\* altered: the verdict it records was true at some moment while it served
\* the request, never a mixture of two.  Of the ledger it is true if verifyChain
\* fails or not, whatever made it fail (AuditLedger, ChainIntact).
ChecksTellTruth ==
  /\ \A v \in DOMAIN versions :
       marks[v] = "MODIFIED" => /\ v \in reported
                                /\ stored[versions[v].content] = "replaced"
  /\ \A k \in Checkers :
       checks[k].op = "record" => checks[k].verdict \in checks[k].held

\* A signing key is rotated, never doubled: a user has one active key at most
\* even when two rotations race.
OneActiveKey == \A u \in Users : Cardinality(ActiveKeys(u)) <= 1

\* "Rows are never deleted or overwritten in place": a request for a
\* signature is answered once.
AnsweredOnce ==
  [][\A i \in DOMAIN signatures :
       /\ i \in DOMAIN signatures'
       /\ signatures[i].status # "PENDING" => signatures'[i] = signatures[i]
    ]_signatures

\* "Closes out a signed document as FINAL - the terminal state"
\* (approval.service.js): it may still be deleted, but goes through no part
\* of its life again.
FinalIsTerminal ==
  [][status = "FINAL" => status' \in {"FINAL", "DELETED"}]_status
=============================================================================
