----------------------------- MODULE Documents ------------------------------
(***************************************************************************)
(* One document (modules/documents/documents.service.js): its status, its  *)
(* versions and the version it shows, and the requests being served.       *)
(* Approval and Signatures act on the same document; DocumentLifecycle     *)
(* puts the three together.                                                *)
(*                                                                         *)
(* As in Evidence, a handler reads and checks without a lock (Load) and    *)
(* its transaction writes later without checking again (Commit).           *)
(*                                                                         *)
(* Left out: titles, types, comments and duplicate warnings, which nothing *)
(* reads again.  The integrity check of a download is in Vault.            *)
(***************************************************************************)
EXTENDS Naturals, Sequences, FiniteSets

CONSTANTS Contents,     \* what a file can contain
          Slots,        \* requests served at the same time
          MaxVersions   \* bound on the document's versions

ASSUME MaxVersionsAssumption == MaxVersions \in Nat \ {0}

VARIABLES status,     \* documents.status, "NONE" before the row exists
          versions,   \* document_versions in the order of their commits
          current,    \* current_version_id, an index of versions
          req         \* req[s]: what slot s serves, or Idle

docVars == <<status, versions, current>>

-----------------------------------------------------------------------------
Statuses == {"DRAFT", "ACTIVE", "UNDER_REVIEW", "APPROVED", "SIGNED", "FINAL",
             "DELETED"}

Idle == [op |-> "idle"]
NoArg == [item |-> 0]

\* Slot s has read the document; arg is what it keeps of what it read and of
\* the caller's input.
Loaded(s, op, arg) ==
  /\ req[s] = Idle /\ status # "NONE"
  /\ req' = [req EXCEPT ![s] = [op |-> op, arg |-> arg]]

Ends(s, op) == /\ req[s].op = op
               /\ req' = [req EXCEPT ![s] = Idle]

\* findLatestVersionForDocument: ORDER BY created_at DESC LIMIT 1.  created_at
\* is now(), the time the inserting transaction began; `began` counts the
\* versions committed before it, and two transactions that began between the
\* same commits may be in either order.
LatestVersions ==
  {v \in DOMAIN versions :
     \A w \in DOMAIN versions : versions[w].began <= versions[v].began}

Version(content, number, began) ==
  [content |-> content, number |-> number, began |-> began, signed |-> FALSE]

-----------------------------------------------------------------------------
DocInit ==
  /\ status = "NONE"
  /\ versions = << >>
  /\ current = 0
  /\ req = [s \in Slots |-> Idle]

\* Mutant: uploadNewDocument forgets updateDocumentCurrentVersion.
UploadWithoutCurrentVersion ==
  /\ status = "NONE"
  /\ status' = "ACTIVE"
  /\ \E c \in Contents : versions' = <<Version(c, 1, 0)>>
  /\ UNCHANGED <<current, req>>

\* uploadNewDocument reads nothing first: one transaction.
UploadNewDocument ==
  /\ status = "NONE"
  /\ status' = "ACTIVE"
  /\ \E c \in Contents : versions' = <<Version(c, 1, 0)>>
  /\ current' = 1
  /\ UNCHANGED req

\* uploadNewVersion: the document was not deleted when it was read.
LoadNewVersion(s) ==
  /\ status # "DELETED" /\ Len(versions) < MaxVersions
  /\ \E c \in Contents, v \in LatestVersions :
       Loaded(s, "version",
              [content |-> c, number |-> versions[v].number + 1])
  /\ UNCHANGED docVars

\* restoreVersion: a copy of an older version, also of a deleted document.
LoadRestore(s) ==
  /\ Len(versions) < MaxVersions
  /\ \E old \in DOMAIN versions, v \in LatestVersions :
       Loaded(s, "version", [content |-> versions[old].content,
                                number  |-> versions[v].number + 1])
  /\ UNCHANGED docVars

\* BEGIN, which fixes created_at.
BeginVersion(s) ==
  /\ req[s].op = "version"
  /\ req' = [req EXCEPT ![s] =
       [op |-> "insert", arg |-> [content |-> req[s].arg.content,
                                  number  |-> req[s].arg.number,
                                  began   |-> Len(versions)]]]
  /\ UNCHANGED docVars

\* Mutant: a restore rewinds current_version_id to the version with the same
\* content instead of the row it inserted.
CommitVersionRewinds(s) ==
  /\ Ends(s, "insert")
  /\ Len(versions) < MaxVersions
  /\ LET new == req[s].arg
     IN /\ versions' = Append(versions,
                              Version(new.content, new.number, new.began))
        /\ current' = CHOOSE v \in DOMAIN versions' :
                        versions'[v].content = new.content
  /\ UNCHANGED status

\* The new row, then current_version_id.
CommitVersion(s) ==
  /\ Ends(s, "insert")
  /\ Len(versions) < MaxVersions
  /\ LET new == req[s].arg
     IN versions' = Append(versions, Version(new.content, new.number, new.began))
  /\ current' = Len(versions')
  /\ UNCHANGED status

\* deleteDocument: status only, whatever it was.
LoadDelete(s) == Loaded(s, "delete", NoArg) /\ UNCHANGED docVars

CommitDelete(s) ==
  /\ Ends(s, "delete")
  /\ status' = "DELETED"
  /\ UNCHANGED <<versions, current>>

\* Any request fails, is rolled back or dies with the process.
Abort(s) ==
  /\ req[s] # Idle
  /\ req' = [req EXCEPT ![s] = Idle]
  /\ UNCHANGED docVars

DocNext ==
  \/ UploadNewDocument
  \/ \E s \in Slots :
       \/ LoadNewVersion(s)
       \/ LoadRestore(s)
       \/ BeginVersion(s)
       \/ CommitVersion(s)
       \/ LoadDelete(s)
       \/ CommitDelete(s)
       \/ Abort(s)
=============================================================================
