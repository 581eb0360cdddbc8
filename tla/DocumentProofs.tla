--------------------------- MODULE DocumentProofs ---------------------------
(***************************************************************************)
(* Proofs about DocumentLifecycle for any contents, approvers and users,   *)
(* any number of requests and of checks under way at the same time, and    *)
(* any bounds; in the last parts, about requests served one at a time, and *)
(* about what DocumentPage and the service then offer.                     *)
(***************************************************************************)
EXTENDS DocumentPage, TLAPS, SequenceTheorems, FiniteSetTheorems

-----------------------------------------------------------------------------
(* The inductive invariant.                                                *)

\* The rows of the document and of its chains.
DocInv ==
  /\ status \in Statuses \cup {"NONE"}
  /\ versions \in Seq(VersionRow)
  /\ Len(versions) <= MaxVersions
  /\ current \in IF status = "NONE" THEN {0} ELSE DOMAIN versions
  /\ status = "NONE" => versions = << >>

ChainInv ==
  /\ chains \in Seq(Chain)
  /\ \A c \in DOMAIN chains : /\ chains[c].version \in DOMAIN versions
                              /\ chains[c].turn \in DOMAIN chains[c].steps

\* The signature rows and the keys.
SignedInv ==
  /\ signatures \in Seq(SignatureRow)
  /\ \A i \in DOMAIN signatures : signatures[i].version \in DOMAIN versions
  /\ keys \in Seq(Key)

UniqueKeyInv == \A u \in Users : \A k, m \in ActiveKeys(u) : k = m

\* What a request that has read goes on with.
ReqOk(r) ==
  r = Idle \/
  /\ r = [op |-> r.op, arg |-> r.arg]
  /\ status # "NONE"
  /\ r.op \in {"version", "insert", "delete", "submit", "decide", "finalize",
               "rotate", "sign", "request", "fulfill", "decline"}
  /\ r.op \in {"version", "insert"} =>
       r.arg.content \in Contents /\ r.arg.number \in Nat
  /\ r.op = "insert" => r.arg.began \in Nat
  /\ r.op = "submit" => /\ r.arg.version \in DOMAIN versions
                        /\ r.arg.approvers \in Seq(Approvers)
                        /\ 1 \in DOMAIN r.arg.approvers
  /\ r.op = "decide" => /\ r.arg.chain \in DOMAIN chains
                        /\ r.arg.step \in DOMAIN chains[r.arg.chain].steps
                        /\ r.arg.decision \in Decisions
  /\ r.op = "rotate" => r.arg.user \in Users
  /\ r.op \in {"sign", "fulfill"} =>
       /\ r.arg = [user |-> r.arg.user, version |-> r.arg.version,
                   item |-> r.arg.item, key |-> r.arg.key,
                   deleted |-> r.arg.deleted]
       /\ r.arg.user \in Users
       /\ r.arg.version \in DOMAIN versions
       /\ r.arg.key # 0 => /\ r.arg.key \in DOMAIN keys
                           /\ keys[r.arg.key].owner = r.arg.user
  /\ r.op = "fulfill" =>
       /\ r.arg.item \in DOMAIN signatures
       /\ signatures[r.arg.item].signer = r.arg.user
       /\ signatures[r.arg.item].version = r.arg.version
  /\ r.op = "request" => r.arg.version \in DOMAIN versions /\ r.arg.to \in Users
  /\ r.op = "decline" => r.arg.item \in DOMAIN signatures

ReqInv == /\ req = [s \in Slots |-> req[s]]
          /\ \A s \in Slots : ReqOk(req[s])

\* The object that signature i signs, as storage returns it.
SignedObject(i) == stored[versions[signatures[i].version].content]

Outcome(versionCheck) == IF versionCheck THEN "AUTHENTIC" ELSE "SUPERSEDED"

\* What a download or a verification has read.  What it found altered is still
\* altered; what is still as the API wrote it was so when it looked.
CheckOk(c) ==
  \/ c = Idle
  \/ /\ c = [op |-> "download", version |-> c.version, same |-> c.same]
     /\ c.version \in DOMAIN versions
     /\ ~c.same => stored[versions[c.version].content] = "replaced"
  \/ /\ c = [op |-> c.op, item |-> c.item, versionCheck |-> c.versionCheck,
             hashCheck |-> c.hashCheck, held |-> c.held]
     /\ c.op \in {"document", "bytes", "ledger"}
     /\ c.item \in DOMAIN signatures
     /\ signatures[c.item].status = "SIGNED"
     /\ c.op = "bytes" => (ledgerIntact /\ SignedObject(c.item) = "intact"
                             => Outcome(c.versionCheck) \in c.held)
     /\ c.op = "ledger" => IF c.hashCheck
                           THEN ledgerIntact => Outcome(c.versionCheck) \in c.held
                           ELSE "TAMPERED" \in c.held
  \/ /\ c = [op |-> "record", item |-> c.item, held |-> c.held,
             verdict |-> c.verdict]
     /\ c.verdict \in c.held

VaultInv ==
  /\ stored \in [Contents -> {"intact", "replaced", "unreadable"}]
  /\ ledgerIntact \in BOOLEAN
  /\ marks \in [1..MaxVersions -> {"UNKNOWN", "VERIFIED", "MODIFIED"}]
  /\ reported \subseteq DOMAIN versions
  /\ \A v \in 1..MaxVersions :
       marks[v] = "MODIFIED" => /\ v \in reported
                                /\ stored[versions[v].content] = "replaced"

CheckInv == /\ checks = [k \in Checkers |-> checks[k]]
            /\ \A k \in Checkers : CheckOk(checks[k])

IInv == /\ DocInv
        /\ ChainInv
        /\ SignedInv
        /\ SignedFlagTellsSignatures
        /\ SignatureBoundToVersion
        /\ UniqueKeyInv
        /\ ReqInv
        /\ VaultInv
        /\ CheckInv

-----------------------------------------------------------------------------
(* What a step leaves of the rows it does not write.                       *)

VersionsKept ==
  \A v \in DOMAIN versions : /\ v \in DOMAIN versions'
                             /\ versions'[v].content = versions[v].content

ChainsKept ==
  \A c \in DOMAIN chains : /\ c \in DOMAIN chains'
                           /\ DOMAIN chains'[c].steps = DOMAIN chains[c].steps

\* An answered request for a signature stays as it is.
SignaturesKept ==
  \A i \in DOMAIN signatures :
    /\ i \in DOMAIN signatures'
    /\ signatures'[i].version = signatures[i].version
    /\ signatures'[i].signer = signatures[i].signer
    /\ signatures[i].status # "PENDING" => signatures'[i] = signatures[i]

KeysKept ==
  \A k \in DOMAIN keys : /\ k \in DOMAIN keys'
                         /\ keys'[k].owner = keys[k].owner

Kept == VersionsKept /\ ChainsKept /\ SignaturesKept /\ KeysKept

(* Sequences are functions of positions.                                   *)
LEMMA Rows ==
  ASSUME DocInv, ChainInv, SignedInv
  PROVE  /\ Len(versions) \in Nat /\ DOMAIN versions = 1..Len(versions)
         /\ Len(chains) \in Nat /\ DOMAIN chains = 1..Len(chains)
         /\ Len(signatures) \in Nat /\ DOMAIN signatures = 1..Len(signatures)
         /\ Len(keys) \in Nat /\ DOMAIN keys = 1..Len(keys)
         /\ \A v \in DOMAIN versions : versions[v] \in VersionRow
         /\ \A c \in DOMAIN chains : chains[c] \in Chain
         /\ \A i \in DOMAIN signatures : signatures[i] \in SignatureRow
         /\ \A k \in DOMAIN keys : keys[k] \in Key
<1>1. /\ Len(versions) \in Nat /\ DOMAIN versions = 1..Len(versions)
      /\ Len(chains) \in Nat /\ DOMAIN chains = 1..Len(chains)
      /\ Len(signatures) \in Nat /\ DOMAIN signatures = 1..Len(signatures)
      /\ Len(keys) \in Nat /\ DOMAIN keys = 1..Len(keys)
  BY LenProperties DEF DocInv, ChainInv, SignedInv
<1>2. QED
  BY <1>1, ElementOfSeq DEF DocInv, ChainInv, SignedInv

(* A row at the end of a sequence.                                         *)
LEMMA Appended ==
  ASSUME NEW S, NEW q \in Seq(S), NEW e \in S, NEW new, new = Append(q, e)
  PROVE  /\ new \in Seq(S) /\ Len(q) \in Nat /\ Len(new) = Len(q) + 1
         /\ DOMAIN new = DOMAIN q \cup {Len(q) + 1}
         /\ Len(q) + 1 \notin DOMAIN q
         /\ new[Len(q) + 1] = e
         /\ \A i \in DOMAIN q : new[i] = q[i]
<1>1. /\ new \in Seq(S) /\ Len(q) \in Nat /\ Len(new) = Len(q) + 1
      /\ DOMAIN q = 1..Len(q) /\ DOMAIN new = 1..(Len(q) + 1)
      /\ new[Len(q) + 1] = e
      /\ \A i \in 1..Len(q) : new[i] = q[i]
  BY AppendProperties, LenProperties
<1>2. QED
  BY <1>1

(* A row of a sequence rewritten.                                          *)
LEMMA Rewritten ==
  ASSUME NEW S, NEW q \in Seq(S), NEW i \in DOMAIN q, NEW e \in S, NEW new,
         new = [q EXCEPT ![i] = e]
  PROVE  /\ new \in Seq(S) /\ Len(new) = Len(q) /\ DOMAIN new = DOMAIN q
         /\ new[i] = e
         /\ \A j \in DOMAIN q : j # i => new[j] = q[j]
<1>1. i \in 1..Len(q) /\ DOMAIN q = 1..Len(q)
  BY LenProperties
<1>2. /\ new \in Seq(S) /\ Len(new) = Len(q)
  BY <1>1, ExceptSeq
<1>3. QED
  BY <1>1, <1>2

(* Requests under way keep what they read.                                 *)
LEMMA ReqStays ==
  ASSUME ReqInv, Kept, status # "NONE" => status' # "NONE",
         req' = req \/ \E s \in Slots : req' = [req EXCEPT ![s] = Idle]
  PROVE  ReqInv'
<1>1. req' = [s \in Slots |-> req'[s]]
  BY DEF ReqInv
<1>2. \A s \in Slots : req'[s] = req[s] \/ req'[s] = Idle
  BY DEF ReqInv
<1>3. ASSUME NEW s \in Slots, req'[s] = req[s], req[s] # Idle
      PROVE  ReqOk(req[s])'
  <2> DEFINE r == req[s]
  <2>1. ReqOk(r) /\ r # Idle
    BY <1>3 DEF ReqInv
  <2>2. /\ DOMAIN versions \subseteq DOMAIN versions'
        /\ DOMAIN signatures \subseteq DOMAIN signatures'
        /\ DOMAIN keys \subseteq DOMAIN keys'
        /\ DOMAIN chains \subseteq DOMAIN chains'
    BY DEF Kept, VersionsKept, ChainsKept, SignaturesKept, KeysKept
  <2>3. r.op = "decide" => /\ r.arg.chain \in DOMAIN chains'
                           /\ r.arg.step \in DOMAIN chains'[r.arg.chain].steps
    BY <2>1 DEF ReqOk, Kept, ChainsKept
  <2>4. r.op \in {"sign", "fulfill"} /\ r.arg.key # 0 =>
          /\ r.arg.key \in DOMAIN keys' /\ keys'[r.arg.key].owner = r.arg.user
    BY <2>1 DEF ReqOk, Kept, KeysKept
  <2>5. r.op = "fulfill" =>
          /\ r.arg.item \in DOMAIN signatures'
          /\ signatures'[r.arg.item].signer = r.arg.user
          /\ signatures'[r.arg.item].version = r.arg.version
    BY <2>1 DEF ReqOk, Kept, SignaturesKept
  <2>6. QED
    BY <1>3, <2>1, <2>2, <2>3, <2>4, <2>5 DEF ReqOk
<1>4. \A s \in Slots : ReqOk(req[s])'
  BY <1>2, <1>3 DEF ReqOk
<1>5. QED
  BY <1>1, <1>4 DEF ReqInv

(* So do downloads and verifications.                                      *)
LEMMA VaultStays ==
  ASSUME VaultInv, CheckInv, SignedInv, VersionsKept, SignaturesKept,
         UNCHANGED vaultVars
  PROVE  VaultInv' /\ CheckInv'
<1>1. /\ stored' = stored /\ ledgerIntact' = ledgerIntact /\ marks' = marks
      /\ reported' = reported /\ checks' = checks
  BY DEF vaultVars
<1>2. VaultInv'
  BY <1>1 DEF VaultInv, VersionsKept
<1>3. ASSUME NEW k \in Checkers PROVE CheckOk(checks[k])'
  <2> DEFINE c == checks[k]
  <2>1. CheckOk(c)
    BY DEF CheckInv
  <2>2. \A v \in DOMAIN versions : v \in DOMAIN versions' /\ versions'[v].content = versions[v].content
    BY DEF VersionsKept
  <2>3. ASSUME c.item \in DOMAIN signatures, signatures[c.item].status = "SIGNED"
        PROVE  /\ c.item \in DOMAIN signatures'
               /\ signatures'[c.item].status = "SIGNED"
               /\ SignedObject(c.item)' = stored[versions[signatures[c.item].version].content]
    BY <1>1, <2>2, <2>3 DEF SignaturesKept, SignedObject, SignedInv
  <2>4. QED
    BY <1>1, <2>1, <2>2, <2>3 DEF CheckOk, SignedObject
<1>4. QED
  BY <1>1, <1>2, <1>3 DEF CheckInv
-----------------------------------------------------------------------------
(* Steps that write no row.                                                *)

LEMMA RequestStep ==
  ASSUME IInv, UNCHANGED <<docVars, chains, sigVars, vaultVars>>,
         NEW s \in Slots, NEW to, req' = [req EXCEPT ![s] = to], ReqOk(to)
  PROVE  IInv' /\ SignaturesKept
<1>1. /\ UNCHANGED <<status, versions, current, chains, signatures, keys>>
      /\ UNCHANGED <<stored, ledgerIntact, marks, reported, checks>>
  BY DEF docVars, sigVars, vaultVars
<1>2. DocInv' /\ ChainInv' /\ SignedInv'
  BY <1>1 DEF IInv, DocInv, ChainInv, SignedInv
<1>3. SignedFlagTellsSignatures' /\ SignatureBoundToVersion' /\ UniqueKeyInv'
  BY <1>1 DEF IInv, SignedFlagTellsSignatures, SignatureBoundToVersion,
              UniqueKeyInv, ActiveKeys
<1>4. VersionsKept /\ SignaturesKept
  BY <1>1 DEF VersionsKept, SignaturesKept
<1>5. VaultInv' /\ CheckInv'
  BY <1>4, VaultStays DEF IInv
<1>6. ReqInv'
  <2>1. ASSUME NEW r, ReqOk(r) PROVE ReqOk(r)'
    BY <1>1, <2>1 DEF ReqOk
  <2>2. ReqOk(to)'
    BY <2>1
  <2>3. \A q \in Slots : ReqOk(req[q])'
    <3>1. SUFFICES ASSUME NEW q \in Slots PROVE ReqOk(req[q])'
      OBVIOUS
    <3>2. CASE q = s
      <4>1. req'[q] = to
        BY <3>2 DEF IInv, ReqInv
      <4>2. QED
        BY <2>2, <4>1 DEF ReqOk
    <3>3. CASE q # s
      <4>1. req'[q] = req[q] /\ ReqOk(req[q])
        BY <3>3 DEF IInv, ReqInv
      <4>2. QED
        BY <1>1, <4>1 DEF ReqOk
    <3>4. QED
      BY <3>2, <3>3
  <2>4. QED
    BY <2>3 DEF IInv, ReqInv
<1>7. QED
  BY <1>2, <1>3, <1>4, <1>5, <1>6 DEF IInv

LEMMA LoadedStep ==
  ASSUME IInv, UNCHANGED <<docVars, chains, sigVars, vaultVars>>,
         NEW s \in Slots, NEW op, NEW arg, Loaded(s, op, arg),
         ReqOk([op |-> op, arg |-> arg])
  PROVE  IInv' /\ SignaturesKept
BY RequestStep DEF Loaded

LEMMA EndsReq ==
  ASSUME ReqInv, NEW s \in Slots, NEW op, op # "idle", Ends(s, op)
  PROVE  /\ req[s] # Idle /\ ReqOk(req[s]) /\ req[s].op = op
         /\ req' = [req EXCEPT ![s] = Idle] /\ status # "NONE"
BY DEF ReqInv, Ends, Idle, ReqOk

-----------------------------------------------------------------------------
(* Steps that write the document, its versions and its chains.             *)

(* The status and the chains change, nothing else does.                    *)
LEMMA StatusStep ==
  ASSUME IInv, NEW s \in Slots, req' = [req EXCEPT ![s] = Idle],
         status # "NONE", status' \in Statuses, ChainInv', ChainsKept,
         UNCHANGED <<versions, current, sigVars, vaultVars>>
  PROVE  IInv' /\ SignaturesKept
<1>1. UNCHANGED <<versions, current, signatures, keys>>
  BY DEF sigVars
<1>2. DocInv' /\ SignedInv'
  BY <1>1 DEF IInv, DocInv, SignedInv, Statuses
<1>3. SignedFlagTellsSignatures' /\ SignatureBoundToVersion' /\ UniqueKeyInv'
  BY <1>1 DEF IInv, SignedFlagTellsSignatures, SignatureBoundToVersion,
              UniqueKeyInv, ActiveKeys
<1>4. Kept
  BY <1>1 DEF Kept, VersionsKept, SignaturesKept, KeysKept
<1>5. VaultInv' /\ CheckInv'
  BY <1>4, VaultStays DEF IInv, Kept
<1>6. status' # "NONE"
  BY DEF Statuses
<1>7. ReqInv'
  BY <1>4, <1>6, ReqStays DEF IInv
<1>8. QED
  BY <1>2, <1>3, <1>4, <1>5, <1>7 DEF IInv, Kept

(* A version is added and shown.                                           *)
LEMMA VersionStep ==
  ASSUME IInv, NEW row \in VersionRow, ~row.signed,
         versions' = Append(versions, row), current' = Len(versions) + 1,
         Len(versions) < MaxVersions, status' \in Statuses,
         UNCHANGED <<chains, sigVars, vaultVars>>,
         req' = req \/ \E s \in Slots : req' = [req EXCEPT ![s] = Idle]
  PROVE  IInv' /\ SignaturesKept
<1> DEFINE last == Len(versions) + 1
<1>1. /\ versions' \in Seq(VersionRow) /\ Len(versions) \in Nat
      /\ Len(versions') = last /\ DOMAIN versions' = DOMAIN versions \cup {last}
      /\ last \notin DOMAIN versions /\ versions'[last] = row
      /\ \A v \in DOMAIN versions : versions'[v] = versions[v]
  BY Appended DEF IInv, DocInv
<1>2. UNCHANGED <<chains, signatures, keys>>
  BY DEF sigVars
<1>3. Kept
  BY <1>1, <1>2 DEF Kept, VersionsKept, ChainsKept, SignaturesKept, KeysKept
<1>4. DocInv'
  <2>1. Len(versions') <= MaxVersions
    BY <1>1, MaxVersionsAssumption
  <2>2. QED
    BY <1>1, <2>1 DEF DocInv, Statuses
<1>5. ChainInv' /\ SignedInv'
  BY <1>1, <1>2 DEF IInv, ChainInv, SignedInv
<1>6. SignedFlagTellsSignatures'
  BY <1>1, <1>2 DEF IInv, SignedFlagTellsSignatures, SignedInv
<1>7. SignatureBoundToVersion' /\ UniqueKeyInv'
  BY <1>1, <1>2 DEF IInv, SignatureBoundToVersion, SignedInv, UniqueKeyInv,
                    ActiveKeys
<1>8. VaultInv' /\ CheckInv'
  BY <1>3, VaultStays DEF IInv, Kept
<1>9. ReqInv'
  BY <1>3, ReqStays DEF IInv, Statuses
<1>10. QED
  BY <1>3, <1>4, <1>5, <1>6, <1>7, <1>8, <1>9 DEF IInv, Kept

LEMMA DocStep ==
  ASSUME IInv, DocNext, UNCHANGED <<chains, sigVars, vaultVars>>
  PROVE  IInv' /\ SignaturesKept
<1>1. CASE UploadNewDocument
  <2>1. PICK c \in Contents :
          /\ status = "NONE" /\ status' = "ACTIVE" /\ current' = 1
          /\ versions' = <<Version(c, 1, 0)>> /\ UNCHANGED req
    BY <1>1 DEF UploadNewDocument
  <2> DEFINE row == Version(c, 1, 0)
  <2>2. row \in VersionRow /\ ~row.signed
    BY DEF Version, VersionRow
  <2> HIDE DEF row
  <2>3. versions = << >> /\ Len(versions) = 0
    BY <2>1 DEF IInv, DocInv
  <2>4. versions' = Append(versions, row) /\ current' = Len(versions) + 1
    BY <2>1, <2>3 DEF row
  <2>5. Len(versions) < MaxVersions
    BY <2>3, MaxVersionsAssumption
  <2>6. status' \in Statuses
    BY <2>1 DEF Statuses
  <2>7. QED
    BY <2>1, <2>2, <2>4, <2>5, <2>6, VersionStep
<1>2. ASSUME NEW s \in Slots, LoadNewVersion(s) PROVE IInv' /\ SignaturesKept
  <2>1. PICK c \in Contents, v \in LatestVersions :
          Loaded(s, "version", [content |-> c, number |-> versions[v].number + 1])
    BY <1>2 DEF LoadNewVersion
  <2>2. versions[v].number + 1 \in Nat
    BY Rows DEF IInv, LatestVersions, VersionRow
  <2>3. ReqOk([op |-> "version", arg |-> [content |-> c, number |-> versions[v].number + 1]])
    BY <2>1, <2>2 DEF ReqOk, Loaded
  <2>4. QED
    BY <1>2, <2>1, <2>3, LoadedStep DEF LoadNewVersion
<1>3. ASSUME NEW s \in Slots, LoadRestore(s) PROVE IInv' /\ SignaturesKept
  <2>1. PICK old \in DOMAIN versions, v \in LatestVersions :
          Loaded(s, "version", [content |-> versions[old].content,
                                number |-> versions[v].number + 1])
    BY <1>3 DEF LoadRestore
  <2>2. versions[v].number + 1 \in Nat /\ versions[old].content \in Contents
    BY Rows DEF IInv, LatestVersions, VersionRow
  <2>3. ReqOk([op |-> "version", arg |-> [content |-> versions[old].content,
                                          number |-> versions[v].number + 1]])
    BY <2>1, <2>2 DEF ReqOk, Loaded
  <2>4. QED
    BY <1>3, <2>1, <2>3, LoadedStep DEF LoadRestore
<1>4. ASSUME NEW s \in Slots, BeginVersion(s) PROVE IInv' /\ SignaturesKept
  <2> DEFINE r == req[s]
             new == [content |-> r.arg.content, number |-> r.arg.number,
                     began |-> Len(versions)]
             to == [op |-> "insert", arg |-> new]
  <2>1. r.op = "version" /\ r # Idle /\ ReqOk(r)
    BY <1>4 DEF BeginVersion, IInv, ReqInv, Idle
  <2>2. req' = [req EXCEPT ![s] = to]
    BY <1>4 DEF BeginVersion
  <2>3. Len(versions) \in Nat
    BY Rows DEF IInv
  <2>4. ReqOk(to)
    BY <2>1, <2>3 DEF ReqOk
  <2> HIDE DEF to
  <2>5. QED
    BY <1>4, <2>2, <2>4, RequestStep DEF BeginVersion
<1>5. ASSUME NEW s \in Slots, CommitVersion(s) PROVE IInv' /\ SignaturesKept
  <2> DEFINE new == req[s].arg
             row == Version(new.content, new.number, new.began)
  <2>1. /\ Ends(s, "insert") /\ Len(versions) < MaxVersions
        /\ versions' = Append(versions, row) /\ current' = Len(versions')
        /\ status' = status
    BY <1>5 DEF CommitVersion
  <2>2. /\ ReqOk(req[s]) /\ req[s] # Idle /\ req[s].op = "insert"
        /\ req' = [req EXCEPT ![s] = Idle] /\ status # "NONE"
    BY <2>1, EndsReq DEF IInv
  <2>3. row \in VersionRow /\ ~row.signed
    BY <2>2 DEF ReqOk, Version, VersionRow
  <2> HIDE DEF row
  <2>4. current' = Len(versions) + 1
    BY <2>1, <2>3, Appended DEF IInv, DocInv
  <2>5. status' \in Statuses
    BY <2>1, <2>2 DEF IInv, DocInv
  <2>6. QED
    BY <2>1, <2>2, <2>3, <2>4, <2>5, VersionStep
<1>6. ASSUME NEW s \in Slots, LoadDelete(s) PROVE IInv' /\ SignaturesKept
  <2>1. ReqOk([op |-> "delete", arg |-> NoArg])
    BY <1>6 DEF LoadDelete, Loaded, ReqOk
  <2>2. QED
    BY <1>6, <2>1, LoadedStep DEF LoadDelete
<1>7. ASSUME NEW s \in Slots, CommitDelete(s) PROVE IInv' /\ SignaturesKept
  <2>1. /\ req' = [req EXCEPT ![s] = Idle] /\ status # "NONE"
        /\ status' = "DELETED" /\ UNCHANGED <<versions, current>>
    BY <1>7, EndsReq DEF CommitDelete, IInv
  <2>2. ChainInv' /\ ChainsKept /\ status' \in Statuses
    BY <2>1 DEF IInv, ChainInv, ChainsKept, Statuses
  <2>3. QED
    BY <2>1, <2>2, StatusStep
<1>8. ASSUME NEW s \in Slots, Abort(s) PROVE IInv' /\ SignaturesKept
  <2>1. ReqOk(Idle)
    BY DEF ReqOk
  <2>2. QED
    BY <1>8, <2>1, RequestStep DEF Abort
<1>9. QED
  BY <1>1, <1>2, <1>3, <1>4, <1>5, <1>6, <1>7, <1>8 DEF DocNext

(* An approval chain.                                                      *)
LEMMA ApproverListType ==
  ASSUME NEW u, NEW l \in ApproverLists(u)
  PROVE  l \in Seq(Approvers) /\ 1 \in DOMAIN l
<1>1. PICK n \in 1..MaxApprovers : l \in [1..n -> Approvers \ {u}]
  BY DEF ApproverLists
<1>2. n \in Nat /\ n >= 1
  BY MaxApproversAssumption
<1>3. l \in [1..n -> Approvers]
  BY <1>1
<1>4. QED
  BY <1>2, <1>3, SeqDef

LEMMA NewChainType ==
  ASSUME NEW v \in Nat, NEW l \in Seq(Approvers), 1 \in DOMAIN l
  PROVE  /\ NewChain(v, l) \in Chain
         /\ NewChain(v, l).version = v
         /\ NewChain(v, l).turn \in DOMAIN NewChain(v, l).steps
<1>1. DOMAIN l = 1..Len(l) /\ Len(l) \in Nat
  BY LenProperties
<1> DEFINE steps == [i \in DOMAIN l |-> "PENDING"]
<1>2. steps \in [1..Len(l) -> Decisions \cup {"PENDING"}]
  BY <1>1
<1>3. steps \in Seq(Decisions \cup {"PENDING"}) /\ DOMAIN steps = DOMAIN l
  BY <1>1, <1>2, SeqDef
<1> HIDE DEF steps
<1>4. NewChain(v, l) = [version |-> v, status |-> "PENDING", turn |-> 1,
                        approvers |-> l, steps |-> steps]
  BY DEF NewChain, steps
<1>5. QED
  BY <1>3, <1>4 DEF Chain

(* A decided step.                                                         *)
LEMMA DecidedType ==
  ASSUME NEW chain \in Chain, NEW k \in DOMAIN chain.steps,
         NEW decision \in Decisions, NEW outcome \in Decisions \cup {"PENDING"},
         NEW turn \in DOMAIN chain.steps
  PROVE  /\ Decided(chain, k, decision, outcome, turn) \in Chain
         /\ DOMAIN Decided(chain, k, decision, outcome, turn).steps
              = DOMAIN chain.steps
<1>1. chain.steps \in Seq(Decisions \cup {"PENDING"})
  BY DEF Chain
<1> DEFINE steps == [chain.steps EXCEPT ![k] = decision]
<1>2. /\ steps \in Seq(Decisions \cup {"PENDING"})
      /\ DOMAIN steps = DOMAIN chain.steps
  BY <1>1, Rewritten
<1>3. turn \in Nat
  BY <1>1, LenProperties
<1> HIDE DEF steps
<1>4. Decided(chain, k, decision, outcome, turn)
        = [version |-> chain.version, status |-> outcome, turn |-> turn,
           approvers |-> chain.approvers, steps |-> steps]
  BY DEF Decided, steps
<1>5. QED
  BY <1>2, <1>3, <1>4 DEF Chain
LEMMA DecidedStep ==
  ASSUME IInv, NEW s \in Slots, req' = [req EXCEPT ![s] = Idle],
         status # "NONE", status' \in Statuses,
         NEW c \in DOMAIN chains, NEW k \in DOMAIN chains[c].steps,
         NEW decision \in Decisions, NEW outcome \in Decisions \cup {"PENDING"},
         NEW turn \in DOMAIN chains[c].steps,
         chains' = [chains EXCEPT ![c] = Decided(@, k, decision, outcome, turn)],
         UNCHANGED <<versions, current, sigVars, vaultVars>>
  PROVE  IInv' /\ SignaturesKept
<1> DEFINE row == Decided(chains[c], k, decision, outcome, turn)
<1>1. chains' = [chains EXCEPT ![c] = row]
  OBVIOUS
<1>2. chains[c] \in Chain
  BY Rows DEF IInv
<1>3. /\ row \in Chain /\ DOMAIN row.steps = DOMAIN chains[c].steps
  BY <1>2, DecidedType
<1>4. row.version = chains[c].version /\ row.turn = turn
  BY DEF Decided
<1> HIDE DEF row
<1>5. /\ chains' \in Seq(Chain) /\ DOMAIN chains' = DOMAIN chains
      /\ chains'[c] = row
      /\ \A d \in DOMAIN chains : d # c => chains'[d] = chains[d]
  BY <1>1, <1>3, Rewritten DEF IInv, ChainInv
<1>6. ChainsKept
  BY <1>3, <1>5 DEF ChainsKept
<1>7. ChainInv'
  <2>1. /\ chains'[c].version = chains[c].version
        /\ chains'[c].turn \in DOMAIN chains'[c].steps
    BY <1>3, <1>4, <1>5
  <2>2. QED
    BY <1>5, <2>1 DEF IInv, ChainInv
<1>8. QED
  BY <1>6, <1>7, StatusStep

LEMMA ApprovalStep ==
  ASSUME IInv, ApprovalNext, UNCHANGED <<sigVars, vaultVars>>
  PROVE  IInv' /\ SignaturesKept
<1>1. ASSUME NEW s \in Slots, CommitSubmit(s) PROVE IInv' /\ SignaturesKept
  <2> DEFINE row == NewChain(req[s].arg.version, req[s].arg.approvers)
  <2>1. /\ req' = [req EXCEPT ![s] = Idle] /\ status # "NONE"
        /\ chains' = Append(chains, row) /\ status' = "UNDER_REVIEW"
        /\ UNCHANGED <<versions, current>>
        /\ ReqOk(req[s]) /\ req[s] # Idle /\ req[s].op = "submit"
    BY <1>1, EndsReq DEF CommitSubmit, IInv
  <2>2. /\ req[s].arg.version \in DOMAIN versions
        /\ req[s].arg.approvers \in Seq(Approvers)
        /\ 1 \in DOMAIN req[s].arg.approvers
    BY <2>1 DEF ReqOk
  <2>3. req[s].arg.version \in Nat
    BY <2>2, Rows DEF IInv
  <2>4. /\ row \in Chain /\ row.version \in DOMAIN versions
        /\ row.turn \in DOMAIN row.steps
    BY <2>2, <2>3, NewChainType
  <2> HIDE DEF row
  <2>5. /\ chains' \in Seq(Chain)
        /\ DOMAIN chains' = DOMAIN chains \cup {Len(chains) + 1}
        /\ chains'[Len(chains) + 1] = row
        /\ \A c \in DOMAIN chains : chains'[c] = chains[c]
    BY <2>1, <2>4, Appended DEF IInv, ChainInv
  <2>6. ChainInv' /\ ChainsKept
    BY <2>1, <2>4, <2>5 DEF IInv, ChainInv, ChainsKept
  <2>7. status' \in Statuses
    BY <2>1 DEF Statuses
  <2>8. QED
    BY <2>1, <2>6, <2>7, StatusStep
<1>2. ASSUME NEW s \in Slots, CommitRejection(s) PROVE IInv' /\ SignaturesKept
  <2>1. /\ ReqOk(req[s]) /\ req[s] # Idle /\ req[s].op = "decide"
        /\ req' = [req EXCEPT ![s] = Idle] /\ status # "NONE"
    BY <1>2, EndsReq DEF CommitRejection, IInv
  <2>2. /\ req[s].arg.chain \in DOMAIN chains
        /\ req[s].arg.decision \in Decisions
        /\ req[s].arg.step \in DOMAIN chains[req[s].arg.chain].steps
    BY <2>1 DEF ReqOk
  <2>3. status' \in Statuses
    BY <1>2 DEF CommitRejection, Statuses
  <2>4. QED
    BY <1>2, <2>1, <2>2, <2>3, DecidedStep DEF CommitRejection
<1>3. ASSUME NEW s \in Slots, CommitApproval(s) PROVE IInv' /\ SignaturesKept
  <2> DEFINE chain == chains[req[s].arg.chain]
             k == req[s].arg.step
             last == k = Len(chain.steps)
             outcome == IF last THEN "APPROVED" ELSE "PENDING"
             turn == IF last THEN k ELSE k + 1
  <2>1. /\ ReqOk(req[s]) /\ req[s] # Idle /\ req[s].op = "decide"
        /\ req' = [req EXCEPT ![s] = Idle] /\ status # "NONE"
    BY <1>3, EndsReq DEF CommitApproval, IInv
  <2>2. /\ req[s].arg.decision = "APPROVED"
        /\ chains' = [chains EXCEPT ![req[s].arg.chain] =
                        Decided(@, k, "APPROVED", outcome, turn)]
        /\ status' = IF last THEN "APPROVED" ELSE status
        /\ UNCHANGED <<versions, current>>
    BY <1>3 DEF CommitApproval
  <2>3. /\ outcome \in Decisions \cup {"PENDING"} /\ "APPROVED" \in Decisions
        /\ req[s].arg.chain \in DOMAIN chains /\ k \in DOMAIN chain.steps
    BY <2>1 DEF Decisions, ReqOk
  <2>4. turn \in DOMAIN chain.steps
    <3>1. k \in DOMAIN chain.steps /\ req[s].arg.chain \in DOMAIN chains
      BY <2>1 DEF ReqOk
    <3>2. chain.steps \in Seq(Decisions \cup {"PENDING"})
      BY <3>1, Rows DEF IInv, Chain
    <3>3. DOMAIN chain.steps = 1..Len(chain.steps) /\ Len(chain.steps) \in Nat
      BY <3>2, LenProperties
    <3>4. QED
      BY <3>1, <3>3
  <2>5. status' \in Statuses
    BY <2>1, <2>2 DEF Statuses, IInv, DocInv
  <2> HIDE DEF outcome, turn
  <2>6. QED
    BY <2>1, <2>2, <2>3, <2>4, <2>5, DecidedStep
<1>4. ASSUME NEW s \in Slots, LoadFinalize(s) PROVE IInv' /\ SignaturesKept
  <2>1. ReqOk([op |-> "finalize", arg |-> NoArg])
    BY <1>4 DEF LoadFinalize, Loaded, ReqOk
  <2>2. QED
    BY <1>4, <2>1, LoadedStep DEF LoadFinalize
<1>5. ASSUME NEW s \in Slots, CommitFinalize(s) PROVE IInv' /\ SignaturesKept
  <2>1. /\ req' = [req EXCEPT ![s] = Idle] /\ status # "NONE"
        /\ status' = "FINAL" /\ UNCHANGED <<versions, current, chains>>
    BY <1>5, EndsReq DEF CommitFinalize, IInv
  <2>2. ChainInv' /\ ChainsKept /\ status' \in Statuses
    BY <2>1 DEF IInv, ChainInv, ChainsKept, Statuses
  <2>3. QED
    BY <2>1, <2>2, StatusStep
<1>6. ASSUME NEW s \in Slots, NEW u \in Approvers, LoadSubmit(s, u)
      PROVE  IInv' /\ SignaturesKept
  <2>1. PICK l \in ApproverLists(u) :
          Loaded(s, "submit", [version |-> current, approvers |-> l])
    BY <1>6 DEF LoadSubmit
  <2>2. current \in DOMAIN versions /\ status # "NONE"
    BY <2>1 DEF IInv, DocInv, Loaded
  <2>3. ReqOk([op |-> "submit", arg |-> [version |-> current, approvers |-> l]])
    BY <2>2, ApproverListType DEF ReqOk
  <2>4. QED
    BY <1>6, <2>1, <2>3, LoadedStep DEF LoadSubmit
<1>7. ASSUME NEW s \in Slots, NEW u \in Approvers, LoadDecide(s, u)
      PROVE  IInv' /\ SignaturesKept
  <2>1. PICK c \in DOMAIN chains, d \in Decisions :
          \E k \in DOMAIN chains[c].steps :
            Loaded(s, "decide", [chain |-> c, step |-> k, decision |-> d])
    BY <1>7 DEF LoadDecide
  <2>2. PICK k \in DOMAIN chains[c].steps :
          Loaded(s, "decide", [chain |-> c, step |-> k, decision |-> d])
    BY <2>1
  <2>3. ReqOk([op |-> "decide", arg |-> [chain |-> c, step |-> k, decision |-> d]])
    BY <2>2 DEF ReqOk, Loaded
  <2>4. QED
    BY <1>7, <2>2, <2>3, LoadedStep DEF LoadDecide
<1>8. QED
  BY <1>1, <1>2, <1>3, <1>4, <1>5, <1>6, <1>7 DEF ApprovalNext
-----------------------------------------------------------------------------
(* Steps that write signatures and keys.                                   *)

(* A key is replaced.                                                      *)
LEMMA RotateStep ==
  ASSUME IInv, NEW s \in Slots, CommitRotate(s), UNCHANGED <<chains, vaultVars>>
  PROVE  IInv' /\ SignaturesKept
<1> DEFINE u == req[s].arg.user
           old == req[s].arg.revokes
           rest == [k \in DOMAIN keys |->
                      IF k \in old THEN [keys[k] EXCEPT !.active = FALSE]
                      ELSE keys[k]]
           new == [owner |-> u, active |-> TRUE]
<1>1. /\ keys' = Append(rest, new) /\ old = ActiveKeys(u)
      /\ Ends(s, "rotate") /\ UNCHANGED <<docVars, signatures>>
  BY DEF CommitRotate
<1>2. /\ ReqOk(req[s]) /\ req[s] # Idle /\ req[s].op = "rotate"
      /\ req' = [req EXCEPT ![s] = Idle] /\ status # "NONE"
  BY <1>1, EndsReq DEF IInv
<1>3. UNCHANGED <<status, versions, current, signatures, chains>>
  BY <1>1 DEF docVars
<1>4. u \in Users
  BY <1>2 DEF ReqOk
<1> HIDE DEF u, old
<1>5. DOMAIN keys = 1..Len(keys) /\ Len(keys) \in Nat /\ \A k \in DOMAIN keys : keys[k] \in Key
  BY Rows DEF IInv
<1>6. /\ DOMAIN rest = DOMAIN keys
      /\ \A k \in DOMAIN keys :
           /\ rest[k] \in Key /\ rest[k].owner = keys[k].owner
           /\ rest[k].active <=> keys[k].active /\ k \notin old
  BY <1>5 DEF Key
<1>7. rest \in Seq(Key) /\ Len(rest) = Len(keys)
  <2> HIDE DEF rest
  <2>1. rest \in [1..Len(keys) -> Key]
    <3>1. rest = [k \in DOMAIN keys |-> rest[k]]
      BY DEF rest
    <3>2. QED
      BY <1>5, <1>6, <3>1
  <2>2. rest \in Seq(Key)
    BY <1>5, <2>1, SeqDef
  <2>3. QED
    BY <1>5, <1>6, <2>2, LenProperties
<1>8. new \in Key /\ new.owner = u /\ new.active
  BY <1>4 DEF Key
<1> HIDE DEF rest, new
<1>9. /\ keys' \in Seq(Key)
      /\ DOMAIN keys' = DOMAIN keys \cup {Len(keys) + 1}
      /\ Len(keys) + 1 \notin DOMAIN keys
      /\ keys'[Len(keys) + 1] = new
      /\ \A k \in DOMAIN keys : keys'[k] = rest[k]
  BY <1>1, <1>6, <1>7, <1>8, Appended
<1>10. Kept
  BY <1>3, <1>6, <1>9 DEF Kept, VersionsKept, ChainsKept, SignaturesKept, KeysKept
<1>11. DocInv' /\ ChainInv'
  BY <1>3 DEF IInv, DocInv, ChainInv
<1>12. SignedInv' /\ SignedFlagTellsSignatures'
  BY <1>3, <1>9 DEF IInv, SignedInv, SignedFlagTellsSignatures
<1>13. SignatureBoundToVersion'
  BY <1>3, <1>6, <1>9 DEF IInv, SignatureBoundToVersion
<1>14. UniqueKeyInv'
  <2>1. ASSUME NEW w \in Users PROVE \A k, m \in ActiveKeys(w)' : k = m
    <3>1. CASE w = u
      <4>1. ActiveKeys(w)' \subseteq {Len(keys) + 1}
        <5>1. SUFFICES ASSUME NEW k \in DOMAIN keys, keys'[k].owner = w,
                              keys'[k].active
                       PROVE  FALSE
          BY <1>9 DEF ActiveKeys
        <5>2. keys[k].owner = u /\ keys[k].active /\ k \notin old
          BY <1>6, <1>9, <3>1, <5>1
        <5>3. QED
          BY <1>1, <5>2 DEF ActiveKeys
      <4>2. QED
        BY <4>1
    <3>2. CASE w # u
      <4>1. ActiveKeys(w)' \subseteq ActiveKeys(w)
        BY <1>6, <1>8, <1>9, <3>2 DEF ActiveKeys
      <4>2. QED
        BY <4>1 DEF IInv, UniqueKeyInv
    <3>3. QED
      BY <3>1, <3>2
  <2>2. QED
    BY <2>1 DEF UniqueKeyInv
<1>15. VaultInv' /\ CheckInv'
  BY <1>10, VaultStays DEF IInv, Kept
<1>16. ReqInv'
  BY <1>2, <1>3, <1>10, ReqStays DEF IInv
<1>17. QED
  BY <1>10, <1>11, <1>12, <1>13, <1>14, <1>15, <1>16 DEF IInv, Kept

(* Rows that were signed: the version is marked and the status follows.    *)
LEMMA MarkedVersions ==
  ASSUME IInv, NEW s \in Slots, MarkSigned(s),
         req[s].arg.version \in DOMAIN versions, status # "NONE"
  PROVE  /\ DocInv' /\ status' # "NONE" /\ DOMAIN versions' = DOMAIN versions
         /\ \A v \in DOMAIN versions :
              /\ versions'[v].content = versions[v].content
              /\ versions'[v].signed <=> versions[v].signed \/ v = req[s].arg.version
<1> DEFINE v0 == req[s].arg.version
           row == [versions[v0] EXCEPT !.signed = TRUE]
<1>1. versions' = [versions EXCEPT ![v0] = row] /\ current' = current
  BY DEF MarkSigned
<1>2. status' \in Statuses
  BY DEF MarkSigned, IInv, DocInv, Statuses
<1> HIDE DEF v0
<1>3. versions[v0] \in VersionRow /\ v0 \in DOMAIN versions
  BY Rows DEF IInv, v0
<1>4. row \in VersionRow /\ row.content = versions[v0].content /\ row.signed
  BY <1>3 DEF VersionRow
<1> HIDE DEF row
<1>5. /\ versions' \in Seq(VersionRow) /\ Len(versions') = Len(versions)
      /\ DOMAIN versions' = DOMAIN versions /\ versions'[v0] = row
      /\ \A v \in DOMAIN versions : v # v0 => versions'[v] = versions[v]
  BY <1>1, <1>3, <1>4, Rewritten DEF IInv, DocInv
<1>6. DocInv' /\ status' # "NONE"
  BY <1>1, <1>2, <1>5 DEF IInv, DocInv, Statuses
<1>7. \A v \in DOMAIN versions :
        /\ versions'[v].content = versions[v].content
        /\ versions'[v].signed <=> versions[v].signed \/ v = v0
  BY <1>4, <1>5, Rows DEF IInv, VersionRow
<1>8. QED
  BY <1>5, <1>6, <1>7 DEF v0

(* A row is written over a pending one or after the last one.              *)
LEMMA SignedStep ==
  ASSUME IInv, NEW s \in Slots, req' = [req EXCEPT ![s] = Idle],
         NEW i \in Nat, NEW row \in SignatureRow,
         signatures' \in Seq(SignatureRow),
         DOMAIN signatures' = DOMAIN signatures \cup {i},
         signatures'[i] = row,
         \A j \in DOMAIN signatures : j # i => signatures'[j] = signatures[j],
         i \in DOMAIN signatures => /\ signatures[i].status = "PENDING"
                                    /\ signatures[i].version = row.version
                                    /\ signatures[i].signer = row.signer,
         row.version \in DOMAIN versions, status # "NONE", status' # "NONE",
         DocInv', UNCHANGED <<chains, keys, vaultVars>>,
         DOMAIN versions' = DOMAIN versions,
         \A v \in DOMAIN versions :
           /\ versions'[v].content = versions[v].content
           /\ versions'[v].signed <=>
                versions[v].signed \/ (row.status = "SIGNED" /\ v = row.version),
         IF row.status = "SIGNED"
         THEN /\ row.hash = versions[row.version].content
              /\ row.key \in DOMAIN keys /\ keys[row.key].owner = row.signer
         ELSE row.key = 0
  PROVE  IInv' /\ SignaturesKept
<1>1. Kept
  BY DEF Kept, VersionsKept, ChainsKept, SignaturesKept, KeysKept
<1>2. ChainInv'
  BY DEF IInv, ChainInv
<1>3. SignedInv'
  BY DEF IInv, SignedInv
<1>4. SignedFlagTellsSignatures'
  <2>1. SUFFICES ASSUME NEW v \in DOMAIN versions
                 PROVE  versions'[v].signed <=>
                          \E j \in DOMAIN signatures' :
                            /\ signatures'[j].version = v
                            /\ signatures'[j].status = "SIGNED"
    BY DEF SignedFlagTellsSignatures
  <2>2. versions[v].signed <=> \E j \in DOMAIN signatures :
                                 /\ signatures[j].version = v
                                 /\ signatures[j].status = "SIGNED"
    BY DEF IInv, SignedFlagTellsSignatures
  <2>3. ASSUME NEW j \in DOMAIN signatures, signatures[j].version = v,
               signatures[j].status = "SIGNED"
        PROVE  j \in DOMAIN signatures' /\ signatures'[j] = signatures[j]
    BY <2>3
  <2>4. ASSUME NEW j \in DOMAIN signatures', signatures'[j].version = v,
               signatures'[j].status = "SIGNED"
        PROVE  \/ j \in DOMAIN signatures /\ signatures'[j] = signatures[j]
               \/ row.status = "SIGNED" /\ v = row.version
    BY <2>4
  <2>5. QED
    BY <2>2, <2>3, <2>4
<1>5. SignatureBoundToVersion'
  <2>1. SUFFICES ASSUME NEW j \in DOMAIN signatures'
                 PROVE  IF signatures'[j].status = "SIGNED"
                        THEN /\ signatures'[j].hash
                                  = versions'[signatures'[j].version].content
                             /\ signatures'[j].key \in DOMAIN keys
                             /\ keys[signatures'[j].key].owner = signatures'[j].signer
                        ELSE signatures'[j].key = 0
    BY DEF SignatureBoundToVersion
  <2>2. CASE j = i
    BY <2>2
  <2>3. CASE j # i
    <3>1. j \in DOMAIN signatures /\ signatures'[j] = signatures[j]
      BY <2>3
    <3>2. signatures[j].version \in DOMAIN versions
      BY <3>1 DEF IInv, SignedInv
    <3>3. QED
      BY <3>1, <3>2 DEF IInv, SignatureBoundToVersion
  <2>4. QED
    BY <2>2, <2>3
<1>6. UniqueKeyInv'
  BY DEF IInv, UniqueKeyInv, ActiveKeys
<1>7. VaultInv' /\ CheckInv'
  BY <1>1, VaultStays DEF IInv, Kept
<1>8. ReqInv'
  BY <1>1, ReqStays DEF IInv
<1>9. QED
  BY <1>1, <1>2, <1>3, <1>4, <1>5, <1>6, <1>7, <1>8 DEF IInv, Kept
LEMMA SigningReq ==
  ASSUME IInv, NEW s \in Slots, req[s].op \in {"sign", "fulfill"}, req[s] # Idle
  PROVE  /\ ReqOk(req[s]) /\ status # "NONE"
         /\ req[s].arg.user \in Users /\ req[s].arg.version \in DOMAIN versions
         /\ versions[req[s].arg.version] \in VersionRow
         /\ req[s].arg.key # 0 => /\ req[s].arg.key \in DOMAIN keys
                                  /\ keys[req[s].arg.key].owner = req[s].arg.user
BY Rows DEF IInv, ReqInv, ReqOk

(* A row that holds a signature.                                           *)
LEMMA SignedRow ==
  ASSUME IInv, NEW v \in DOMAIN versions, NEW u \in Users, NEW k \in DOMAIN keys
  PROVE  /\ Signed(v, u, k) \in SignatureRow
         /\ Signed(v, u, k).version = v /\ Signed(v, u, k).signer = u
         /\ Signed(v, u, k).status = "SIGNED" /\ Signed(v, u, k).key = k
         /\ Signed(v, u, k).hash = versions[v].content
<1>1. v \in Nat /\ k \in Nat /\ versions[v].content \in Contents
  BY Rows DEF IInv, VersionRow
<1>2. QED
  BY <1>1 DEF Signed, SignatureRow

LEMMA CommitSignStep ==
  ASSUME IInv, NEW s \in Slots, CommitSign(s), UNCHANGED <<chains, vaultVars>>
  PROVE  IInv' /\ SignaturesKept
<1> DEFINE a == req[s].arg
           row == Signed(a.version, a.user, a.key)
           i == Len(signatures) + 1
<1>1. /\ signatures' = Append(signatures, row) /\ MarkSigned(s)
      /\ a.key # 0 /\ UNCHANGED keys /\ req[s].op = "sign" /\ req[s] # Idle
      /\ req' = [req EXCEPT ![s] = Idle]
  BY DEF CommitSign, Ends, Idle
<1>2. /\ a.user \in Users /\ a.version \in DOMAIN versions /\ status # "NONE"
      /\ a.key \in DOMAIN keys /\ keys[a.key].owner = a.user
  BY <1>1, SigningReq
<1>3. /\ DocInv' /\ status' # "NONE" /\ DOMAIN versions' = DOMAIN versions
      /\ \A v \in DOMAIN versions :
           /\ versions'[v].content = versions[v].content
           /\ versions'[v].signed <=> versions[v].signed \/ v = a.version
  BY <1>1, <1>2, MarkedVersions
<1> HIDE DEF a
<1>4. /\ row \in SignatureRow /\ row.version = a.version /\ row.signer = a.user
      /\ row.status = "SIGNED" /\ row.key = a.key
      /\ row.hash = versions[a.version].content
  BY <1>2, SignedRow
<1> HIDE DEF row
<1>5. /\ signatures' \in Seq(SignatureRow) /\ i \in Nat
      /\ DOMAIN signatures' = DOMAIN signatures \cup {i}
      /\ i \notin DOMAIN signatures /\ signatures'[i] = row
      /\ \A j \in DOMAIN signatures : signatures'[j] = signatures[j]
  BY <1>1, <1>4, Appended DEF IInv, SignedInv
<1> HIDE DEF i
<1>6. \A v \in DOMAIN versions :
        /\ versions'[v].content = versions[v].content
        /\ versions'[v].signed <=>
             versions[v].signed \/ (row.status = "SIGNED" /\ v = row.version)
  BY <1>3, <1>4
<1>7. /\ row.version \in DOMAIN versions
      /\ IF row.status = "SIGNED"
         THEN /\ row.hash = versions[row.version].content
              /\ row.key \in DOMAIN keys /\ keys[row.key].owner = row.signer
         ELSE row.key = 0
  BY <1>2, <1>4
<1>8. /\ \A j \in DOMAIN signatures : j # i => signatures'[j] = signatures[j]
      /\ i \in DOMAIN signatures => /\ signatures[i].status = "PENDING"
                                    /\ signatures[i].version = row.version
                                    /\ signatures[i].signer = row.signer
  BY <1>5
<1>9. QED
  BY <1>1, <1>2, <1>3, <1>4, <1>5, <1>6, <1>7, <1>8, SignedStep

LEMMA CommitRequestStep ==
  ASSUME IInv, NEW s \in Slots, CommitRequestSignature(s),
         UNCHANGED <<chains, vaultVars>>
  PROVE  IInv' /\ SignaturesKept
<1> DEFINE a == req[s].arg
           row == PendingSignature(a.version, a.to)
           i == Len(signatures) + 1
<1>1. /\ signatures' = Append(signatures, row) /\ Ends(s, "request")
      /\ UNCHANGED <<status, versions, current, keys>>
  BY DEF CommitRequestSignature, docVars
<1>2. /\ ReqOk(req[s]) /\ req[s] # Idle /\ req[s].op = "request"
      /\ req' = [req EXCEPT ![s] = Idle] /\ status # "NONE"
  BY <1>1, EndsReq DEF IInv
<1>3. a.version \in DOMAIN versions /\ a.to \in Users
  BY <1>2 DEF ReqOk
<1> HIDE DEF a
<1>4. /\ row \in SignatureRow /\ row.version = a.version
      /\ row.status # "SIGNED" /\ row.key = 0
  BY <1>3, Rows DEF IInv, PendingSignature, SignatureRow
<1> HIDE DEF row
<1>5. /\ signatures' \in Seq(SignatureRow) /\ i \in Nat
      /\ DOMAIN signatures' = DOMAIN signatures \cup {i}
      /\ i \notin DOMAIN signatures /\ signatures'[i] = row
      /\ \A j \in DOMAIN signatures : signatures'[j] = signatures[j]
  BY <1>1, <1>4, Appended DEF IInv, SignedInv
<1>6. DocInv'
  BY <1>1 DEF IInv, DocInv
<1> HIDE DEF i
<1>7. QED
  BY <1>1, <1>2, <1>3, <1>4, <1>5, <1>6, SignedStep

LEMMA CommitFulfillStep ==
  ASSUME IInv, NEW s \in Slots, CommitFulfill(s), UNCHANGED <<chains, vaultVars>>
  PROVE  IInv' /\ SignaturesKept
<1> DEFINE a == req[s].arg
           row == Signed(a.version, a.user, a.key)
           i == a.item
<1>1. /\ signatures' = [signatures EXCEPT ![i] = row] /\ MarkSigned(s)
      /\ signatures[i].status = "PENDING"
      /\ a.key # 0 /\ UNCHANGED keys /\ req[s].op = "fulfill" /\ req[s] # Idle
      /\ req' = [req EXCEPT ![s] = Idle]
  BY DEF CommitFulfill, Ends, Idle
<1>2. /\ a.user \in Users /\ a.version \in DOMAIN versions /\ status # "NONE"
      /\ a.key \in DOMAIN keys /\ keys[a.key].owner = a.user
  BY <1>1, SigningReq
<1>3. /\ i \in DOMAIN signatures /\ signatures[i].signer = a.user
      /\ signatures[i].version = a.version
  BY <1>1, SigningReq DEF ReqOk
<1>4. /\ DocInv' /\ status' # "NONE" /\ DOMAIN versions' = DOMAIN versions
      /\ \A v \in DOMAIN versions :
           /\ versions'[v].content = versions[v].content
           /\ versions'[v].signed <=> versions[v].signed \/ v = a.version
  BY <1>1, <1>2, MarkedVersions
<1>5. i \in Nat
  BY <1>3, Rows DEF IInv
<1> HIDE DEF i, a
<1>6. /\ row \in SignatureRow /\ row.version = a.version /\ row.signer = a.user
      /\ row.status = "SIGNED" /\ row.key = a.key
      /\ row.hash = versions[a.version].content
  BY <1>2, SignedRow
<1> HIDE DEF row
<1>7. /\ signatures' \in Seq(SignatureRow)
      /\ DOMAIN signatures' = DOMAIN signatures \cup {i}
      /\ signatures'[i] = row
      /\ \A j \in DOMAIN signatures : j # i => signatures'[j] = signatures[j]
  <2>1. signatures \in Seq(SignatureRow)
    BY DEF IInv, SignedInv
  <2>2. QED
    BY <1>1, <1>3, <1>6, <2>1, Rewritten
<1>8. \A v \in DOMAIN versions :
        /\ versions'[v].content = versions[v].content
        /\ versions'[v].signed <=>
             versions[v].signed \/ (row.status = "SIGNED" /\ v = row.version)
  BY <1>4, <1>6
<1>9. /\ row.version \in DOMAIN versions
      /\ IF row.status = "SIGNED"
         THEN /\ row.hash = versions[row.version].content
              /\ row.key \in DOMAIN keys /\ keys[row.key].owner = row.signer
         ELSE row.key = 0
  BY <1>2, <1>6
<1>10. i \in DOMAIN signatures => /\ signatures[i].status = "PENDING"
                                  /\ signatures[i].version = row.version
                                  /\ signatures[i].signer = row.signer
  BY <1>1, <1>3, <1>6
<1>11. QED
  BY <1>1, <1>2, <1>4, <1>5, <1>6, <1>7, <1>8, <1>9, <1>10, SignedStep

LEMMA CommitDeclineStep ==
  ASSUME IInv, NEW s \in Slots, CommitDecline(s), UNCHANGED <<chains, vaultVars>>
  PROVE  IInv' /\ SignaturesKept
<1> DEFINE i == req[s].arg.item
           row == [signatures[i] EXCEPT !.status = "DECLINED"]
<1>1. /\ signatures' = [signatures EXCEPT ![i] = row]
      /\ signatures[i].status = "PENDING" /\ Ends(s, "decline")
      /\ UNCHANGED <<status, versions, current, keys>>
  BY DEF CommitDecline, docVars
<1>2. /\ ReqOk(req[s]) /\ req[s] # Idle /\ req[s].op = "decline"
      /\ req' = [req EXCEPT ![s] = Idle] /\ status # "NONE"
  BY <1>1, EndsReq DEF IInv
<1>3. i \in DOMAIN signatures
  BY <1>2 DEF ReqOk
<1> HIDE DEF i
<1>4. signatures[i] \in SignatureRow /\ i \in Nat
  BY <1>3, Rows DEF IInv
<1>5. /\ row \in SignatureRow /\ row.version = signatures[i].version
      /\ row.signer = signatures[i].signer /\ row.status = "DECLINED"
      /\ row.key = signatures[i].key
  BY <1>4 DEF SignatureRow
<1>6. row.version \in DOMAIN versions /\ row.key = 0
  BY <1>1, <1>3, <1>5 DEF IInv, SignedInv, SignatureBoundToVersion
<1> HIDE DEF row
<1>7. /\ signatures' \in Seq(SignatureRow)
      /\ DOMAIN signatures' = DOMAIN signatures \cup {i}
      /\ signatures'[i] = row
      /\ \A j \in DOMAIN signatures : j # i => signatures'[j] = signatures[j]
  <2>1. signatures \in Seq(SignatureRow)
    BY DEF IInv, SignedInv
  <2>2. QED
    BY <1>1, <1>3, <1>5, <2>1, Rewritten
<1>8. DocInv'
  BY <1>1 DEF IInv, DocInv
<1>9. QED
  BY <1>1, <1>2, <1>4, <1>5, <1>6, <1>7, <1>8, SignedStep

LEMMA TakeKeyStep ==
  ASSUME IInv, NEW s \in Slots, TakeKey(s), UNCHANGED <<chains, vaultVars>>
  PROVE  IInv' /\ SignaturesKept
<1> DEFINE r == req[s]
<1>1. PICK k \in ActiveKeys(r.arg.user) :
        req' = [req EXCEPT ![s] = [r EXCEPT !.arg.key = k]]
  BY DEF TakeKey
<1>2. /\ r.op \in {"sign", "fulfill"} /\ r # Idle /\ ReqOk(r)
      /\ UNCHANGED <<docVars, sigVars>>
  BY DEF TakeKey, Idle, IInv, ReqInv
<1>3. /\ k \in DOMAIN keys /\ keys[k].owner = r.arg.user
  BY <1>1 DEF ActiveKeys
<1> DEFINE arg == [user |-> r.arg.user, version |-> r.arg.version,
                   item |-> r.arg.item, key |-> k, deleted |-> r.arg.deleted]
           to == [op |-> r.op, arg |-> arg]
<1>4. [r EXCEPT !.arg.key = k] = to
  <2>1. /\ r = [op |-> r.op, arg |-> r.arg]
        /\ r.arg = [user |-> r.arg.user, version |-> r.arg.version,
                    item |-> r.arg.item, key |-> r.arg.key,
                    deleted |-> r.arg.deleted]
    BY <1>2 DEF ReqOk
  <2>2. [r.arg EXCEPT !.key = k] = arg
    BY <2>1
  <2>3. [r EXCEPT !.arg.key = k] = [r EXCEPT !.arg = [r.arg EXCEPT !.key = k]]
    BY <2>1
  <2>4. [r EXCEPT !.arg = arg] = to
    <3> HIDE DEF arg
    <3>1. QED
      BY <2>1
  <2>5. QED
    BY <2>2, <2>3, <2>4
<1>5. ReqOk(to)
  BY <1>2, <1>3 DEF ReqOk
<1> HIDE DEF to
<1>6. QED
  BY <1>1, <1>2, <1>4, <1>5, RequestStep

LEMMA SignaturesStep ==
  ASSUME IInv, SignaturesNext, UNCHANGED <<chains, vaultVars>>
  PROVE  IInv' /\ SignaturesKept
<1>1. ASSUME NEW s \in Slots, NEW u \in Users, LoadRotate(s, u)
      PROVE  IInv' /\ SignaturesKept
  <2>1. ReqOk([op |-> "rotate", arg |-> [user |-> u, revokes |-> ActiveKeys(u)]])
    BY <1>1 DEF LoadRotate, Loaded, ReqOk
  <2>2. QED
    BY <1>1, <2>1, LoadedStep DEF LoadRotate
<1>2. ASSUME NEW s \in Slots, NEW u \in Users, LoadSign(s, u)
      PROVE  IInv' /\ SignaturesKept
  <2>1. current \in DOMAIN versions /\ status # "NONE"
    BY <1>2 DEF LoadSign, Loaded, IInv, DocInv
  <2>2. ReqOk([op |-> "sign", arg |-> Signing(u, 0)])
    BY <2>1 DEF Signing, ReqOk
  <2>3. QED
    BY <1>2, <2>2, LoadedStep DEF LoadSign
<1>3. ASSUME NEW s \in Slots, NEW u \in Users, LoadRequestSignature(s, u)
      PROVE  IInv' /\ SignaturesKept
  <2>1. PICK to \in Users \ {u} :
          Loaded(s, "request", [version |-> current, to |-> to])
    BY <1>3 DEF LoadRequestSignature
  <2>2. current \in DOMAIN versions /\ status # "NONE"
    BY <2>1 DEF Loaded, IInv, DocInv
  <2>3. ReqOk([op |-> "request", arg |-> [version |-> current, to |-> to]])
    BY <2>2 DEF ReqOk
  <2>4. QED
    BY <1>3, <2>1, <2>3, LoadedStep DEF LoadRequestSignature
<1>4. ASSUME NEW s \in Slots, NEW u \in Users, LoadFulfill(s, u)
      PROVE  IInv' /\ SignaturesKept
  <2>1. PICK i \in DOMAIN signatures :
          /\ Pending(i, u) /\ signatures[i].version = current
          /\ Loaded(s, "fulfill", Signing(u, i))
    BY <1>4 DEF LoadFulfill, Fulfillable, Declinable
  <2>2. current \in DOMAIN versions /\ status # "NONE"
    BY <2>1 DEF Loaded, IInv, DocInv
  <2>3. ReqOk([op |-> "fulfill", arg |-> Signing(u, i)])
    BY <2>1, <2>2 DEF Signing, Pending, ReqOk
  <2>4. QED
    BY <1>4, <2>1, <2>3, LoadedStep DEF LoadFulfill
<1>5. ASSUME NEW s \in Slots, NEW u \in Users, LoadDecline(s, u)
      PROVE  IInv' /\ SignaturesKept
  <2>1. PICK i \in DOMAIN signatures : Loaded(s, "decline", [item |-> i])
    BY <1>5 DEF LoadDecline, Declinable
  <2>2. ReqOk([op |-> "decline", arg |-> [item |-> i]])
    BY <2>1 DEF Loaded, ReqOk
  <2>3. QED
    BY <1>5, <2>1, <2>2, LoadedStep DEF LoadDecline
<1>6. QED
  BY <1>1, <1>2, <1>3, <1>4, <1>5, RotateStep, TakeKeyStep, CommitSignStep,
     CommitRequestStep, CommitFulfillStep, CommitDeclineStep DEF SignaturesNext
-----------------------------------------------------------------------------
(* Steps of the stored bytes, of downloads and of the verification portal. *)

LEMMA VaultOnly ==
  ASSUME IInv, UNCHANGED <<docVars, chains, sigVars, req>>, VaultInv', CheckInv'
  PROVE  IInv' /\ SignaturesKept
<1>1. UNCHANGED <<status, versions, current, chains, signatures, keys, req>>
  BY DEF docVars, sigVars
<1>2. DocInv' /\ ChainInv' /\ SignedInv'
  BY <1>1 DEF IInv, DocInv, ChainInv, SignedInv
<1>3. SignedFlagTellsSignatures' /\ SignatureBoundToVersion' /\ UniqueKeyInv'
  BY <1>1 DEF IInv, SignedFlagTellsSignatures, SignatureBoundToVersion,
              UniqueKeyInv, ActiveKeys
<1>4. ReqInv'
  BY <1>1 DEF IInv, ReqInv, ReqOk
<1>5. SignaturesKept
  BY <1>1 DEF SignaturesKept
<1>6. QED
  BY <1>2, <1>3, <1>4, <1>5 DEF IInv

(* One download or verification goes on.                                   *)
LEMMA CheckStep ==
  ASSUME IInv, UNCHANGED <<docVars, chains, sigVars, req, stored, ledgerIntact>>,
         VaultInv', NEW k \in Checkers, NEW to,
         checks' = [checks EXCEPT ![k] = to], CheckOk(to)
  PROVE  IInv' /\ SignaturesKept
<1>1. UNCHANGED <<versions, signatures, stored, ledgerIntact>>
  BY DEF docVars, sigVars
<1>2. ASSUME NEW j \in Checkers PROVE CheckOk(checks[j])'
  <2>1. CASE j = k
    <3>1. checks'[j] = to
      BY <2>1 DEF IInv, CheckInv
    <3>2. QED
      BY <1>1, <3>1 DEF CheckOk, SignedObject
  <2>2. CASE j # k
    <3>1. checks'[j] = checks[j] /\ CheckOk(checks[j])
      BY <2>2 DEF IInv, CheckInv
    <3>2. QED
      BY <1>1, <3>1 DEF CheckOk, SignedObject
  <2>3. QED
    BY <2>1, <2>2
<1>3. checks' = [j \in Checkers |-> checks'[j]]
  BY DEF IInv, CheckInv
<1>4. CheckInv'
  BY <1>2, <1>3 DEF CheckInv
<1>5. QED
  BY <1>4, VaultOnly

(* What is altered stays altered, in the way it was.                       *)
LEMMA AlteredStep ==
  ASSUME IInv, UNCHANGED <<docVars, chains, sigVars, req, marks, reported, checks>>,
         stored' \in [Contents -> {"intact", "replaced", "unreadable"}],
         \A c \in Contents : stored[c] # "intact" => stored'[c] = stored[c],
         ledgerIntact' \in BOOLEAN, ledgerIntact' => ledgerIntact
  PROVE  IInv' /\ SignaturesKept
<1>1. UNCHANGED <<versions, signatures, marks, reported, checks>>
  BY DEF docVars, sigVars
<1>2. /\ \A v \in DOMAIN versions : versions[v].content \in Contents
      /\ \A i \in DOMAIN signatures : signatures[i].version \in DOMAIN versions
  BY Rows DEF IInv, SignedInv, VersionRow
<1>3. VaultInv'
  BY <1>1, <1>2 DEF IInv, VaultInv
<1>4. ASSUME NEW k \in Checkers PROVE CheckOk(checks[k])'
  <2> DEFINE c == checks[k]
  <2>1. CheckOk(c)
    BY DEF IInv, CheckInv
  <2>2. ASSUME NEW i \in DOMAIN signatures, SignedObject(i)' = "intact"
        PROVE  SignedObject(i) = "intact"
    BY <1>1, <1>2, <2>2 DEF SignedObject
  <2>3. ASSUME NEW v \in DOMAIN versions, stored[versions[v].content] = "replaced"
        PROVE  stored'[versions[v].content] = "replaced"
    BY <1>2, <2>3
  <2>4. QED
    BY <1>1, <2>1, <2>2, <2>3 DEF CheckOk
<1>5. CheckInv'
  BY <1>1, <1>4 DEF IInv, CheckInv
<1>6. QED
  BY <1>3, <1>5, VaultOnly

LEMMA DownloadStep ==
  ASSUME IInv, NEW k \in Checkers, LoadDownload(k) \/ CommitDownload(k),
         UNCHANGED <<docVars, chains, sigVars, req>>
  PROVE  IInv' /\ SignaturesKept
<1>1. CASE LoadDownload(k)
  <2>1. PICK v \in DOMAIN versions :
          /\ stored[versions[v].content] # "unreadable"
          /\ checks' = [checks EXCEPT ![k] =
               [op |-> "download", version |-> v,
                same |-> stored[versions[v].content] = "intact"]]
    BY <1>1 DEF LoadDownload, Checks
  <2> DEFINE to == [op |-> "download", version |-> v,
                    same |-> stored[versions[v].content] = "intact"]
  <2>2. UNCHANGED <<stored, ledgerIntact, marks, reported, versions>>
    BY <1>1 DEF LoadDownload, docVars
  <2>3. stored[versions[v].content] \in {"intact", "replaced", "unreadable"}
    BY Rows DEF IInv, VaultInv, VersionRow
  <2>4. CheckOk(to)
    BY <2>1, <2>3 DEF CheckOk
  <2>5. VaultInv'
    BY <2>2 DEF IInv, VaultInv
  <2> HIDE DEF to
  <2>6. QED
    BY <2>1, <2>2, <2>4, <2>5, CheckStep DEF to
<1>2. CASE CommitDownload(k)
  <2> DEFINE c == checks[k]
  <2>1. /\ c.op = "download" /\ checks' = [checks EXCEPT ![k] = Idle]
        /\ UNCHANGED <<stored, ledgerIntact, versions>>
    BY <1>2 DEF CommitDownload, Checks, docVars
  <2>2. /\ c.version \in DOMAIN versions
        /\ ~c.same => stored[versions[c.version].content] = "replaced"
    <3>1. CheckOk(c)
      BY DEF IInv, CheckInv
    <3>2. QED
      BY <2>1, <3>1 DEF CheckOk, Idle
  <2>3. \/ /\ marks' = [marks EXCEPT ![c.version] = "VERIFIED"]
           /\ reported' = reported
        \/ /\ ~c.same /\ marks' = [marks EXCEPT ![c.version] = "MODIFIED"]
           /\ reported' = reported \cup {c.version}
    BY <1>2 DEF CommitDownload
  <2> DEFINE v0 == c.version
  <2>4. v0 \in DOMAIN versions /\ v0 \in 1..MaxVersions
    BY <2>2, Rows, MaxVersionsAssumption DEF IInv, DocInv
  <2>5. \/ /\ marks' = [marks EXCEPT ![v0] = "VERIFIED"]
           /\ reported' = reported
        \/ /\ stored[versions[v0].content] = "replaced"
           /\ marks' = [marks EXCEPT ![v0] = "MODIFIED"]
           /\ reported' = reported \cup {v0}
    BY <2>2, <2>3
  <2> HIDE DEF v0
  <2>6. VaultInv'
    BY <2>1, <2>4, <2>5 DEF IInv, VaultInv
  <2>7. CheckOk(Idle)
    BY DEF CheckOk
  <2>8. QED
    BY <2>1, <2>6, <2>7, CheckStep
<1>3. QED
  BY <1>1, <1>2

(* What a verification has read, once it has found its signature.          *)
Reading(op, item, versionCheck, hashCheck, held) ==
  [op |-> op, item |-> item, versionCheck |-> versionCheck,
   hashCheck |-> hashCheck, held |-> held]

LEMMA VerifyingReq ==
  ASSUME IInv, NEW k \in Checkers, checks[k].op \in {"document", "bytes", "ledger"}
  PROVE  LET c == checks[k]
         IN /\ CheckOk(c)
            /\ c = Reading(c.op, c.item, c.versionCheck, c.hashCheck, c.held)
            /\ c.item \in DOMAIN signatures /\ signatures[c.item].status = "SIGNED"
            /\ signatures[c.item].hash
                 = versions[signatures[c.item].version].content
BY DEF IInv, CheckInv, CheckOk, Idle, Reading, SignatureBoundToVersion

(* The next read: what it may answer was true when it was read.            *)
LEMMA ReadingStep ==
  ASSUME IInv, UNCHANGED <<docVars, chains, sigVars, req>>,
         UNCHANGED <<stored, ledgerIntact, marks, reported>>,
         NEW k \in Checkers, NEW to, checks' = [checks EXCEPT ![k] = to], CheckOk(to)
  PROVE  IInv' /\ SignaturesKept
<1>1. VaultInv'
  BY DEF IInv, VaultInv, docVars
<1>2. QED
  BY <1>1, CheckStep

LEMMA HeldLater ==
  ASSUME NEW op, NEW item, NEW versionCheck, NEW hashCheck, NEW held, NEW h,
         NEW m, m = Reading(op, item, versionCheck, hashCheck, held)
  PROVE  /\ m.held = held /\ m.item = item
         /\ [m EXCEPT !.held = h] = Reading(op, item, versionCheck, hashCheck, h)
BY DEF Reading

LEMMA FindSignatureStep ==
  ASSUME IInv, NEW k \in Checkers, FindSignature(k),
         UNCHANGED <<docVars, chains, sigVars, req>>
  PROVE  IInv' /\ SignaturesKept
<1>1. PICK i \in DOMAIN signatures :
        /\ signatures[i].status = "SIGNED"
        /\ Verifies(k, "idle", [op |-> "document", item |-> i,
                                versionCheck |-> FALSE, hashCheck |-> FALSE,
                                held |-> {}])
  BY DEF FindSignature
<1> DEFINE read == Reading("document", i, FALSE, FALSE, {})
           to == Reading("document", i, FALSE, FALSE, {} \cup TrueVerdicts(i))
<1>2. checks' = [checks EXCEPT ![k] = to]
  <2>1. ASSUME NEW m, m = read
        PROVE  [m EXCEPT !.held = @ \cup TrueVerdicts(m.item)] = to
    <3>1. m.held = {}
      BY <2>1, Zenon DEF Reading
    <3>2. m.item = i
      BY <2>1, Zenon DEF Reading
    <3>4. ASSUME NEW h
          PROVE  [m EXCEPT !.held = h] = Reading("document", i, FALSE, FALSE, h)
      <4>1. /\ m.op = "document" /\ m.versionCheck = FALSE
            /\ m.hashCheck = FALSE
        BY <2>1, Zenon DEF Reading
      <4>2. m = Reading(m.op, m.item, m.versionCheck, m.hashCheck, m.held)
        BY <2>1, <3>1, <3>2, <4>1, Zenon
      <4>3. [m EXCEPT !.held = h]
              = Reading(m.op, m.item, m.versionCheck, m.hashCheck, h)
        BY <4>2, HeldLater
      <4>4. QED
        BY <3>2, <4>1, <4>3, Zenon
    <3>3. QED
      BY <3>1, <3>2, <3>4
  <2>2. [op |-> "document", item |-> i, versionCheck |-> FALSE,
         hashCheck |-> FALSE, held |-> {}] = read
    BY DEF Reading
  <2> HIDE DEF read, to
  <2>3. [read EXCEPT !.held = @ \cup TrueVerdicts(read.item)] = to
    BY <2>1
  <2>4. Verifies(k, "idle", read)
    BY <1>1, <2>2
  <2>5. QED
    BY <2>3, <2>4 DEF Verifies
<1>3. CheckOk(to)
  BY <1>1 DEF CheckOk, Reading
<1>4. UNCHANGED <<stored, ledgerIntact, marks, reported>>
  BY <1>1 DEF Verifies
<1> HIDE DEF to
<1>5. QED
  BY <1>2, <1>3, <1>4, ReadingStep

LEMMA ReadDocumentStep ==
  ASSUME IInv, NEW k \in Checkers, ReadDocument(k),
         UNCHANGED <<docVars, chains, sigVars, req>>
  PROVE  IInv' /\ SignaturesKept
<1> DEFINE c == checks[k]
           found == current = signatures[c.item].version
           held == c.held \cup TrueVerdicts(c.item)
           to == Reading("bytes", c.item, found, c.hashCheck, held)
           read == [c EXCEPT !.op = "bytes", !.versionCheck = found]
<1>1. /\ c.op = "document"
      /\ checks' = [checks EXCEPT ![k] =
                      [read EXCEPT !.held = @ \cup TrueVerdicts(read.item)]]
      /\ UNCHANGED <<stored, ledgerIntact, marks, reported>>
  BY DEF ReadDocument, Verifies
<1>2. /\ c = Reading(c.op, c.item, c.versionCheck, c.hashCheck, c.held)
      /\ c.item \in DOMAIN signatures /\ signatures[c.item].status = "SIGNED"
  BY <1>1, VerifyingReq
<1>3. read = Reading("bytes", c.item, found, c.hashCheck, c.held)
  <2> HIDE DEF found, c
  <2>1. [c EXCEPT !.op = "bytes"]
          = Reading("bytes", c.item, c.versionCheck, c.hashCheck, c.held)
    BY <1>2 DEF Reading
  <2>2. ASSUME NEW m,
               m = Reading("bytes", c.item, c.versionCheck, c.hashCheck, c.held)
        PROVE  [m EXCEPT !.versionCheck = found]
                 = Reading("bytes", c.item, found, c.hashCheck, c.held)
    BY <2>2 DEF Reading
  <2>3. read = [[c EXCEPT !.op = "bytes"] EXCEPT !.versionCheck = found]
    OBVIOUS
  <2>4. QED
    BY <2>1, <2>2, <2>3
<1>4. [read EXCEPT !.held = @ \cup TrueVerdicts(read.item)] = to
  <2>1. ASSUME NEW m, m = Reading("bytes", c.item, found, c.hashCheck, c.held)
        PROVE  [m EXCEPT !.held = @ \cup TrueVerdicts(m.item)] = to
    BY <2>1 DEF Reading
  <2> HIDE DEF read, to
  <2>2. QED
    BY <1>3, <2>1
<1>5. ledgerIntact /\ SignedObject(c.item) = "intact" => Outcome(found) \in held
  BY DEF Outcome, SignedObject, TrueVerdicts
<1>6. CheckOk(to)
  <2> HIDE DEF c, found, held
  <2>1. QED
    BY <1>2, <1>5 DEF CheckOk, Reading
<1> HIDE DEF to, read
<1>7. QED
  BY <1>1, <1>4, <1>6, ReadingStep

LEMMA ReadBytesStep ==
  ASSUME IInv, NEW k \in Checkers, ReadBytes(k),
         UNCHANGED <<docVars, chains, sigVars, req>>
  PROVE  IInv' /\ SignaturesKept
<1> DEFINE c == checks[k]
           same == stored[signatures[c.item].hash] = "intact"
           held == c.held \cup TrueVerdicts(c.item)
           to == Reading("ledger", c.item, c.versionCheck, same, held)
           read == [c EXCEPT !.op = "ledger", !.hashCheck = same]
<1>1. /\ c.op = "bytes"
      /\ checks' = [checks EXCEPT ![k] =
                      [read EXCEPT !.held = @ \cup TrueVerdicts(read.item)]]
      /\ UNCHANGED <<stored, ledgerIntact, marks, reported>>
  BY DEF ReadBytes, Verifies
<1>2. /\ CheckOk(c)
      /\ c = Reading(c.op, c.item, c.versionCheck, c.hashCheck, c.held)
      /\ c.item \in DOMAIN signatures /\ signatures[c.item].status = "SIGNED"
      /\ signatures[c.item].hash = versions[signatures[c.item].version].content
  BY <1>1, VerifyingReq
<1>3. read = Reading("ledger", c.item, c.versionCheck, same, c.held)
  <2> HIDE DEF same, c
  <2>1. [c EXCEPT !.op = "ledger"]
          = Reading("ledger", c.item, c.versionCheck, c.hashCheck, c.held)
    BY <1>2 DEF Reading
  <2>2. ASSUME NEW m,
               m = Reading("ledger", c.item, c.versionCheck, c.hashCheck, c.held)
        PROVE  [m EXCEPT !.hashCheck = same]
                 = Reading("ledger", c.item, c.versionCheck, same, c.held)
    BY <2>2 DEF Reading
  <2>3. read = [[c EXCEPT !.op = "ledger"] EXCEPT !.hashCheck = same]
    OBVIOUS
  <2>4. QED
    BY <2>1, <2>2, <2>3
<1>4. [read EXCEPT !.held = @ \cup TrueVerdicts(read.item)] = to
  <2>1. ASSUME NEW m, m = Reading("ledger", c.item, c.versionCheck, same, c.held)
        PROVE  [m EXCEPT !.held = @ \cup TrueVerdicts(m.item)] = to
    <3> HIDE DEF c, same
    <3>1. QED
      BY <2>1 DEF Reading
  <2> HIDE DEF read, to
  <2>2. QED
    BY <1>3, <2>1
<1>5. IF same THEN ledgerIntact => Outcome(c.versionCheck) \in held
              ELSE "TAMPERED" \in held
  <2>1. CASE same
    <3>1. SignedObject(c.item) = "intact"
      BY <1>2, <2>1 DEF SignedObject
    <3>2. ledgerIntact => Outcome(c.versionCheck) \in c.held
      BY <1>1, <1>2, <3>1 DEF CheckOk, Idle
    <3>3. QED
      BY <2>1, <3>2
  <2>2. CASE ~same
    <3>1. TrueVerdicts(c.item) = {"TAMPERED"}
      BY <1>2, <2>2 DEF TrueVerdicts
    <3>2. QED
      BY <2>2, <3>1
  <2>3. QED
    BY <2>1, <2>2
<1>6. CheckOk(to)
  <2> HIDE DEF c, same, held
  <2>1. QED
    BY <1>2, <1>5 DEF CheckOk, Reading
<1> HIDE DEF to, read
<1>7. QED
  BY <1>1, <1>4, <1>6, ReadingStep

LEMMA ReadLedgerStep ==
  ASSUME IInv, NEW k \in Checkers, ReadLedger(k),
         UNCHANGED <<docVars, chains, sigVars, req>>
  PROVE  IInv' /\ SignaturesKept
<1> DEFINE c == checks[k]
           verdict == Verdict(c.hashCheck, ledgerIntact, c.versionCheck)
           held == c.held \cup TrueVerdicts(c.item)
           read == [op |-> "record", item |-> c.item, held |-> c.held,
                    verdict |-> verdict]
           to == [op |-> "record", item |-> c.item, held |-> held,
                  verdict |-> verdict]
<1>0. [read EXCEPT !.held = @ \cup TrueVerdicts(read.item)] = to
  <2> HIDE DEF c, verdict
  <2>1. ASSUME NEW m, m = read
        PROVE  [m EXCEPT !.held = @ \cup TrueVerdicts(m.item)] = to
    <3>1. m.held = c.held /\ m.item = c.item
      BY <2>1
    <3>2. ASSUME NEW h
          PROVE  [m EXCEPT !.held = h]
                   = [op |-> "record", item |-> c.item, held |-> h,
                      verdict |-> verdict]
      BY <2>1
    <3>3. QED
      BY <3>1, <3>2
  <2> HIDE DEF read, to
  <2>2. QED
    BY <2>1
<1>1. /\ c.op = "ledger" /\ checks' = [checks EXCEPT ![k] = to]
      /\ UNCHANGED <<stored, ledgerIntact, marks, reported>>
  <2>1. Verifies(k, "ledger", read)
    BY DEF ReadLedger
  <2> HIDE DEF read, to
  <2>2. QED
    BY <1>0, <2>1 DEF Verifies
<1>2. IF c.hashCheck THEN ledgerIntact => Outcome(c.versionCheck) \in c.held
                     ELSE "TAMPERED" \in c.held
  <2>1. CheckOk(c)
    BY DEF IInv, CheckInv
  <2>2. QED
    BY <1>1, <2>1 DEF CheckOk, Idle
<1>3. ~ledgerIntact => TrueVerdicts(c.item) = {"TAMPERED"}
  BY DEF TrueVerdicts
<1>4. verdict \in held
  BY <1>2, <1>3 DEF Verdict, Outcome
<1> HIDE DEF verdict, held
<1>5. CheckOk(to)
  BY <1>4 DEF CheckOk
<1> HIDE DEF to
<1>6. QED
  BY <1>1, <1>5, ReadingStep

LEMMA VaultStep ==
  ASSUME IInv, VaultNext, UNCHANGED <<docVars, chains, sigVars, req>>
  PROVE  IInv' /\ SignaturesKept
<1>1. CASE AlterObject
  <2>1. PICK v \in DOMAIN versions, state \in {"replaced", "unreadable"} :
          /\ stored[versions[v].content] = "intact"
          /\ stored' = [stored EXCEPT ![versions[v].content] = state]
    BY <1>1 DEF AlterObject
  <2>2. UNCHANGED <<ledgerIntact, marks, reported, checks>>
    BY <1>1 DEF AlterObject
  <2>3. /\ stored' \in [Contents -> {"intact", "replaced", "unreadable"}]
        /\ \A c \in Contents : stored[c] # "intact" => stored'[c] = stored[c]
        /\ ledgerIntact' \in BOOLEAN
    BY <2>1, <2>2 DEF IInv, VaultInv
  <2>4. QED
    BY <2>2, <2>3, AlteredStep
<1>2. CASE AlterLedger
  <2>1. UNCHANGED <<stored, marks, reported, checks>> /\ ledgerIntact' = FALSE
    BY <1>2 DEF AlterLedger
  <2>2. stored' \in [Contents -> {"intact", "replaced", "unreadable"}]
    BY <2>1 DEF IInv, VaultInv
  <2>3. QED
    BY <2>1, <2>2, AlteredStep
<1>3. ASSUME NEW k \in Checkers, insertRecord(k) PROVE IInv' /\ SignaturesKept
  <2>1. CheckOk(Idle)
    BY DEF CheckOk
  <2>2. QED
    BY <1>3, <2>1, ReadingStep DEF insertRecord, Checks
<1>4. QED
  BY <1>1, <1>2, <1>3, DownloadStep, FindSignatureStep, ReadDocumentStep,
     ReadBytesStep, ReadLedgerStep DEF VaultNext

-----------------------------------------------------------------------------
(* The invariant, and the properties of the runs.                          *)

LEMMA InitInv == Init => IInv
<1> SUFFICES ASSUME Init PROVE IInv
  OBVIOUS
<1> USE DEF Init, DocInit, VaultInit
<1>1. DocInv
  <2>1. versions \in Seq(VersionRow) /\ Len(versions) = 0
    OBVIOUS
  <2>2. QED
    BY <2>1, MaxVersionsAssumption DEF DocInv
<1>2. ChainInv
  BY DEF ChainInv
<1>3. SignedInv /\ SignatureBoundToVersion /\ SignedFlagTellsSignatures
  BY DEF SignedInv, SignatureBoundToVersion, SignedFlagTellsSignatures
<1>4. UniqueKeyInv
  BY DEF UniqueKeyInv, ActiveKeys
<1>5. ReqInv
  BY DEF ReqInv, ReqOk
<1>6. VaultInv
  BY DEF VaultInv
<1>7. CheckInv
  BY DEF CheckInv, CheckOk
<1>8. QED
  BY <1>1, <1>2, <1>3, <1>4, <1>5, <1>6, <1>7 DEF IInv

LEMMA StepInv ==
  ASSUME IInv, [Next]_vars
  PROVE  IInv' /\ SignaturesKept
<1>1. CASE DocNext /\ UNCHANGED <<chains, sigVars, vaultVars>>
  BY <1>1, DocStep
<1>2. CASE ApprovalNext /\ UNCHANGED <<sigVars, vaultVars>>
  BY <1>2, ApprovalStep
<1>3. CASE SignaturesNext /\ UNCHANGED <<chains, vaultVars>>
  BY <1>3, SignaturesStep
<1>4. CASE VaultNext /\ UNCHANGED <<docVars, chains, sigVars, req>>
  BY <1>4, VaultStep
<1>5. CASE UNCHANGED vars
  <2>1. UNCHANGED <<status, versions, current, chains, signatures, keys, stored,
                    ledgerIntact, marks, reported, checks, req>>
    BY <1>5 DEF vars, docVars, sigVars, vaultVars
  <2>2. DocInv' /\ ChainInv' /\ SignedInv'
    BY <2>1 DEF IInv, DocInv, ChainInv, SignedInv
  <2>3. SignedFlagTellsSignatures' /\ SignatureBoundToVersion' /\ UniqueKeyInv'
    BY <2>1 DEF IInv, SignedFlagTellsSignatures, SignatureBoundToVersion,
                UniqueKeyInv, ActiveKeys
  <2>4. ReqInv'
    BY <2>1 DEF IInv, ReqInv, ReqOk
  <2>5. VaultInv'
    BY <2>1 DEF IInv, VaultInv
  <2>6. CheckInv'
    BY <2>1 DEF IInv, CheckInv, CheckOk, SignedObject
  <2>7. SignaturesKept
    BY <2>1 DEF SignaturesKept
  <2>8. QED
    BY <2>2, <2>3, <2>4, <2>5, <2>6, <2>7 DEF IInv
<1>6. QED
  BY <1>1, <1>2, <1>3, <1>4, <1>5 DEF Next

\* The inductive invariant holds in every state the three services and the
\* portal can reach together.
THEOREM Invariance == Spec => []IInv
<1>1. IInv /\ [Next]_vars => IInv'
  BY StepInv
<1>2. QED
  BY <1>1, InitInv, PTL DEF Spec

\* Every variable keeps its type; a document always shows one of its versions
\* and each chain and signature names one.
THEOREM TypeCorrect == Spec => []TypeOK
<1>1. IInv => TypeOK
  <2> SUFFICES ASSUME IInv PROVE TypeOK
    OBVIOUS
  <2>1. \A s \in Slots :
          \/ req[s] = Idle
          \/ req[s].op \in {"version", "insert", "delete", "submit", "decide",
                           "finalize", "rotate", "sign", "request", "fulfill",
                           "decline"}
    BY DEF IInv, ReqInv, ReqOk
  <2>2. \A k \in Checkers : checks[k].op \in {"idle", "download", "document",
                                               "bytes", "ledger", "record"}
    <3>1. ASSUME NEW c, CheckOk(c)
          PROVE  c.op \in {"idle", "download", "document", "bytes", "ledger",
                           "record"}
      BY <3>1 DEF CheckOk, Idle
    <3>2. QED
      BY <3>1 DEF IInv, CheckInv
  <2>3. QED
    BY <2>1, <2>2 DEF IInv, TypeOK, DocInv, ChainInv, SignedInv, VaultInv
<1>2. QED
  BY <1>1, Invariance, PTL

\* document_versions.is_signed and document_signatures agree, however requests
\* for one document overlap.
THEOREM FlagCorrect == Spec => []SignedFlagTellsSignatures
<1>1. IInv => SignedFlagTellsSignatures
  BY DEF IInv
<1>2. QED
  BY <1>1, Invariance, PTL

\* A signature signs the content of the version it was requested for, with a
\* key of its signer.
THEOREM BindingCorrect == Spec => []SignatureBoundToVersion
<1>1. IInv => SignatureBoundToVersion
  BY DEF IInv
<1>2. QED
  BY <1>1, Invariance, PTL

\* A user has one active signing key at most, also when rotations race.
THEOREM KeyCorrect == Spec => []OneActiveKey
<1>1. IInv => OneActiveKey
  <2> SUFFICES ASSUME IInv, NEW u \in Users
               PROVE  Cardinality(ActiveKeys(u)) <= 1
    BY DEF OneActiveKey
  <2>1. CASE ActiveKeys(u) = {}
    BY <2>1, FS_EmptySet
  <2>2. CASE ActiveKeys(u) # {}
    <3>1. PICK k : k \in ActiveKeys(u)
      BY <2>2
    <3>2. ActiveKeys(u) = {k}
      BY <3>1 DEF IInv, UniqueKeyInv
    <3>3. Cardinality({k}) = 1
      BY FS_Singleton
    <3>4. QED
      BY <3>2, <3>3
  <2>3. QED
    BY <2>1, <2>2
<1>2. QED
  BY <1>1, Invariance, PTL

\* A request for a signature is answered once, also when a signature, a refusal
\* and a second signature of it race.
THEOREM AnsweredCorrect == Spec => AnsweredOnce
<1>1. IInv /\ [Next]_vars =>
        [\A i \in DOMAIN signatures :
           /\ i \in DOMAIN signatures'
           /\ signatures[i].status # "PENDING" => signatures'[i] = signatures[i]
          ]_signatures
  BY StepInv DEF SignaturesKept
<1>2. QED
  BY <1>1, Invariance, PTL DEF Spec, AnsweredOnce

\* A version marked MODIFIED was replaced and is reported, and a recorded
\* verdict was true while its request was served.
THEOREM VerdictCorrect == Spec => []ChecksTellTruth
<1>1. IInv => ChecksTellTruth
  <2> SUFFICES ASSUME IInv PROVE ChecksTellTruth
    OBVIOUS
  <2>1. ASSUME NEW v \in DOMAIN versions, marks[v] = "MODIFIED"
        PROVE  v \in reported /\ stored[versions[v].content] = "replaced"
    <3>1. v \in 1..MaxVersions
      BY MaxVersionsAssumption DEF IInv, DocInv
    <3>2. QED
      BY <2>1, <3>1 DEF IInv, VaultInv
  <2>2. ASSUME NEW k \in Checkers, checks[k].op = "record"
        PROVE  checks[k].verdict \in checks[k].held
    <3>1. CheckOk(checks[k])
      BY DEF IInv, CheckInv
    <3>2. ASSUME NEW c, CheckOk(c), c.op = "record"
          PROVE  c.verdict \in c.held
      BY <3>2, SMTT(30) DEF CheckOk, Idle
    <3>3. QED
      BY <2>2, <3>1, <3>2
  <2>3. QED
    BY <2>1, <2>2 DEF ChecksTellTruth
<1>2. QED
  BY <1>1, Invariance, PTL

-----------------------------------------------------------------------------
(* One request at a time.  What a handler has read is then still so when   *)
(* its transaction commits; bytes and ledger may be altered and checked    *)
(* beside it.                                                              *)

Serial == \A s, t \in Slots : s = t

\* Each version took the number and the place that were next when it began.
NumberInv ==
  /\ \A v \in DOMAIN versions : /\ versions[v].number = v
                                /\ versions[v].began = v - 1
  /\ current = Len(versions)

\* Only the newest chain can be active.
ActiveInv ==
  /\ \A c \in ActiveChains : c = Len(chains)
  /\ status = "UNDER_REVIEW" => ActiveChains # {}
  /\ status \in SUBMITTABLE_STATUSES \cup {"NONE"} => ActiveChains = {}

InOrder(chain) ==
  /\ DOMAIN chain.approvers = DOMAIN chain.steps
  /\ \A k \in DOMAIN chain.steps :
       /\ k < chain.turn => chain.steps[k] = "APPROVED"
       /\ k > chain.turn => chain.steps[k] = "PENDING"
  /\ chain.steps[chain.turn] = chain.status
  /\ chain.status = "APPROVED" => chain.turn = Len(chain.steps)

StepsInv == \A c \in DOMAIN chains : InOrder(chains[c])

\* What the checks of request r still say of the document.
StillTrue(r) ==
  r = Idle \/
  /\ r.op \in {"version", "insert"} => r.arg.number = Len(versions) + 1
  /\ r.op = "insert" => r.arg.began = Len(versions)
  /\ r.op = "submit" => status \in SUBMITTABLE_STATUSES
  /\ r.op = "decide" => /\ chains[r.arg.chain].status = "PENDING"
                        /\ chains[r.arg.chain].turn = r.arg.step

DocumentInv == NumberInv /\ ActiveInv /\ StepsInv

SerialInv == DocumentInv /\ \A s \in Slots : StillTrue(req[s])

Unwritten == UNCHANGED <<status, versions, current, chains>>

(* Nothing but the requests changes: whatever the checks said stays true.  *)
LEMMA DocumentStays ==
  ASSUME DocumentInv, Unwritten
  PROVE  DocumentInv'
BY DEF DocumentInv, Unwritten, NumberInv, ActiveInv, ActiveChains, StepsInv

LEMMA StillTrueStays ==
  ASSUME Unwritten, NEW r
  PROVE  StillTrue(r)' <=> StillTrue(r)
BY DEF StillTrue, Unwritten

LEMMA SerialRead ==
  ASSUME IInv, SerialInv, Unwritten, NEW s \in Slots, NEW r, StillTrue(r),
         req' = [req EXCEPT ![s] = r]
  PROVE  SerialInv'
<1>1. DocumentInv'
  BY DocumentStays DEF SerialInv
<1>2. ASSUME NEW x \in Slots PROVE StillTrue(req'[x])
  BY DEF SerialInv, IInv, ReqInv
<1>3. ASSUME NEW x \in Slots PROVE StillTrue(req[x])'
  <2>1. PICK q : q = req'[x]
    OBVIOUS
  <2>2. StillTrue(q)'
    BY <1>2, <2>1, StillTrueStays
  <2>3. QED
    BY <2>1, <2>2
<1>4. QED
  BY <1>1, <1>3 DEF SerialInv

LEMMA SerialLoaded ==
  ASSUME IInv, SerialInv, Unwritten, NEW s \in Slots, NEW op, NEW arg,
         Loaded(s, op, arg), StillTrue([op |-> op, arg |-> arg])
  PROVE  SerialInv'
BY SerialRead DEF Loaded

(* Committing: no request is left whose checks could have become false.    *)
LEMMA SerialEnd ==
  ASSUME Serial, IInv, NEW s \in Slots, req' = [req EXCEPT ![s] = Idle],
         DocumentInv'
  PROVE  SerialInv'
<1>1. ASSUME NEW x \in Slots PROVE req'[x] = Idle
  BY DEF Serial, IInv, ReqInv
<1>2. \A x \in Slots : StillTrue(req[x])'
  BY <1>1 DEF StillTrue
<1>3. QED
  BY <1>2 DEF SerialInv

-----------------------------------------------------------------------------
(* Versions, one request at a time.                                        *)

(* The newest version is the last one.                                     *)
LEMMA NewestIsLast ==
  ASSUME IInv, NumberInv, NEW v \in LatestVersions
  PROVE  v = Len(versions) /\ versions[v].number = Len(versions)
<1>1. v \in DOMAIN versions /\ DOMAIN versions = 1..Len(versions) /\ Len(versions) \in Nat
  BY Rows DEF IInv, LatestVersions
<1>2. Len(versions) \in DOMAIN versions
  BY <1>1
<1>3. versions[Len(versions)].began <= versions[v].began
  BY <1>2 DEF LatestVersions
<1>4. versions[v].began = v - 1 /\ versions[Len(versions)].began = Len(versions) - 1
  BY <1>1, <1>2 DEF NumberInv
<1>5. v = Len(versions)
  BY <1>1, <1>3, <1>4
<1>6. QED
  BY <1>1, <1>5 DEF NumberInv

LEMMA NumberAppend ==
  ASSUME IInv, NumberInv, NEW row \in VersionRow,
         row.number = Len(versions) + 1, row.began = Len(versions),
         versions' = Append(versions, row), current' = Len(versions) + 1
  PROVE  NumberInv'
<1>1. /\ Len(versions) \in Nat /\ Len(versions') = Len(versions) + 1
      /\ DOMAIN versions' = DOMAIN versions \cup {Len(versions) + 1}
      /\ versions'[Len(versions) + 1] = row
      /\ \A v \in DOMAIN versions : versions'[v] = versions[v]
  BY Appended DEF IInv, DocInv
<1>2. QED
  BY <1>1 DEF NumberInv

LEMMA SerialDoc ==
  ASSUME Serial, IInv, SerialInv, DocNext, UNCHANGED chains
  PROVE  SerialInv'
<1>0. Len(versions) \in Nat
  BY Rows DEF IInv
<1>1. CASE UploadNewDocument
  <2>1. PICK c \in Contents :
          /\ status = "NONE" /\ status' = "ACTIVE" /\ current' = 1
          /\ versions' = <<Version(c, 1, 0)>> /\ UNCHANGED req
    BY <1>1 DEF UploadNewDocument
  <2>2. PICK row : row = Version(c, 1, 0)
    OBVIOUS
  <2>3. row \in VersionRow /\ row.number = 1 /\ row.began = 0
    BY <2>2 DEF Version, VersionRow
  <2>4. versions = << >> /\ Len(versions) = 0
    BY <2>1 DEF IInv, DocInv
  <2>5. versions' = Append(versions, row)
    BY <2>1, <2>2, <2>4
  <2>6. NumberInv'
    BY <2>1, <2>3, <2>4, <2>5, NumberAppend DEF SerialInv, DocumentInv
  <2>7. ActiveInv' /\ StepsInv'
    BY <2>1 DEF SerialInv, DocumentInv, ActiveInv, ActiveChains, StepsInv,
                SUBMITTABLE_STATUSES
  <2>8. \A s \in Slots : req[s] = Idle
    BY <2>1 DEF IInv, ReqInv, ReqOk
  <2>9. \A s \in Slots : StillTrue(req[s])'
    BY <2>1, <2>8 DEF StillTrue
  <2>10. QED
    BY <2>6, <2>7, <2>9 DEF SerialInv, DocumentInv
<1>2. ASSUME NEW s \in Slots, LoadNewVersion(s) \/ LoadRestore(s) PROVE SerialInv'
  <2>1. Unwritten
    BY <1>2 DEF LoadNewVersion, LoadRestore, docVars, Unwritten
  <2>2. ASSUME NEW content, NEW v \in LatestVersions,
               Loaded(s, "version", [content |-> content,
                                     number  |-> versions[v].number + 1])
        PROVE  SerialInv'
    <3>1. versions[v].number = Len(versions)
      BY NewestIsLast DEF SerialInv, DocumentInv
    <3>2. StillTrue([op |-> "version",
                     arg |-> [content |-> content,
                              number  |-> versions[v].number + 1]])
      BY <3>1 DEF StillTrue
    <3>3. QED
      BY <2>1, <2>2, <3>2, SerialLoaded
  <2>3. CASE LoadNewVersion(s)
    BY <2>2, <2>3 DEF LoadNewVersion
  <2>4. CASE LoadRestore(s)
    BY <2>2, <2>4 DEF LoadRestore
  <2>5. QED
    BY <1>2, <2>3, <2>4
<1>3. ASSUME NEW s \in Slots, BeginVersion(s) PROVE SerialInv'
  <2>1. PICK to : to = [op |-> "insert",
                        arg |-> [content |-> req[s].arg.content,
                                 number |-> req[s].arg.number,
                                 began |-> Len(versions)]]
    OBVIOUS
  <2>2. req[s].op = "version" /\ req[s] # Idle /\ StillTrue(req[s])
    BY <1>3 DEF BeginVersion, SerialInv, Idle
  <2>3. StillTrue(to)
    BY <2>1, <2>2 DEF StillTrue
  <2>4. req' = [req EXCEPT ![s] = to] /\ Unwritten
    BY <1>3, <2>1 DEF BeginVersion, docVars, Unwritten
  <2>5. QED
    BY <2>3, <2>4, SerialRead
<1>4. ASSUME NEW s \in Slots, CommitVersion(s) PROVE SerialInv'
  <2>1. PICK new : new = req[s].arg
    OBVIOUS
  <2>2. PICK row : row = Version(new.content, new.number, new.began)
    OBVIOUS
  <2>3. /\ Ends(s, "insert") /\ versions' = Append(versions, row)
        /\ current' = Len(versions') /\ status' = status
    BY <1>4, <2>1, <2>2 DEF CommitVersion
  <2>4. /\ ReqOk(req[s]) /\ req[s] # Idle /\ req[s].op = "insert"
        /\ req' = [req EXCEPT ![s] = Idle] /\ StillTrue(req[s])
    BY <2>3, EndsReq DEF IInv, SerialInv
  <2>5. /\ new.content \in Contents /\ new.number \in Nat /\ new.began \in Nat
        /\ new.number = Len(versions) + 1 /\ new.began = Len(versions)
    BY <2>1, <2>4 DEF ReqOk, StillTrue
  <2>6. /\ row \in VersionRow /\ row.number = Len(versions) + 1
        /\ row.began = Len(versions)
    BY <2>2, <2>5 DEF Version, VersionRow
  <2>7. current' = Len(versions) + 1
    BY <2>3, <2>6, Appended DEF IInv, DocInv
  <2>8. NumberInv'
    BY <2>3, <2>6, <2>7, NumberAppend DEF SerialInv, DocumentInv
  <2>9. ActiveInv' /\ StepsInv'
    BY <2>3 DEF SerialInv, DocumentInv, ActiveInv, ActiveChains, StepsInv
  <2>10. QED
    BY <2>4, <2>8, <2>9, SerialEnd DEF DocumentInv
<1>5. ASSUME NEW s \in Slots, LoadDelete(s) PROVE SerialInv'
  <2>1. StillTrue([op |-> "delete", arg |-> NoArg])
    BY DEF StillTrue
  <2>2. Unwritten /\ Loaded(s, "delete", NoArg)
    BY <1>5 DEF LoadDelete, docVars, Unwritten
  <2>3. QED
    BY <2>1, <2>2, SerialLoaded
<1>6. ASSUME NEW s \in Slots, CommitDelete(s) PROVE SerialInv'
  <2>1. /\ req' = [req EXCEPT ![s] = Idle] /\ status' = "DELETED"
        /\ UNCHANGED <<versions, current>>
    BY <1>6 DEF CommitDelete, Ends
  <2>2. DocumentInv'
    BY <2>1 DEF SerialInv, DocumentInv, NumberInv, ActiveInv, ActiveChains,
                StepsInv, SUBMITTABLE_STATUSES
  <2>3. QED
    BY <2>1, <2>2, SerialEnd
<1>7. ASSUME NEW s \in Slots, Abort(s) PROVE SerialInv'
  <2>1. StillTrue(Idle)
    BY DEF StillTrue
  <2>2. Unwritten /\ req' = [req EXCEPT ![s] = Idle]
    BY <1>7 DEF Abort, docVars, Unwritten
  <2>3. QED
    BY <2>1, <2>2, SerialRead
<1>8. QED
  BY <1>1, <1>2, <1>3, <1>4, <1>5, <1>6, <1>7 DEF DocNext

-----------------------------------------------------------------------------
(* Approval chains, one request at a time.                                 *)

LEMMA NewChainInOrder ==
  ASSUME NEW v, NEW l \in Seq(Approvers), 1 \in DOMAIN l
  PROVE  InOrder(NewChain(v, l))
<1>1. DOMAIN l = 1..Len(l) /\ Len(l) \in Nat
  BY LenProperties
<1>2. PICK row : row = NewChain(v, l)
  OBVIOUS
<1>3. /\ row.status = "PENDING" /\ row.turn = 1 /\ row.approvers = l
      /\ DOMAIN row.steps = DOMAIN l
      /\ \A i \in DOMAIN l : row.steps[i] = "PENDING"
  BY <1>2 DEF NewChain
<1>4. QED
  BY <1>1, <1>2, <1>3 DEF InOrder

(* The steps of a chain once the step k at its turn is decided.            *)
LEMMA DecidedSteps ==
  ASSUME NEW chain \in Chain, InOrder(chain), NEW k \in DOMAIN chain.steps,
         k = chain.turn, NEW decision \in Decisions, NEW steps,
         steps = [chain.steps EXCEPT ![k] = decision]
  PROVE  /\ Len(chain.steps) \in Nat /\ Len(steps) = Len(chain.steps)
         /\ DOMAIN steps = 1..Len(chain.steps) /\ k \in DOMAIN steps
         /\ DOMAIN chain.approvers = DOMAIN steps
         /\ steps[k] = decision
         /\ \A j \in DOMAIN steps : /\ j < k => steps[j] = "APPROVED"
                                    /\ j > k => steps[j] = "PENDING"
<1>1. chain.steps \in Seq(Decisions \cup {"PENDING"})
  BY DEF Chain
<1>2. DOMAIN chain.steps = 1..Len(chain.steps) /\ Len(chain.steps) \in Nat
  BY <1>1, LenProperties
<1>3. /\ DOMAIN steps = DOMAIN chain.steps /\ Len(steps) = Len(chain.steps)
      /\ steps[k] = decision
      /\ \A j \in DOMAIN chain.steps : j # k => steps[j] = chain.steps[j]
  BY <1>1, Rewritten
<1>4. QED
  BY <1>2, <1>3 DEF InOrder

(* A decision against the document, or by the last approver, ends the      *)
(* chain in order.                                                         *)
LEMMA EndedInOrder ==
  ASSUME NEW chain \in Chain, InOrder(chain), NEW k \in DOMAIN chain.steps,
         k = chain.turn, NEW d \in Decisions,
         d = "APPROVED" => k = Len(chain.steps)
  PROVE  InOrder(Decided(chain, k, d, d, k))
<1>1. PICK row, steps : /\ row = Decided(chain, k, d, d, k)
                        /\ steps = [chain.steps EXCEPT ![k] = d]
  OBVIOUS
<1>2. /\ row.status = d /\ row.turn = k /\ row.steps = steps
      /\ row.approvers = chain.approvers
  BY <1>1 DEF Decided
<1>3. /\ Len(steps) = Len(chain.steps) /\ steps[k] = d
      /\ DOMAIN chain.approvers = DOMAIN steps
      /\ \A j \in DOMAIN steps : /\ j < k => steps[j] = "APPROVED"
                                 /\ j > k => steps[j] = "PENDING"
  BY <1>1, DecidedSteps
<1>4. InOrder(row)
  BY <1>2, <1>3 DEF InOrder
<1>5. QED
  BY <1>1, <1>4

(* An approval by any other passes the turn to the next one.               *)
LEMMA PassedInOrder ==
  ASSUME NEW chain \in Chain, InOrder(chain), NEW k \in DOMAIN chain.steps,
         k = chain.turn, k # Len(chain.steps)
  PROVE  InOrder(Decided(chain, k, "APPROVED", "PENDING", k + 1))
<1>1. PICK row, d, steps : /\ row = Decided(chain, k, d, "PENDING", k + 1)
                           /\ steps = [chain.steps EXCEPT ![k] = d]
                           /\ d = "APPROVED" /\ d \in Decisions
  BY DEF Decisions
<1>2. /\ row.status = "PENDING" /\ row.turn = k + 1 /\ row.steps = steps
      /\ row.approvers = chain.approvers
  BY <1>1 DEF Decided
<1>3. /\ Len(chain.steps) \in Nat /\ Len(steps) = Len(chain.steps)
      /\ DOMAIN steps = 1..Len(chain.steps) /\ k \in DOMAIN steps
      /\ DOMAIN chain.approvers = DOMAIN steps /\ steps[k] = "APPROVED"
      /\ \A j \in DOMAIN steps : /\ j < k => steps[j] = "APPROVED"
                                 /\ j > k => steps[j] = "PENDING"
  BY <1>1, DecidedSteps
<1>4. k + 1 \in DOMAIN steps /\ steps[k + 1] = "PENDING"
  BY <1>3
<1>5. \A j \in DOMAIN steps : /\ j < k + 1 => steps[j] = "APPROVED"
                              /\ j > k + 1 => steps[j] = "PENDING"
  BY <1>3
<1>6. InOrder(row)
  BY <1>2, <1>3, <1>4, <1>5 DEF InOrder
<1>7. QED
  BY <1>1, <1>6

(* The chain that is decided is the one active chain.                      *)
LEMMA SerialDecided ==
  ASSUME Serial, IInv, SerialInv, NEW s \in Slots,
         req' = [req EXCEPT ![s] = Idle], UNCHANGED <<versions, current>>,
         NEW c \in DOMAIN chains, chains[c].status = "PENDING",
         NEW row, InOrder(row), chains' = [chains EXCEPT ![c] = row],
         \/ row.status = "PENDING" /\ status' = status
         \/ row.status # "PENDING" /\ status' \in {"DRAFT", "APPROVED"}
  PROVE  SerialInv'
<1>1. /\ DOMAIN chains' = DOMAIN chains /\ chains'[c] = row
      /\ \A d \in DOMAIN chains : d # c => chains'[d] = chains[d]
      /\ Len(chains') = Len(chains)
  <2>1. DOMAIN chains' = DOMAIN chains /\ chains'[c] = row
        /\ \A d \in DOMAIN chains : d # c => chains'[d] = chains[d]
    OBVIOUS
  <2>2. chains \in Seq(Chain) /\ DOMAIN chains = 1..Len(chains)
    BY Rows DEF IInv, ChainInv
  <2>3. Len(chains') = Len(chains)
    BY <2>2, LenProperties
  <2>4. QED
    BY <2>1, <2>3
<1>2. ActiveChains = {c}
  BY DEF SerialInv, DocumentInv, ActiveInv, ActiveChains
<1>3. ActiveChains' = IF row.status = "PENDING" THEN {c} ELSE {}
  BY <1>1, <1>2 DEF ActiveChains
<1>4. c = Len(chains)
  BY <1>2 DEF SerialInv, DocumentInv, ActiveInv
<1>5. ActiveInv'
  BY <1>1, <1>2, <1>3, <1>4 DEF SerialInv, DocumentInv, ActiveInv, SUBMITTABLE_STATUSES
<1>6. StepsInv'
  <2>1. ASSUME NEW d \in DOMAIN chains' PROVE InOrder(chains'[d])
    BY <1>1 DEF SerialInv, DocumentInv, StepsInv
  <2>2. QED
    BY <2>1 DEF StepsInv, InOrder
<1>7. NumberInv'
  BY DEF SerialInv, DocumentInv, NumberInv
<1>8. QED
  BY <1>5, <1>6, <1>7, SerialEnd DEF DocumentInv

LEMMA SerialApproval ==
  ASSUME Serial, IInv, SerialInv, ApprovalNext
  PROVE  SerialInv'
<1>1. ASSUME NEW s \in Slots, CommitSubmit(s) PROVE SerialInv'
  <2>1. PICK row : row = NewChain(req[s].arg.version, req[s].arg.approvers)
    OBVIOUS
  <2>2. /\ req' = [req EXCEPT ![s] = Idle] /\ UNCHANGED <<versions, current>>
        /\ chains' = Append(chains, row) /\ status' = "UNDER_REVIEW"
        /\ ReqOk(req[s]) /\ req[s] # Idle /\ req[s].op = "submit"
    BY <1>1, <2>1, EndsReq DEF CommitSubmit, IInv
  <2>3. status \in SUBMITTABLE_STATUSES
    BY <2>2 DEF SerialInv, StillTrue
  <2>4. /\ req[s].arg.version \in DOMAIN versions
        /\ req[s].arg.approvers \in Seq(Approvers)
        /\ 1 \in DOMAIN req[s].arg.approvers
    BY <2>2 DEF ReqOk
  <2>5. req[s].arg.version \in Nat
    BY <2>4, Rows DEF IInv
  <2>6. row \in Chain /\ InOrder(row) /\ row.status = "PENDING"
    BY <2>1, <2>4, <2>5, NewChainType, NewChainInOrder DEF NewChain
  <2>7. /\ Len(chains) \in Nat /\ Len(chains') = Len(chains) + 1
        /\ DOMAIN chains' = DOMAIN chains \cup {Len(chains) + 1}
        /\ chains'[Len(chains) + 1] = row
        /\ \A c \in DOMAIN chains : chains'[c] = chains[c]
    BY <2>2, <2>6, Appended DEF IInv, ChainInv
  <2>8. ActiveChains = {}
    BY <2>3 DEF SerialInv, DocumentInv, ActiveInv
  <2>9. ActiveChains' = {Len(chains')}
    BY <2>6, <2>7, <2>8 DEF ActiveChains
  <2>10. ActiveInv'
    BY <2>2, <2>9 DEF ActiveInv, SUBMITTABLE_STATUSES
  <2>11. StepsInv'
    <3>1. ASSUME NEW d \in DOMAIN chains' PROVE InOrder(chains'[d])
      BY <2>6, <2>7 DEF SerialInv, DocumentInv, StepsInv
    <3>2. QED
      BY <3>1 DEF StepsInv, InOrder
  <2>12. NumberInv'
    BY <2>2 DEF SerialInv, DocumentInv, NumberInv
  <2>13. QED
    BY <2>2, <2>10, <2>11, <2>12, SerialEnd DEF DocumentInv
<1>2. ASSUME NEW s \in Slots, req[s].op = "decide", Ends(s, "decide")
      PROVE  /\ req' = [req EXCEPT ![s] = Idle]
             /\ req[s].arg.chain \in DOMAIN chains
             /\ req[s].arg.decision \in Decisions
             /\ chains[req[s].arg.chain] \in Chain
             /\ InOrder(chains[req[s].arg.chain])
             /\ chains[req[s].arg.chain].status = "PENDING"
             /\ chains[req[s].arg.chain].turn = req[s].arg.step
             /\ req[s].arg.step \in DOMAIN chains[req[s].arg.chain].steps
  <2>1. /\ ReqOk(req[s]) /\ req[s] # Idle /\ req' = [req EXCEPT ![s] = Idle]
        /\ StillTrue(req[s])
    BY <1>2, EndsReq DEF IInv, SerialInv
  <2>2. QED
    BY <1>2, <2>1, Rows DEF ReqOk, StillTrue, IInv, SerialInv, DocumentInv, StepsInv
<1>3. ASSUME NEW s \in Slots, CommitRejection(s) PROVE SerialInv'
  <2>1. PICK c, k, d : c = req[s].arg.chain /\ k = req[s].arg.step
                       /\ d = req[s].arg.decision
    OBVIOUS
  <2>2. PICK row : row = Decided(chains[c], k, d, d, k)
    OBVIOUS
  <2>3. /\ req[s].op = "decide" /\ Ends(s, "decide") /\ d # "APPROVED"
        /\ chains' = [chains EXCEPT ![c] = row] /\ status' = "DRAFT"
        /\ UNCHANGED <<versions, current>>
    BY <1>3, <2>1, <2>2 DEF CommitRejection
  <2>4. /\ req' = [req EXCEPT ![s] = Idle] /\ c \in DOMAIN chains
        /\ d \in Decisions /\ chains[c] \in Chain /\ InOrder(chains[c])
        /\ chains[c].status = "PENDING" /\ chains[c].turn = k
        /\ k \in DOMAIN chains[c].steps
    BY <1>2, <2>1, <2>3
  <2>5. InOrder(row) /\ row.status = d
    BY <2>2, <2>3, <2>4, EndedInOrder DEF Decided
  <2>6. row.status # "PENDING"
    BY <2>4, <2>5 DEF Decisions
  <2>7. QED
    BY <2>3, <2>4, <2>5, <2>6, SerialDecided
<1>4. ASSUME NEW s \in Slots, CommitApproval(s) PROVE SerialInv'
  <2>1. PICK c, k : c = req[s].arg.chain /\ k = req[s].arg.step
    OBVIOUS
  <2>2. PICK outcome, turn :
          /\ outcome = IF k = Len(chains[c].steps) THEN "APPROVED" ELSE "PENDING"
          /\ turn = IF k = Len(chains[c].steps) THEN k ELSE k + 1
    OBVIOUS
  <2>3. PICK row : row = Decided(chains[c], k, "APPROVED", outcome, turn)
    OBVIOUS
  <2>4. /\ req[s].op = "decide" /\ Ends(s, "decide")
        /\ req[s].arg.decision = "APPROVED"
        /\ chains' = [chains EXCEPT ![c] = row]
        /\ status' = IF k = Len(chains[c].steps) THEN "APPROVED" ELSE status
        /\ UNCHANGED <<versions, current>>
    BY <1>4, <2>1, <2>2, <2>3 DEF CommitApproval
  <2>5. /\ req' = [req EXCEPT ![s] = Idle] /\ c \in DOMAIN chains
        /\ "APPROVED" \in Decisions /\ chains[c] \in Chain /\ InOrder(chains[c])
        /\ chains[c].status = "PENDING" /\ chains[c].turn = k
        /\ k \in DOMAIN chains[c].steps
    BY <1>2, <2>1, <2>4
  <2>6. InOrder(row) /\ row.status = outcome
    <3>1. CASE k = Len(chains[c].steps)
      BY <2>2, <2>3, <2>5, <3>1, EndedInOrder DEF Decided
    <3>2. CASE k # Len(chains[c].steps)
      BY <2>2, <2>3, <2>5, <3>2, PassedInOrder DEF Decided
    <3>3. QED
      BY <3>1, <3>2
  <2>7. QED
    BY <2>2, <2>4, <2>5, <2>6, SerialDecided
<1>5. ASSUME NEW s \in Slots, LoadFinalize(s) PROVE SerialInv'
  <2>1. StillTrue([op |-> "finalize", arg |-> NoArg])
    BY DEF StillTrue
  <2>2. Unwritten /\ Loaded(s, "finalize", NoArg)
    BY <1>5 DEF LoadFinalize, docVars, Unwritten
  <2>3. QED
    BY <2>1, <2>2, SerialLoaded
<1>6. ASSUME NEW s \in Slots, CommitFinalize(s) PROVE SerialInv'
  <2>1. /\ req' = [req EXCEPT ![s] = Idle] /\ status' = "FINAL"
        /\ UNCHANGED <<versions, current, chains>>
    BY <1>6 DEF CommitFinalize, Ends
  <2>2. DocumentInv'
    BY <2>1 DEF SerialInv, DocumentInv, NumberInv, ActiveInv, ActiveChains,
                StepsInv, SUBMITTABLE_STATUSES
  <2>3. QED
    BY <2>1, <2>2, SerialEnd
<1>7. ASSUME NEW s \in Slots, NEW u \in Approvers, LoadSubmit(s, u)
      PROVE  SerialInv'
  <2>1. PICK l \in ApproverLists(u) :
          Loaded(s, "submit", [version |-> current, approvers |-> l])
    BY <1>7 DEF LoadSubmit
  <2>2. StillTrue([op |-> "submit", arg |-> [version |-> current, approvers |-> l]])
    BY <1>7 DEF LoadSubmit, StillTrue
  <2>3. Unwritten
    BY <1>7 DEF LoadSubmit, docVars, Unwritten
  <2>4. QED
    BY <2>1, <2>2, <2>3, SerialLoaded
<1>8. ASSUME NEW s \in Slots, NEW u \in Approvers, LoadDecide(s, u)
      PROVE  SerialInv'
  <2>1. PICK c \in DOMAIN chains, d \in Decisions :
          \E k \in DOMAIN chains[c].steps :
            /\ Actionable(c, k, u)
            /\ Loaded(s, "decide", [chain |-> c, step |-> k, decision |-> d])
    BY <1>8 DEF LoadDecide
  <2>2. PICK k \in DOMAIN chains[c].steps :
          /\ Actionable(c, k, u)
          /\ Loaded(s, "decide", [chain |-> c, step |-> k, decision |-> d])
    BY <2>1
  <2>3. StillTrue([op |-> "decide", arg |-> [chain |-> c, step |-> k, decision |-> d]])
    BY <2>2 DEF StillTrue, Actionable
  <2>4. Unwritten
    BY <1>8 DEF LoadDecide, docVars, Unwritten
  <2>5. QED
    BY <2>2, <2>3, <2>4, SerialLoaded
<1>9. QED
  BY <1>1, <1>3, <1>4, <1>5, <1>6, <1>7, <1>8 DEF ApprovalNext

-----------------------------------------------------------------------------
(* Signatures and keys, one request at a time.                             *)

(* Signing marks a version and leaves it its number and its place.         *)
LEMMA SerialMarked ==
  ASSUME Serial, IInv, SerialInv, NEW s \in Slots,
         req' = [req EXCEPT ![s] = Idle], MarkSigned(s), UNCHANGED chains,
         req[s].arg.version \in DOMAIN versions
  PROVE  SerialInv'
<1>1. PICK v0 : v0 = req[s].arg.version
  OBVIOUS
<1>2. PICK row : row = [versions[v0] EXCEPT !.signed = TRUE]
  OBVIOUS
<1>3. /\ versions' = [versions EXCEPT ![v0] = row] /\ current' = current
      /\ status' \in {status, "SIGNED"}
  BY <1>1, <1>2 DEF MarkSigned
<1>4. versions[v0] \in VersionRow /\ v0 \in DOMAIN versions
  BY <1>1, Rows DEF IInv
<1>5. /\ row \in VersionRow /\ row.number = versions[v0].number
      /\ row.began = versions[v0].began
  BY <1>2, <1>4 DEF VersionRow
<1>6. /\ Len(versions') = Len(versions)
      /\ DOMAIN versions' = DOMAIN versions /\ versions'[v0] = row
      /\ \A v \in DOMAIN versions : v # v0 => versions'[v] = versions[v]
  BY <1>3, <1>4, <1>5, Rewritten DEF IInv, DocInv
<1>7. NumberInv'
  BY <1>3, <1>4, <1>5, <1>6 DEF SerialInv, DocumentInv, NumberInv
<1>8. ActiveInv' /\ StepsInv'
  BY <1>3 DEF SerialInv, DocumentInv, ActiveInv, ActiveChains, StepsInv,
              SUBMITTABLE_STATUSES
<1>9. QED
  BY <1>7, <1>8, SerialEnd DEF DocumentInv

LEMMA SerialSigning ==
  ASSUME Serial, IInv, SerialInv, SignaturesNext, UNCHANGED chains
  PROVE  SerialInv'
<1>1. ASSUME NEW s \in Slots, NEW u \in Users,
             \/ LoadRotate(s, u) \/ LoadSign(s, u) \/ LoadRequestSignature(s, u)
             \/ LoadFulfill(s, u) \/ LoadDecline(s, u)
      PROVE  SerialInv'
  <2>1. \E op \in {"rotate", "sign", "request", "fulfill", "decline"} :
          \E arg : Loaded(s, op, arg)
    BY <1>1 DEF LoadRotate, LoadSign, LoadRequestSignature, LoadFulfill,
                LoadDecline
  <2>2. PICK op \in {"rotate", "sign", "request", "fulfill", "decline"} :
          \E arg : Loaded(s, op, arg)
    BY <2>1
  <2>3. PICK arg : Loaded(s, op, arg)
    BY <2>2
  <2>4. Unwritten
    BY <1>1 DEF LoadRotate, LoadSign, LoadRequestSignature, LoadFulfill,
                LoadDecline, docVars, Unwritten
  <2>5. StillTrue([op |-> op, arg |-> arg])
    BY <2>2 DEF StillTrue
  <2>6. QED
    BY <2>3, <2>4, <2>5, SerialLoaded
<1>2. ASSUME NEW s \in Slots, TakeKey(s) PROVE SerialInv'
  <2>1. PICK k : req' = [req EXCEPT ![s] = [req[s] EXCEPT !.arg.key = k]]
    BY <1>2 DEF TakeKey
  <2>2. PICK to : to = [req[s] EXCEPT !.arg.key = k]
    OBVIOUS
  <2>3. req[s].op \in {"sign", "fulfill"} /\ req[s] # Idle /\ ReqOk(req[s])
    BY <1>2 DEF TakeKey, Idle, IInv, ReqInv
  <2>4. to.op = req[s].op
    BY <2>2, <2>3 DEF ReqOk
  <2>5. StillTrue(to)
    BY <2>3, <2>4 DEF StillTrue
  <2>6. Unwritten
    BY <1>2 DEF TakeKey, docVars, Unwritten
  <2>7. QED
    BY <2>1, <2>2, <2>5, <2>6, SerialRead
<1>3. ASSUME NEW s \in Slots,
             CommitRotate(s) \/ CommitRequestSignature(s) \/ CommitDecline(s)
      PROVE  SerialInv'
  <2>1. Unwritten /\ req' = [req EXCEPT ![s] = Idle]
    BY <1>3 DEF CommitRotate, CommitRequestSignature, CommitDecline, Ends,
                docVars, Unwritten
  <2>2. DocumentInv'
    BY <2>1, DocumentStays DEF SerialInv
  <2>3. QED
    BY <2>1, <2>2, SerialEnd
<1>4. ASSUME NEW s \in Slots, CommitSign(s) \/ CommitFulfill(s)
      PROVE  SerialInv'
  <2>1. /\ req[s].op \in {"sign", "fulfill"} /\ req[s] # Idle
        /\ req' = [req EXCEPT ![s] = Idle] /\ MarkSigned(s)
    BY <1>4 DEF CommitSign, CommitFulfill, Ends, Idle
  <2>2. req[s].arg.version \in DOMAIN versions
    BY <2>1, SigningReq
  <2>3. QED
    BY <2>1, <2>2, SerialMarked
<1>5. QED
  BY <1>1, <1>2, <1>3, <1>4 DEF SignaturesNext

-----------------------------------------------------------------------------
(* The invariant of one request at a time, and what it gives.              *)

LEMMA SerialInit == Init => SerialInv
<1> SUFFICES ASSUME Init PROVE SerialInv
  OBVIOUS
<1> USE DEF Init, DocInit
<1>1. NumberInv
  BY DEF NumberInv
<1>2. ActiveInv /\ StepsInv
  BY DEF ActiveInv, ActiveChains, StepsInv
<1>3. \A s \in Slots : StillTrue(req[s])
  BY DEF StillTrue
<1>4. QED
  BY <1>1, <1>2, <1>3 DEF SerialInv, DocumentInv

LEMMA SerialStep ==
  ASSUME Serial, IInv, SerialInv, [Next]_vars
  PROVE  SerialInv'
<1>1. CASE DocNext /\ UNCHANGED <<chains, sigVars, vaultVars>>
  BY <1>1, SerialDoc
<1>2. CASE ApprovalNext /\ UNCHANGED <<sigVars, vaultVars>>
  BY <1>2, SerialApproval
<1>3. CASE SignaturesNext /\ UNCHANGED <<chains, vaultVars>>
  BY <1>3, SerialSigning
<1>4. CASE UNCHANGED <<docVars, chains, req>>
  <2>1. Unwritten /\ UNCHANGED req
    BY <1>4 DEF docVars, Unwritten
  <2>2. DocumentInv'
    BY <2>1, DocumentStays DEF SerialInv
  <2>3. ASSUME NEW s \in Slots PROVE StillTrue(req[s])'
    <3>1. PICK q : q = req[s]
      OBVIOUS
    <3>2. StillTrue(q)'
      BY <2>1, <3>1, StillTrueStays DEF SerialInv
    <3>3. QED
      BY <2>1, <3>1, <3>2
  <2>4. QED
    BY <2>2, <2>3 DEF SerialInv
<1>5. QED
  BY <1>1, <1>2, <1>3, <1>4 DEF Next, vars

\* While requests are served one at a time, what a request has checked is
\* still so when its transaction commits.
THEOREM SerialInvariance == ASSUME Serial PROVE Spec => [](IInv /\ SerialInv)
<1>1. Init => IInv /\ SerialInv
  BY InitInv, SerialInit
<1>2. IInv /\ SerialInv /\ [Next]_vars => (IInv /\ SerialInv)'
  BY StepInv, SerialStep
<1>3. QED
  BY <1>1, <1>2, PTL DEF Spec

\* Versions are numbered 1, 2, 3... without gap or duplicate, through restores
\* and failed requests too, and the document shows the newest.
THEOREM NumberCorrect == ASSUME Serial PROVE Spec => []VersionsMoveForward
<1>1. SerialInv => VersionsMoveForward
  BY DEF SerialInv, DocumentInv, NumberInv, VersionsMoveForward
<1>2. QED
  BY <1>1, SerialInvariance, PTL

\* A document has one active approval chain at most, has one while it is under
\* review, and has none when it may be submitted.
THEOREM ReviewCorrect == ASSUME Serial PROVE Spec => []ReviewMatchesChain
<1>1. SerialInv => ReviewMatchesChain
  <2> SUFFICES ASSUME SerialInv PROVE ReviewMatchesChain
    OBVIOUS
  <2>1. Cardinality(ActiveChains) <= 1
    <3>1. CASE ActiveChains = {}
      BY <3>1, FS_EmptySet
    <3>2. CASE ActiveChains # {}
      <4>1. ActiveChains = {Len(chains)}
        BY <3>2 DEF SerialInv, DocumentInv, ActiveInv
      <4>2. Cardinality({Len(chains)}) = 1
        BY FS_Singleton
      <4>3. QED
        BY <4>1, <4>2
    <3>3. QED
      BY <3>1, <3>2
  <2>2. QED
    BY <2>1 DEF SerialInv, DocumentInv, ActiveInv, ReviewMatchesChain
<1>2. QED
  BY <1>1, SerialInvariance, PTL

\* The approvers of a chain decide one after the other, each once, and nobody
\* after a rejection; a chain is approved when all of them have approved.
THEOREM OrderCorrect == ASSUME Serial PROVE Spec => []ChainsInOrder
<1>1. SerialInv => ChainsInOrder
  BY DEF SerialInv, DocumentInv, StepsInv, InOrder, ChainsInOrder
<1>2. QED
  BY <1>1, SerialInvariance, PTL

\* "Closes out a signed document as FINAL": the only steps that take it
\* through its life again are a signature, which knows no FINAL status, and a
\* decision on a chain that was still pending when the document was signed,
\* which does not look at the status at all (FinalIsTerminal is violated by
\* the first).
OnlyAnswersLeaveFinal ==
  [][status = "FINAL" =>
       \/ status' \in {"FINAL", "DELETED"}
       \/ \E s \in Slots : req[s].op \in {"sign", "fulfill", "decide"}]_status

THEOREM FinalCorrect == ASSUME Serial PROVE Spec => OnlyAnswersLeaveFinal
<1>1. ASSUME IInv, SerialInv, [Next]_vars, status = "FINAL", status' # status,
             \A s \in Slots : req[s].op \notin {"sign", "fulfill", "decide"}
      PROVE  status' = "DELETED"
  <2>1. CASE DocNext
    BY <1>1, <2>1 DEF DocNext, UploadNewDocument, LoadNewVersion, LoadRestore,
       BeginVersion, CommitVersion, LoadDelete, CommitDelete, Abort, docVars
  <2>2. CASE ApprovalNext
    <3>1. ASSUME NEW s \in Slots, CommitSubmit(s) PROVE FALSE
      <4>1. req[s].op = "submit" /\ req[s] # Idle
        BY <3>1 DEF CommitSubmit, Ends, Idle
      <4>2. status \in SUBMITTABLE_STATUSES
        BY <1>1, <4>1 DEF SerialInv, StillTrue
      <4>3. QED
        BY <1>1, <4>2 DEF SUBMITTABLE_STATUSES
    <3>2. ASSUME NEW s \in Slots, CommitApproval(s) \/ CommitRejection(s) PROVE FALSE
      BY <1>1, <3>2 DEF CommitApproval, CommitRejection
    <3>3. ASSUME NEW s \in Slots, CommitFinalize(s) PROVE FALSE
      BY <1>1, <3>3 DEF CommitFinalize
    <3>4. QED
      BY <1>1, <2>2, <3>1, <3>2, <3>3 DEF ApprovalNext, LoadSubmit, LoadDecide,
         LoadFinalize, docVars
  <2>3. CASE SignaturesNext
    BY <1>1, <2>3 DEF SignaturesNext, LoadRotate, CommitRotate, LoadSign, TakeKey,
       CommitSign, LoadRequestSignature, CommitRequestSignature, LoadFulfill,
       CommitFulfill, LoadDecline, CommitDecline, docVars
  <2>4. QED
    BY <1>1, <2>1, <2>2, <2>3 DEF Next, vars, docVars
<1>2. IInv /\ SerialInv /\ [Next]_vars =>
        [status = "FINAL" =>
           \/ status' \in {"FINAL", "DELETED"}
           \/ \E s \in Slots : req[s].op \in {"sign", "fulfill", "decide"}]_status
  BY <1>1
<1>3. QED
  BY <1>2, SerialInvariance, PTL DEF Spec, OnlyAnswersLeaveFinal

-----------------------------------------------------------------------------
(* What the pages offer, one request at a time.                            *)

LEMMA DecidableTurns ==
  ASSUME NEW u, NEW t
  PROVE  t \in Decidable(u) <=>
           \E c \in DOMAIN chains : \E k \in DOMAIN chains[c].steps :
             Actionable(c, k, u) /\ t = Turn(c, k)
BY DEF Decidable

LEMMA PageTurns ==
  ASSUME NEW u, NEW t
  PROVE  t \in myActionableStep(u) <=>
           \E c \in DOMAIN chains : \E k \in DOMAIN chains[c].steps :
             c = Len(chains) /\ Actionable(c, k, u) /\ t = Turn(c, k)
BY DEF myActionableStep, latestRequest, Actionable

LEMMA InboxTurns ==
  ASSUME NEW u, NEW t
  PROVE  t \in inbox(u) <=>
           \E c \in DOMAIN chains : \E k \in DOMAIN chains[c].steps :
             Actionable(c, k, u) /\ t = Turn(c, k)
BY DEF inbox, Actionable

(* The chain that waits for a decision is the newest one, the only one     *)
(* that the page looks at.                                                 *)
LEMMA SameTurns ==
  ASSUME ActiveInv, NEW u
  PROVE  myActionableStep(u) = Decidable(u) /\ inbox(u) = Decidable(u)
<1>1. \A c \in DOMAIN chains : \A k : Actionable(c, k, u) => c = Len(chains)
  BY DEF ActiveInv, ActiveChains, Actionable
<1>2. ASSUME NEW t
      PROVE  /\ t \in myActionableStep(u) <=> t \in Decidable(u)
             /\ t \in inbox(u) <=> t \in Decidable(u)
  BY <1>1, DecidableTurns, PageTurns, InboxTurns
<1>3. QED
  BY <1>2

LEMMA SomebodysTurn ==
  ASSUME IInv, SerialInv, status = "UNDER_REVIEW"
  PROVE  \E u \in Approvers : decideButtons(u) # {}
<1>1. PICK c \in DOMAIN chains : chains[c].status = "PENDING"
  BY DEF SerialInv, DocumentInv, ActiveInv, ActiveChains
<1>2. PICK k : k = chains[c].turn
  OBVIOUS
<1>3. /\ chains[c] \in Chain /\ InOrder(chains[c])
      /\ k \in DOMAIN chains[c].steps
  BY <1>2, Rows DEF IInv, ChainInv, SerialInv, DocumentInv, StepsInv
<1>4. chains[c].steps[k] = "PENDING" /\ k \in DOMAIN chains[c].approvers
  BY <1>1, <1>2, <1>3 DEF InOrder
<1>5. PICK approvers : approvers = chains[c].approvers
  OBVIOUS
<1>6. approvers \in Seq(Approvers)
  BY <1>3, <1>5 DEF Chain
<1>7. approvers[k] \in Approvers
  BY <1>4, <1>5, <1>6, LenProperties
<1>8. PICK u \in Approvers : u = approvers[k]
  BY <1>7
<1>9. Actionable(c, k, u)
  BY <1>1, <1>2, <1>4, <1>5, <1>8 DEF Actionable
<1>10. Turn(c, k) \in Decidable(u)
  BY <1>3, <1>9, DecidableTurns
<1>11. Turn(c, k) \in myActionableStep(u)
  BY <1>10, SameTurns DEF SerialInv, DocumentInv
<1>12. <<Turn(c, k), "APPROVED">> \in decideButtons(u)
  BY <1>11 DEF decideButtons, Decisions
<1>13. QED
  BY <1>12

\* Page, inbox and service agree on whose turn it is, a document under review
\* waits for somebody who is offered a decision, and whoever is asked for a
\* signature is offered the answers that would be accepted.
THEOREM TurnCorrect == ASSUME Serial PROVE Spec => []TurnIsOffered
<1>1. IInv /\ SerialInv => TurnIsOffered
  <2> SUFFICES ASSUME IInv, SerialInv PROVE TurnIsOffered
    OBVIOUS
  <2>1. ASSUME NEW u \in Approvers
        PROVE  /\ decideButtons(u) = Decidable(u) \X Decisions
               /\ inboxCards(u) = decideButtons(u)
    BY SameTurns DEF SerialInv, DocumentInv, decideButtons, inboxCards
  <2>2. finalizeButton <=> Finalizable
    BY DEF finalizeButton, Finalizable
  <2>3. ASSUME NEW u \in Users
        PROVE  /\ {i \in queue(u) : [item |-> i, answer |-> "decline"] \in queueCards(u)}
                    = Declinable(u)
               /\ ActiveKeys(u) # {} =>
                    \A i \in Fulfillable(u) :
                      [item |-> i, answer |-> "sign"] \in queueCards(u)
    <3>1. queue(u) = Declinable(u)
      BY DEF queue, Declinable
    <3>2. \A i \in queue(u) : [item |-> i, answer |-> "decline"] \in queueCards(u)
      BY DEF queueCards
    <3>3. ActiveKeys(u) # {} =>
            \A i \in queue(u) : [item |-> i, answer |-> "sign"] \in queueCards(u)
      BY DEF queueCards
    <3>4. Fulfillable(u) \subseteq Declinable(u)
      BY DEF Fulfillable
    <3>5. QED
      BY <3>1, <3>2, <3>3, <3>4
  <2>4. QED
    BY <2>1, <2>2, <2>3, SomebodysTurn DEF TurnIsOffered
<1>2. QED
  BY <1>1, SerialInvariance, PTL
=============================================================================
