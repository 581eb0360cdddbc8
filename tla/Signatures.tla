----------------------------- MODULE Signatures -----------------------------
(***************************************************************************)
(* Signing keys and the signatures of a document                           *)
(* (modules/signatures/signatures.service.js).                             *)
(*                                                                         *)
(* A signing transaction reads the signer's active key before it writes,   *)
(* so that is a step of its own (TakeKey).  A file's content stands for    *)
(* its hash, and a signature row for the RSA signature it holds.           *)
(***************************************************************************)
EXTENDS Documents

CONSTANTS Users,           \* users who may sign
          MaxSignatures,   \* bound on the document's signature rows
          MaxKeys          \* bound on the keys generated

VARIABLES signatures,      \* document_signatures rows, oldest first
          keys             \* user_keys rows, oldest first

sigVars == <<signatures, keys>>

-----------------------------------------------------------------------------
ActiveKeys(u) == {k \in DOMAIN keys : keys[k].owner = u /\ keys[k].active}

PendingSignature(version, signer) ==
  [version |-> version, signer |-> signer, status |-> "PENDING",
   hash |-> "none", key |-> 0]

Signed(version, signer, key) ==
  [version |-> version, signer |-> signer, status |-> "SIGNED",
   hash |-> versions[version].content, key |-> key]

\* What a signing request keeps: the signer, the version to sign, the pending row it
\* answers (0: none), and whether the document was deleted when it was read.
\* The key is filled in later.
Signing(u, i) == [user |-> u, version |-> current, item |-> i, key |-> 0,
                  deleted |-> status = "DELETED"]

\* markVersionSigned, and SIGNED unless the document was deleted when read.
MarkSigned(s) ==
  /\ versions' = [versions EXCEPT ![req[s].arg.version].signed = TRUE]
  /\ status' = IF req[s].arg.deleted THEN status ELSE "SIGNED"
  /\ UNCHANGED current

\* loadPendingOrThrow
Pending(i, u) == signatures[i].status = "PENDING" /\ signatures[i].signer = u

\* The requests that u may decline, and those he may sign: fulfillPending
\* refuses when the document has moved on since the request.
Declinable(u)  == {i \in DOMAIN signatures : Pending(i, u)}
Fulfillable(u) == {i \in Declinable(u) : signatures[i].version = current}

-----------------------------------------------------------------------------
\* generateOrRotateKey, first statement: revoke the active key, if any.
LoadRotate(s, u) ==
  /\ Len(keys) < MaxKeys
  /\ Loaded(s, "rotate", [user |-> u, revokes |-> ActiveKeys(u)])
  /\ UNCHANGED <<docVars, sigVars>>

\* Mutant: there is no unique index on the active key of a user.
CommitRotateWithoutIndex(s) ==
  /\ Ends(s, "rotate")
  /\ Len(keys) < MaxKeys
  /\ keys' = Append([k \in DOMAIN keys |->
                       IF k \in req[s].arg.revokes THEN [keys[k] EXCEPT !.active = FALSE]
                       ELSE keys[k]],
                    [owner |-> req[s].arg.user, active |-> TRUE])
  /\ UNCHANGED <<docVars, signatures>>

\* Second statement and COMMIT.  When another rotation of the same user has
\* committed since, the unique index refuses the insert and all is rolled
\* back (Abort).
CommitRotate(s) ==
  /\ Ends(s, "rotate")
  /\ ActiveKeys(req[s].arg.user) = req[s].arg.revokes
  /\ Len(keys) < MaxKeys
  /\ keys' = Append([k \in DOMAIN keys |->
                       IF k \in req[s].arg.revokes THEN [keys[k] EXCEPT !.active = FALSE]
                       ELSE keys[k]],
                    [owner |-> req[s].arg.user, active |-> TRUE])
  /\ UNCHANGED <<docVars, signatures>>

\* selfSign: of the version that was current when it was read.
LoadSign(s, u) ==
  /\ Len(signatures) < MaxSignatures
  /\ Loaded(s, "sign", Signing(u, 0))
  /\ UNCHANGED <<docVars, sigVars>>

\* Mutant: any active key will do.
TakeAnyKey(s) ==
  /\ req[s].op \in {"sign", "fulfill"} /\ req[s].arg.key = 0
  /\ \E k \in UNION {ActiveKeys(u) : u \in Users} :
       req' = [req EXCEPT ![s].arg.key = k]
  /\ UNCHANGED <<docVars, sigVars>>

\* findActiveUserKey inside the transaction; without one the request fails.
TakeKey(s) ==
  /\ req[s].op \in {"sign", "fulfill"} /\ req[s].arg.key = 0
  /\ \E k \in ActiveKeys(req[s].arg.user) : req' = [req EXCEPT ![s].arg.key = k]
  /\ UNCHANGED <<docVars, sigVars>>

CommitSign(s) ==
  /\ req[s].op = "sign" /\ req[s].arg.key # 0
  /\ Ends(s, "sign")
  /\ Len(signatures) < MaxSignatures
  /\ signatures' = Append(signatures,
                     Signed(req[s].arg.version, req[s].arg.user, req[s].arg.key))
  /\ MarkSigned(s)
  /\ UNCHANGED keys

\* requestSignature: from another member.
LoadRequestSignature(s, u) ==
  /\ Len(signatures) < MaxSignatures
  /\ \E to \in Users \ {u} :
       Loaded(s, "request", [version |-> current, to |-> to])
  /\ UNCHANGED <<docVars, sigVars>>

CommitRequestSignature(s) ==
  /\ Ends(s, "request")
  /\ Len(signatures) < MaxSignatures
  /\ signatures' = Append(signatures,
                          PendingSignature(req[s].arg.version, req[s].arg.to))
  /\ UNCHANGED <<docVars, keys>>

\* fulfillPending
LoadFulfill(s, u) ==
  /\ \E i \in Fulfillable(u) : Loaded(s, "fulfill", Signing(u, i))
  /\ UNCHANGED <<docVars, sigVars>>

\* Mutant: UPDATE without AND status = 'PENDING'.
CommitFulfillAnyway(s) ==
  /\ req[s].op = "fulfill" /\ req[s].arg.key # 0
  /\ Ends(s, "fulfill")
  /\ signatures' = [signatures EXCEPT ![req[s].arg.item] =
                      Signed(req[s].arg.version, req[s].arg.user, req[s].arg.key)]
  /\ MarkSigned(s)
  /\ UNCHANGED keys

\* UPDATE ... WHERE status = 'PENDING'.  When the request has been answered
\* meanwhile no row comes back, reading its id throws, and the transaction is
\* rolled back (Abort).
CommitFulfill(s) ==
  /\ req[s].op = "fulfill" /\ req[s].arg.key # 0
  /\ signatures[req[s].arg.item].status = "PENDING"
  /\ Ends(s, "fulfill")
  /\ signatures' = [signatures EXCEPT ![req[s].arg.item] =
                      Signed(req[s].arg.version, req[s].arg.user, req[s].arg.key)]
  /\ MarkSigned(s)
  /\ UNCHANGED keys

\* declinePending, with the same guard in its UPDATE.
LoadDecline(s, u) ==
  /\ \E i \in Declinable(u) : Loaded(s, "decline", [item |-> i])
  /\ UNCHANGED <<docVars, sigVars>>

\* Mutant: the decline's UPDATE has no AND status = 'PENDING'.
CommitDeclineAnyway(s) ==
  /\ Ends(s, "decline")
  /\ signatures' = [signatures EXCEPT ![req[s].arg.item].status = "DECLINED"]
  /\ UNCHANGED <<docVars, keys>>

CommitDecline(s) ==
  /\ req[s].op = "decline"
  /\ signatures[req[s].arg.item].status = "PENDING"
  /\ Ends(s, "decline")
  /\ signatures' = [signatures EXCEPT ![req[s].arg.item].status = "DECLINED"]
  /\ UNCHANGED <<docVars, keys>>

SignaturesNext ==
  \E s \in Slots :
    \/ CommitRotate(s)
    \/ TakeKey(s)
    \/ CommitSign(s)
    \/ CommitRequestSignature(s)
    \/ CommitFulfill(s)
    \/ CommitDecline(s)
    \/ \E u \in Users : \/ LoadRotate(s, u)
                        \/ LoadSign(s, u)
                        \/ LoadRequestSignature(s, u)
                        \/ LoadFulfill(s, u)
                        \/ LoadDecline(s, u)
=============================================================================
