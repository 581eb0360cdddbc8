------------------------------ MODULE Sharing -------------------------------
(***************************************************************************)
(* Time-limited shares of the case's document (modules/sharing): each is a *)
(* row of its own on top of one explicit grant.  A share keeps no status:  *)
(* it is computed from the grant whenever the share is read.               *)
(***************************************************************************)
EXTENDS Access

CONSTANT ShareCodes   \* permissions shared in this instance

ASSUME ShareCodesAssumption == ShareCodes \subseteq {"VIEW", "DOWNLOAD"}

VARIABLE shares       \* document_shares rows

\* Mutant: the status is computed from the expiry alone.
shareStatusByExpiry(share) ==
  IF grants[share.grant].expires = "past" THEN "EXPIRED" ELSE "ACTIVE"

\* STATUS_EXPR
shareStatus(share) ==
  LET grant == grants[share.grant]
  IN CASE grant.revoked -> "REVOKED"
       [] ~grant.revoked /\ grant.expires = "past" -> "EXPIRED"
       [] OTHER -> "ACTIVE"

SharingInit == shares = << >>

createShare(s) ==
  /\ Now < MaxRows
  /\ \E user \in Users :
       Guarded(s, user, "share", "SHARE", "DOCUMENT", NoArg)
  /\ UNCHANGED <<accessVars, shares>>

\* The grant, then the share that refers to it.  Nobody shares with himself.
insertShare(s) ==
  /\ Ends(s, "share", "allowed") /\ Now < MaxRows
  /\ \E to \in Users \ {req[s].user}, c \in ShareCodes :
       /\ grants' = Append(grants,
                           Grant("DOCUMENT", to, c, req[s].user, req[s].held,
                                 "future"))
       /\ shares' = Append(shares,
                           [grant |-> Len(grants'), to |-> to, code |-> c])
  /\ UNCHANGED members

revokeShare(s) ==
  /\ \E user \in Users, h \in DOMAIN shares :
       Guarded(s, user, "unshare", "SHARE", "DOCUMENT", [share |-> h])
  /\ UNCHANGED <<accessVars, shares>>

ReadShare(s) ==
  /\ Reads(s, "unshare", req[s].arg)
  /\ shareStatus(shares[req[s].arg.share]) # "REVOKED"
  /\ UNCHANGED <<accessVars, shares>>

CommitRevokeShare(s) ==
  /\ Ends(s, "unshare", "read")
  /\ grants' = [grants EXCEPT ![shares[req[s].arg.share].grant].revoked = TRUE]
  /\ UNCHANGED <<members, shares>>

SharingNext == \E s \in Slots : \/ createShare(s)
                                \/ insertShare(s)
                                \/ revokeShare(s)
                                \/ ReadShare(s)
                                \/ CommitRevokeShare(s)
=============================================================================
