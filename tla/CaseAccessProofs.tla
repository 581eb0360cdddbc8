-------------------------- MODULE CaseAccessProofs --------------------------
(***************************************************************************)
(* Proofs about CaseAccess for any users with any roles, any resources and *)
(* any number of requests served at the same time.  The last part says     *)
(* what holds besides when requests are served one at a time.              *)
(***************************************************************************)
EXTENDS CaseAccess, TLAPS, SequenceTheorems, FiniteSetTheorems

-----------------------------------------------------------------------------
(* The inductive invariant.                                                *)

\* GaveShare of given rows, for a case or its document; anything else is given
\* by top command.
HeldIn(ms, gs, u, r, at, through) ==
  IF r \in {"CASE", "DOCUMENT"}
  THEN /\ CeilingAllows(u, "SHARE")
       /\ through # {}
       /\ \A t \in through :
            /\ t < at
            /\ \/ \E m \in DOMAIN ms :
                    /\ ms[m].user = u /\ ms[m].at = t
                    /\ "SHARE" \in CASE_ROLE_ACTIONS[ms[m].caseRole]
               \/ \E g \in DOMAIN gs :
                    /\ gs[g].user = u /\ gs[g].at = t
                    /\ gs[g].resource = r /\ gs[g].code = "SHARE"
  ELSE RoleOf[u] \in TOP_OVERSIGHT_ROLES

CaseRow == [status : CASE_STATUSES \cup {"NONE"}, closed : BOOLEAN,
            archived : BOOLEAN]

RowInv ==
  /\ members \in Seq(MemberRow)
  /\ grants \in Seq(GrantRow)
  /\ shares \in Seq(ShareRow)
  /\ case \in CaseRow
  /\ raced \in BOOLEAN

\* case_members_active_unique
UniqueInv == \A u \in Users : \A m, n \in ActiveRows(u) : m = n

\* A share's grant is its own and says what the share says.
ShareInv ==
  \A h \in DOMAIN shares :
    /\ shares[h].grant \in DOMAIN grants
    /\ grants[shares[h].grant].resource = "DOCUMENT"
    /\ grants[shares[h].grant].user = shares[h].to
    /\ grants[shares[h].grant].code = shares[h].code
    /\ \A k \in DOMAIN shares : shares[h].grant = shares[k].grant => h = k

\* Rows are older than the next one.
AgeInv == /\ \A m \in DOMAIN members : members[m].at < Now
          /\ \A g \in DOMAIN grants : grants[g].at < Now

\* Before the case exists it has no members.
NoCaseInv == case.status = "NONE" => members = << >>

IsOwner(m) == members[m].caseRole = "OWNER" /\ members[m].active

OwnerInv == (case.status # "NONE" /\ ~raced) => \E m \in DOMAIN members : IsOwner(m)

StampsOk(row) == /\ row.closed <=> row.status \in {"CLOSED", "ARCHIVED"}
                 /\ row.archived <=> row.status = "ARCHIVED"

\* What a request has checked, or read, when it goes on.
ReqOk(r) ==
  r = Idle \/
  /\ r = [op |-> r.op, user |-> r.user, action |-> r.action,
          resource |-> r.resource, arg |-> r.arg, held |-> r.held,
          stage |-> r.stage]
  /\ r.user \in Users
  /\ r.held \in SUBSET Nat
  /\ r.op \in {"grant", "add", "share"} =>
       /\ r.action = "SHARE"
       /\ r.stage = "grant?" => /\ r.resource \in {"CASE", "DOCUMENT"}
                                /\ CeilingAllows(r.user, "SHARE")
       /\ r.stage # "grant?" =>
            HeldIn(members, grants, r.user, r.resource, Now, r.held)
  /\ r.op = "grant" => r.resource \in Resources
  /\ r.op = "add" => r.resource = "CASE"
  /\ r.op = "share" => r.resource = "DOCUMENT"
  /\ r.op \in {"status", "add", "remove"} => case.status # "NONE"
  /\ r.op = "status" /\ r.stage = "read" =>
       r.arg.row \in CaseRow /\ r.arg.row.status # "NONE" /\ StampsOk(r.arg.row)
  /\ r.op = "add" /\ r.stage = "read" => r.arg.user \in Users
  /\ r.op = "remove" /\ r.stage = "read" =>
       /\ r.arg.user \in Users
       /\ r.arg.role = "OWNER" => r.arg.owners > 1
  /\ r.op = "revoke" => r.arg.grant \in DOMAIN grants
  /\ r.op = "unshare" => r.arg.share \in DOMAIN shares

ReqInv == /\ req = [s \in Slots |-> req[s]]
          /\ \A s \in Slots : ReqOk(req[s])

IInv == /\ RowInv
        /\ UniqueInv
        /\ ShareInv
        /\ AgeInv
        /\ NoCaseInv
        /\ OwnerInv
        /\ StampsOk(case)
        /\ AccessTracesToCreator
        /\ ReqInv

-----------------------------------------------------------------------------
(* What stays of rows while others are added or rows change state.         *)
Grown(ms, ms2) ==
  \A m \in DOMAIN ms : /\ m \in DOMAIN ms2
                       /\ ms2[m].user = ms[m].user
                       /\ ms2[m].by = ms[m].by
                       /\ ms2[m].at = ms[m].at
                       /\ ms2[m].through = ms[m].through
                       /\ ms2[m].caseRole = ms[m].caseRole

GrantsGrown(gs, gs2) ==
  \A g \in DOMAIN gs : /\ g \in DOMAIN gs2
                       /\ gs2[g].user = gs[g].user
                       /\ gs2[g].by = gs[g].by
                       /\ gs2[g].at = gs[g].at
                       /\ gs2[g].through = gs[g].through
                       /\ gs2[g].resource = gs[g].resource
                       /\ gs2[g].code = gs[g].code

(* A right that was held stays a right that was held.                      *)
LEMMA HeldStays ==
  ASSUME NEW ms, NEW ms2, NEW gs, NEW gs2, NEW u, NEW r,
         NEW at \in Nat, NEW later \in Nat, at <= later,
         NEW through \in SUBSET Nat,
         Grown(ms, ms2), GrantsGrown(gs, gs2),
         HeldIn(ms, gs, u, r, at, through)
  PROVE  HeldIn(ms2, gs2, u, r, later, through)
<1>1. CASE r \notin {"CASE", "DOCUMENT"}
  BY <1>1 DEF HeldIn
<1>2. CASE r \in {"CASE", "DOCUMENT"}
  <2>1. CeilingAllows(u, "SHARE") /\ through # {}
    BY <1>2 DEF HeldIn
  <2>2. ASSUME NEW t \in through
        PROVE  /\ t < later
               /\ \/ \E m \in DOMAIN ms2 :
                       /\ ms2[m].user = u /\ ms2[m].at = t
                       /\ "SHARE" \in CASE_ROLE_ACTIONS[ms2[m].caseRole]
                  \/ \E g \in DOMAIN gs2 :
                       /\ gs2[g].user = u /\ gs2[g].at = t
                       /\ gs2[g].resource = r /\ gs2[g].code = "SHARE"
    <3>1. /\ t < at
          /\ \/ \E m \in DOMAIN ms :
                  /\ ms[m].user = u /\ ms[m].at = t
                  /\ "SHARE" \in CASE_ROLE_ACTIONS[ms[m].caseRole]
             \/ \E g \in DOMAIN gs :
                  /\ gs[g].user = u /\ gs[g].at = t
                  /\ gs[g].resource = r /\ gs[g].code = "SHARE"
      BY <1>2 DEF HeldIn
    <3>2. t < later
      <4>1. t < at
        BY <3>1
      <4>2. QED
        BY <4>1
    <3>3. ASSUME NEW m \in DOMAIN ms, ms[m].user = u, ms[m].at = t,
                 "SHARE" \in CASE_ROLE_ACTIONS[ms[m].caseRole]
          PROVE  /\ m \in DOMAIN ms2 /\ ms2[m].user = u /\ ms2[m].at = t
                 /\ "SHARE" \in CASE_ROLE_ACTIONS[ms2[m].caseRole]
      BY <3>3 DEF Grown
    <3>4. ASSUME NEW g \in DOMAIN gs, gs[g].user = u, gs[g].at = t,
                 gs[g].resource = r, gs[g].code = "SHARE"
          PROVE  /\ g \in DOMAIN gs2 /\ gs2[g].user = u /\ gs2[g].at = t
                 /\ gs2[g].resource = r /\ gs2[g].code = "SHARE"
      BY <3>4 DEF GrantsGrown
    <3>5. QED
      BY <3>1, <3>2, <3>3, <3>4
  <2>3. QED
    BY <1>2, <2>1, <2>2 DEF HeldIn
<1>3. QED
  BY <1>1, <1>2

(* Rows are functions of positions, and their ages are numbers.            *)
LEMMA RowTypes ==
  ASSUME RowInv
  PROVE  /\ Now \in Nat
         /\ Len(members) \in Nat /\ DOMAIN members = 1..Len(members)
         /\ Len(grants) \in Nat /\ DOMAIN grants = 1..Len(grants)
         /\ Len(shares) \in Nat /\ DOMAIN shares = 1..Len(shares)
         /\ \A m \in DOMAIN members : members[m] \in MemberRow
         /\ \A g \in DOMAIN grants : grants[g] \in GrantRow
         /\ \A h \in DOMAIN shares : shares[h] \in ShareRow
         /\ \A m \in DOMAIN members : members[m].at \in Nat
         /\ \A g \in DOMAIN grants : grants[g].at \in Nat
<1>1. /\ Len(members) \in Nat /\ DOMAIN members = 1..Len(members)
      /\ Len(grants) \in Nat /\ DOMAIN grants = 1..Len(grants)
      /\ Len(shares) \in Nat /\ DOMAIN shares = 1..Len(shares)
  BY LenProperties DEF RowInv
<1>2. /\ \A m \in DOMAIN members : members[m] \in MemberRow
      /\ \A g \in DOMAIN grants : grants[g] \in GrantRow
      /\ \A h \in DOMAIN shares : shares[h] \in ShareRow
  BY <1>1, ElementOfSeq DEF RowInv
<1>3. QED
  BY <1>1, <1>2 DEF Now, MemberRow, GrantRow

(* The rows a request is let through by have an age.                       *)
LEMMA RightsAreAges ==
  ASSUME RowInv, NEW u, NEW action, NEW r
  PROVE  RightsInForce(u, action, r) \in SUBSET Nat
BY RowTypes DEF RightsInForce, ActiveRows

(* Whoever is let through by the engine for SHARE holds the right.         *)
LEMMA RightsHold ==
  ASSUME RowInv, AgeInv, NEW u \in Users, NEW r, CeilingAllows(u, "SHARE"),
         RightsInForce(u, "SHARE", r) # {}, r \in {"CASE", "DOCUMENT"}
  PROVE  HeldIn(members, grants, u, r, Now, RightsInForce(u, "SHARE", r))
<1> DEFINE through == RightsInForce(u, "SHARE", r)
<1>1. ASSUME NEW t \in through
      PROVE  /\ t < Now
             /\ \/ \E m \in DOMAIN members :
                     /\ members[m].user = u /\ members[m].at = t
                     /\ "SHARE" \in CASE_ROLE_ACTIONS[members[m].caseRole]
                \/ \E g \in DOMAIN grants :
                     /\ grants[g].user = u /\ grants[g].at = t
                     /\ grants[g].resource = r /\ grants[g].code = "SHARE"
  BY <1>1 DEF RightsInForce, ActiveRows, AgeInv
<1> HIDE DEF through
<1>2. through # {}
  BY DEF through
<1>3. HeldIn(members, grants, u, r, Now, through)
  BY <1>1, <1>2 DEF HeldIn
<1>4. QED
  BY <1>3 DEF through

LEMMA ScopeHolds ==
  ASSUME RowInv, AgeInv, NEW u \in Users, NEW r, CeilingAllows(u, "SHARE"),
         ScopeAllows(u, "SHARE", r), r \in {"CASE", "DOCUMENT"}
  PROVE  HeldIn(members, grants, u, r, Now, RightsInForce(u, "SHARE", r))
<1>1. PICK m \in ActiveRows(u) : "SHARE" \in CASE_ROLE_ACTIONS[members[m].caseRole]
  BY DEF ScopeAllows, checkCaseScope
<1>2. members[m].at \in RightsInForce(u, "SHARE", r)
  BY <1>1 DEF RightsInForce, ScopeAllows
<1>3. QED
  BY <1>2, RightsHold

LEMMA GrantHolds ==
  ASSUME RowInv, AgeInv, NEW u \in Users, NEW r, CeilingAllows(u, "SHARE"),
         checkResourceGrant(u, r, "SHARE"), r \in {"CASE", "DOCUMENT"}
  PROVE  HeldIn(members, grants, u, r, Now, RightsInForce(u, "SHARE", r))
<1>1. PICK g \in DOMAIN grants : /\ grants[g].user = u
                                 /\ grants[g].resource = r
                                 /\ grants[g].code = "SHARE"
                                 /\ InForce(grants[g])
  BY DEF checkResourceGrant
<1>2. grants[g].at \in RightsInForce(u, "SHARE", r)
  BY <1>1 DEF RightsInForce
<1>3. QED
  BY <1>2, RightsHold

-----------------------------------------------------------------------------
(* A step that only changes what one request carries.                      *)
LEMMA RequestStep ==
  ASSUME IInv, UNCHANGED <<members, grants, shares, case, raced>>,
         NEW s \in Slots, NEW to, req' = [req EXCEPT ![s] = to], ReqOk(to)
  PROVE  IInv'
<1>1. Now' = Now
  BY DEF Now
<1>2. ReqInv'
  BY <1>1 DEF IInv, ReqInv, ReqOk
<1>3. RowInv' /\ UniqueInv' /\ ShareInv' /\ AgeInv' /\ NoCaseInv' /\ OwnerInv'
  BY <1>1 DEF IInv, RowInv, UniqueInv, ActiveRows, ShareInv, AgeInv, NoCaseInv,
              OwnerInv, IsOwner
<1>4. StampsOk(case)' /\ AccessTracesToCreator'
  BY DEF IInv, StampsOk, AccessTracesToCreator, GaveShare
<1>5. QED
  BY <1>2, <1>3, <1>4 DEF IInv

(* Requests under way keep what they checked while rows are written.       *)
LEMMA ReqStays ==
  ASSUME RowInv, RowInv', ReqInv, Grown(members, members'),
         GrantsGrown(grants, grants'), Now <= Now',
         DOMAIN shares \subseteq DOMAIN shares',
         case.status # "NONE" => case'.status # "NONE",
         req' = req \/ \E s \in Slots : req' = [req EXCEPT ![s] = Idle]
  PROVE  ReqInv'
<1>1. req' = [s \in Slots |-> req'[s]]
  BY DEF ReqInv
<1>2. \A s \in Slots : req'[s] = req[s] \/ req'[s] = Idle
  BY DEF ReqInv
<1>3. Now \in Nat /\ Now' \in Nat
  <2>1. Now \in Nat
    BY RowTypes
  <2>2. Len(members') \in Nat /\ Len(grants') \in Nat
    BY LenProperties DEF RowInv
  <2>3. QED
    BY <2>1, <2>2 DEF Now
<1>4. ASSUME NEW s \in Slots, req[s] # Idle, req'[s] = req[s]
      PROVE  ReqOk(req[s])'
  <2> DEFINE r == req[s]
  <2>1. ReqOk(r)
    BY DEF ReqInv
  <2>2. ASSUME HeldIn(members, grants, r.user, r.resource, Now, r.held)
        PROVE  HeldIn(members', grants', r.user, r.resource, Now', r.held)
    <3>1. r.held \in SUBSET Nat
      BY <1>4, <2>1 DEF ReqOk
    <3>2. QED
      BY <1>3, <2>2, <3>1, HeldStays
  <2>3. DOMAIN grants \subseteq DOMAIN grants'
    BY DEF GrantsGrown
  <2>4. QED
    BY <1>4, <2>1, <2>2, <2>3 DEF ReqOk
<1>5. QED
  BY <1>1, <1>2, <1>4 DEF ReqInv, ReqOk

(* Access that traces to the creator still does when rows are added that   *)
(* do, or rows are revoked.                                                *)
LEMMA TraceStays ==
  ASSUME RowInv, Grown(members, members'), GrantsGrown(grants, grants'),
         AccessTracesToCreator,
         \A m \in DOMAIN members' \ DOMAIN members :
           LET row == members'[m]
           IN m > 1 => HeldIn(members', grants', row.by, "CASE", row.at, row.through),
         \A g \in DOMAIN grants' \ DOMAIN grants :
           LET row == grants'[g]
           IN HeldIn(members', grants', row.by, row.resource, row.at, row.through)
  PROVE  AccessTracesToCreator'
<1>1. ASSUME NEW m \in DOMAIN members, m > 1
      PROVE  HeldIn(members', grants', members'[m].by, "CASE", members'[m].at,
                    members'[m].through)
  <2> DEFINE row == members[m]
  <2>1. HeldIn(members, grants, row.by, "CASE", row.at, row.through)
    BY <1>1 DEF AccessTracesToCreator, GaveShare, HeldIn
  <2>2. row.at \in Nat /\ row.at <= row.at /\ row.through \in SUBSET Nat
    BY RowTypes DEF MemberRow
  <2> HIDE DEF row
  <2>3. HeldIn(members', grants', row.by, "CASE", row.at, row.through)
    BY <2>1, <2>2, HeldStays
  <2>4. QED
    BY <2>3 DEF Grown, row
<1>2. ASSUME NEW g \in DOMAIN grants
      PROVE  HeldIn(members', grants', grants'[g].by, grants'[g].resource,
                    grants'[g].at, grants'[g].through)
  <2> DEFINE row == grants[g]
  <2>1. HeldIn(members, grants, row.by, row.resource, row.at, row.through)
    BY DEF AccessTracesToCreator, GaveShare, HeldIn
  <2>2. row.at \in Nat /\ row.at <= row.at /\ row.through \in SUBSET Nat
    BY RowTypes DEF GrantRow
  <2> HIDE DEF row
  <2>3. HeldIn(members', grants', row.by, row.resource, row.at, row.through)
    BY <2>1, <2>2, HeldStays
  <2>4. QED
    BY <2>3 DEF GrantsGrown, row
<1>3. /\ \A m \in DOMAIN members' : m > 1 =>
           HeldIn(members', grants', members'[m].by, "CASE", members'[m].at,
                  members'[m].through)
      /\ \A g \in DOMAIN grants' :
           HeldIn(members', grants', grants'[g].by, grants'[g].resource,
                  grants'[g].at, grants'[g].through)
  BY <1>1, <1>2
<1>4. QED
  BY <1>3 DEF AccessTracesToCreator, GaveShare, HeldIn

(* A new member row.                                                       *)
LEMMA AppendMember ==
  ASSUME RowInv, AgeInv, NEW row \in MemberRow, row.at = Now,
         members' = Append(members, row), UNCHANGED grants
  PROVE  /\ members' \in Seq(MemberRow)
         /\ Len(members) \in Nat
         /\ DOMAIN members' = DOMAIN members \cup {Len(members) + 1}
         /\ Len(members) + 1 \notin DOMAIN members
         /\ members'[Len(members) + 1] = row
         /\ \A m \in DOMAIN members : members'[m] = members[m]
         /\ Grown(members, members') /\ GrantsGrown(grants, grants')
         /\ Now' = Now + 1 /\ Now \in Nat
         /\ AgeInv'
<1>1. /\ members' \in Seq(MemberRow)
      /\ Len(members) \in Nat /\ Len(members') = Len(members) + 1
      /\ DOMAIN members = 1..Len(members) /\ DOMAIN members' = 1..(Len(members) + 1)
      /\ members'[Len(members) + 1] = row
      /\ \A m \in 1..Len(members) : members'[m] = members[m]
  BY AppendProperties, LenProperties DEF RowInv
<1>2. Grown(members, members') /\ GrantsGrown(grants, grants')
  BY <1>1 DEF Grown, GrantsGrown
<1>3. Now' = Now + 1 /\ Now \in Nat
  BY <1>1, RowTypes DEF Now
<1>4. AgeInv'
  BY <1>1, <1>3, RowTypes DEF AgeInv
<1>5. QED
  BY <1>1, <1>2, <1>3, <1>4

(* A new grant row.                                                        *)
LEMMA AppendGrant ==
  ASSUME RowInv, AgeInv, NEW row \in GrantRow, row.at = Now,
         grants' = Append(grants, row), UNCHANGED members
  PROVE  /\ grants' \in Seq(GrantRow)
         /\ Len(grants) \in Nat /\ Len(grants') = Len(grants) + 1
         /\ DOMAIN grants' = DOMAIN grants \cup {Len(grants) + 1}
         /\ Len(grants) + 1 \notin DOMAIN grants
         /\ grants'[Len(grants) + 1] = row
         /\ \A g \in DOMAIN grants : grants'[g] = grants[g]
         /\ Grown(members, members') /\ GrantsGrown(grants, grants')
         /\ Now' = Now + 1 /\ Now \in Nat
         /\ AgeInv'
<1>1. /\ grants' \in Seq(GrantRow)
      /\ Len(grants) \in Nat /\ Len(grants') = Len(grants) + 1
      /\ DOMAIN grants = 1..Len(grants) /\ DOMAIN grants' = 1..(Len(grants) + 1)
      /\ grants'[Len(grants) + 1] = row
      /\ \A g \in 1..Len(grants) : grants'[g] = grants[g]
  BY AppendProperties, LenProperties DEF RowInv
<1>2. Grown(members, members') /\ GrantsGrown(grants, grants')
  BY <1>1 DEF Grown, GrantsGrown
<1>3. Now' = Now + 1 /\ Now \in Nat
  BY <1>1, RowTypes DEF Now
<1>4. AgeInv'
  BY <1>1, <1>3, RowTypes DEF AgeInv
<1>5. QED
  BY <1>1, <1>2, <1>3, <1>4
-----------------------------------------------------------------------------
(* Requests that come in, are checked and read.                            *)

(* requirePermission.                                                      *)
LEMMA GuardedStep ==
  ASSUME IInv, UNCHANGED <<members, grants, shares, case, raced>>,
         NEW s \in Slots, NEW user \in Users, NEW op, NEW action,
         NEW resource, NEW arg, Guarded(s, user, op, action, resource, arg),
         op \in {"grant", "add", "share"} =>
           action = "SHARE" /\ resource \in {"CASE", "DOCUMENT"},
         op = "grant" => resource \in Resources,
         op = "add" => resource = "CASE",
         op = "share" => resource = "DOCUMENT",
         op \in {"status", "add", "remove"} => case.status # "NONE",
         op = "revoke" => arg.grant \in DOMAIN grants,
         op = "unshare" => arg.share \in DOMAIN shares
  PROVE  IInv'
<1> DEFINE stage == IF ScopeAllows(user, action, resource)
                    THEN "allowed" ELSE "grant?"
           held == RightsInForce(user, action, resource)
           to == [op |-> op, user |-> user, action |-> action,
                  resource |-> resource, arg |-> arg, held |-> held,
                  stage |-> stage]
<1>1. req' = [req EXCEPT ![s] = to] /\ CeilingAllows(user, action)
  BY DEF Guarded
<1>2. stage = "allowed" /\ op \in {"grant", "add", "share"} =>
        HeldIn(members, grants, user, resource, Now, held)
  BY <1>1, ScopeHolds DEF IInv
<1>3. stage \in {"allowed", "grant?"} /\ held \in SUBSET Nat
  BY RightsAreAges DEF IInv
<1> HIDE DEF stage, held
<1>4. ReqOk(to)
  BY <1>1, <1>2, <1>3 DEF ReqOk
<1> HIDE DEF to
<1>5. QED
  BY <1>1, <1>4, RequestStep

(* can(), second query.                                                    *)
LEMMA CheckGrantStep ==
  ASSUME IInv, NEW s \in Slots, CheckGrant(s),
         UNCHANGED <<shares, case, raced>>
  PROVE  IInv'
<1> DEFINE r == req[s]
           held == RightsInForce(r.user, r.action, r.resource)
           to == IF checkResourceGrant(r.user, r.resource, r.action)
                 THEN [r EXCEPT !.stage = "allowed", !.held = held] ELSE Idle
           rec == [op |-> r.op, user |-> r.user, action |-> r.action,
                   resource |-> r.resource, arg |-> r.arg, held |-> held,
                   stage |-> "allowed"]
<1>1. /\ r # Idle /\ r.stage = "grant?" /\ req' = [req EXCEPT ![s] = to]
      /\ UNCHANGED <<members, grants>>
  BY DEF CheckGrant, accessVars
<1>2. ReqOk(r)
  BY DEF IInv, ReqInv
<1>3. ASSUME checkResourceGrant(r.user, r.resource, r.action),
             r.op \in {"grant", "add", "share"}
      PROVE  HeldIn(members, grants, r.user, r.resource, Now, held)
  <2>1. /\ r.user \in Users /\ r.action = "SHARE"
        /\ CeilingAllows(r.user, "SHARE")
        /\ r.resource \in {"CASE", "DOCUMENT"}
    BY <1>1, <1>2, <1>3 DEF ReqOk
  <2>2. QED
    BY <1>3, <2>1, GrantHolds DEF IInv
<1>4. ASSUME checkResourceGrant(r.user, r.resource, r.action)
      PROVE  ReqOk(to)
  <2>1. held \in SUBSET Nat
    BY RightsAreAges DEF IInv
  <2>2. r = [op |-> r.op, user |-> r.user, action |-> r.action,
             resource |-> r.resource, arg |-> r.arg, held |-> r.held,
             stage |-> r.stage]
    BY <1>1, <1>2 DEF ReqOk
  <2>3. to = [r EXCEPT !.stage = "allowed", !.held = held]
    BY <1>4
  <2> HIDE DEF r, held, to
  <2>4. to = rec
    BY <2>2, <2>3
  <2>5. ReqOk(rec)
    <3> USE DEF r
    <3>1. QED
      BY <1>1, <1>2, <1>3, <1>4, <2>1 DEF ReqOk
  <2>6. QED
    BY <2>4, <2>5
<1>5. ReqOk(to)
  BY <1>4 DEF ReqOk
<1> HIDE DEF to
<1>6. QED
  BY <1>1, <1>5, RequestStep

(* The handler reads.                                                      *)
LEMMA ReadsStep ==
  ASSUME IInv, UNCHANGED <<members, grants, shares, case, raced>>,
         NEW s \in Slots, NEW op, NEW seen, Reads(s, op, seen),
         op = "status" => /\ seen.row \in CaseRow /\ seen.row.status # "NONE"
                          /\ StampsOk(seen.row),
         op = "add" => seen.user \in Users,
         op = "remove" => /\ seen.user \in Users
                          /\ seen.role = "OWNER" => seen.owners > 1,
         op = "unshare" => seen.share \in DOMAIN shares,
         op \notin {"grant", "share", "revoke"}
  PROVE  IInv'
<1> DEFINE r == req[s]
           to == [op |-> r.op, user |-> r.user, action |-> r.action,
                  resource |-> r.resource, arg |-> seen, held |-> r.held,
                  stage |-> "read"]
<1>1. /\ r # Idle /\ r.op = op /\ r.stage = "allowed"
      /\ req' = [req EXCEPT ![s] = [r EXCEPT !.stage = "read", !.arg = seen]]
  BY DEF Reads, IInv, ReqInv
<1>2. ReqOk(r)
  BY DEF IInv, ReqInv
<1>3. [r EXCEPT !.stage = "read", !.arg = seen] = to
  <2>1. r = [op |-> r.op, user |-> r.user, action |-> r.action,
             resource |-> r.resource, arg |-> r.arg, held |-> r.held,
             stage |-> r.stage]
    BY <1>1, <1>2 DEF ReqOk
  <2> HIDE DEF r
  <2>2. [r EXCEPT !.stage = "read"]
          = [op |-> r.op, user |-> r.user, action |-> r.action,
             resource |-> r.resource, arg |-> r.arg, held |-> r.held,
             stage |-> "read"]
    BY <2>1
  <2>3. [r EXCEPT !.stage = "read", !.arg = seen]
          = [[r EXCEPT !.stage = "read"] EXCEPT !.arg = seen]
    OBVIOUS
  <2>4. ASSUME NEW mid,
               mid = [op |-> r.op, user |-> r.user, action |-> r.action,
                      resource |-> r.resource, arg |-> r.arg, held |-> r.held,
                      stage |-> "read"]
        PROVE  [mid EXCEPT !.arg = seen] = to
    BY <2>4
  <2>5. QED
    BY <2>2, <2>3, <2>4
<1>4. ReqOk(to)
  BY <1>1, <1>2 DEF ReqOk
<1> HIDE DEF to
<1>5. QED
  BY <1>1, <1>3, <1>4, RequestStep

(* assertGrantAuthority.                                                   *)
LEMMA AuthorityStep ==
  ASSUME IInv, UNCHANGED <<members, grants, shares, case, raced>>,
         NEW s \in Slots, NEW user \in Users, NEW op \in {"grant", "revoke"},
         NEW resource, NEW arg,
         assertGrantAuthority(s, user, op, resource, arg),
         op = "grant" => resource \in Resources,
         op = "revoke" => arg.grant \in DOMAIN grants
  PROVE  IInv'
<1>1. CASE resource \in {"CASE", "DOCUMENT"}
  BY <1>1, GuardedStep DEF assertGrantAuthority
<1>2. CASE resource \notin {"CASE", "DOCUMENT"}
  <2> DEFINE to == [op |-> op, user |-> user, action |-> "SHARE",
                    resource |-> resource, arg |-> arg, held |-> {},
                    stage |-> "allowed"]
  <2>1. /\ RoleOf[user] \in TOP_OVERSIGHT_ROLES
        /\ req' = [req EXCEPT ![s] = to]
    BY <1>2 DEF assertGrantAuthority
  <2>2. HeldIn(members, grants, user, resource, Now, {})
    BY <1>2, <2>1 DEF HeldIn
  <2>3. ReqOk(to)
    BY <2>2 DEF ReqOk
  <2> HIDE DEF to
  <2>4. QED
    BY <2>1, <2>3, RequestStep
<1>3. QED
  BY <1>1, <1>2
-----------------------------------------------------------------------------
(* The case and its members.                                               *)

(* What an allowed transition writes, if the old row was right.            *)
LEMMA TransitionStamps ==
  ASSUME case \in CaseRow, StampsOk(case), case.status # "NONE",
         NEW to \in ALLOWED_TRANSITIONS[case.status]
  PROVE  /\ Stamps(case, to) \in CaseRow
         /\ Stamps(case, to).status # "NONE"
         /\ StampsOk(Stamps(case, to))
<1> DEFINE row == Stamps(case, to)
<1>1. /\ case.status \in CASE_STATUSES
      /\ case.closed \in BOOLEAN /\ case.archived \in BOOLEAN
  BY DEF CaseRow
<1>2. /\ to \in CASE_STATUSES
      /\ to = "ARCHIVED" => case.status = "CLOSED"
      /\ case.status = "CLOSED" => to \in {"ARCHIVED", "UNDER_INVESTIGATION"}
      /\ case.status # "ARCHIVED"
  BY <1>1 DEF CASE_STATUSES, ALLOWED_TRANSITIONS
<1>3. /\ row.status = to
      /\ row.closed = (\/ to = "CLOSED"
                       \/ case.closed /\ ~(/\ case.status = "CLOSED"
                                           /\ to = "UNDER_INVESTIGATION"))
      /\ row.archived = (to = "ARCHIVED" \/ case.archived)
      /\ row = [status |-> row.status, closed |-> row.closed,
                archived |-> row.archived]
  BY DEF Stamps
<1>4. row.closed \in BOOLEAN /\ row.archived \in BOOLEAN
  BY <1>3
<1> HIDE DEF row
<1>5. row \in CaseRow /\ row.status # "NONE"
  BY <1>2, <1>3, <1>4 DEF CaseRow, CASE_STATUSES
<1>6. ~case.archived /\ (case.closed <=> case.status = "CLOSED")
  BY <1>2 DEF StampsOk
<1>7. StampsOk(row)
  BY <1>2, <1>3, <1>6 DEF StampsOk
<1>8. QED
  BY <1>5, <1>7 DEF row

LEMMA CreateCaseStep ==
  ASSUME IInv, NEW user \in Users, createCase(user), UNCHANGED shares
  PROVE  IInv'
<1> DEFINE row == Member(user, "OWNER", user, {})
<1>1. /\ case.status = "NONE" /\ case' = [case EXCEPT !.status = "OPEN"]
      /\ members' = Append(members, row)
      /\ UNCHANGED <<grants, req, raced, shares>>
  BY DEF createCase
<1>2. members = << >>
  BY <1>1 DEF IInv, NoCaseInv
<1>3. /\ row \in MemberRow /\ row.at = Now /\ row.caseRole = "OWNER"
      /\ row.active
  BY RowTypes DEF IInv, Member, MemberRow, CASE_ROLES
<1> HIDE DEF row
<1>4. /\ members' \in Seq(MemberRow)
      /\ DOMAIN members' = {1} /\ members'[1] = row
      /\ Grown(members, members') /\ GrantsGrown(grants, grants')
      /\ Now' = Now + 1 /\ Now \in Nat /\ AgeInv'
  BY <1>1, <1>2, <1>3, AppendMember DEF IInv
<1>5. case' \in CaseRow /\ case'.status = "OPEN" /\ StampsOk(case)'
  BY <1>1 DEF IInv, RowInv, CaseRow, CASE_STATUSES, StampsOk
<1>6. RowInv'
  BY <1>1, <1>4, <1>5 DEF IInv, RowInv
<1>7. UniqueInv' /\ NoCaseInv' /\ OwnerInv'
  BY <1>3, <1>4, <1>5 DEF UniqueInv, ActiveRows, NoCaseInv, OwnerInv, IsOwner
<1>8. ShareInv'
  BY <1>1 DEF IInv, ShareInv
<1>9. ReqInv'
  BY <1>1, <1>4, <1>6, ReqStays DEF IInv
<1>10. AccessTracesToCreator'
  BY <1>1, <1>4, TraceStays DEF IInv
<1>11. QED
  BY <1>4, <1>5, <1>6, <1>7, <1>8, <1>9, <1>10 DEF IInv

LEMMA CommitStatusStep ==
  ASSUME IInv, NEW s \in Slots, CommitStatus(s), UNCHANGED shares
  PROVE  IInv'
<1>1. /\ req[s] # Idle /\ req[s].op = "status" /\ req[s].stage = "read"
      /\ req' = [req EXCEPT ![s] = Idle] /\ case' = req[s].arg.row
      /\ UNCHANGED <<members, grants, raced, shares>>
  BY DEF CommitStatus, Ends, accessVars
<1>2. case' \in CaseRow /\ case'.status # "NONE" /\ case.status # "NONE"
  BY <1>1 DEF IInv, ReqInv, ReqOk
<1>3. StampsOk(case')
  BY <1>1 DEF IInv, ReqInv, ReqOk
<1>4. RowInv' /\ Now' = Now /\ Now \in Nat
  BY <1>1, <1>2, RowTypes DEF IInv, RowInv, Now
<1>5. UniqueInv' /\ ShareInv' /\ AgeInv' /\ NoCaseInv' /\ OwnerInv'
  BY <1>1, <1>2, <1>4 DEF IInv, UniqueInv, ActiveRows, ShareInv, AgeInv,
                          NoCaseInv, OwnerInv, IsOwner
<1>6. ReqInv'
  <2>1. Grown(members, members') /\ GrantsGrown(grants, grants')
    BY <1>1 DEF Grown, GrantsGrown
  <2>2. Now <= Now' /\ DOMAIN shares \subseteq DOMAIN shares'
    BY <1>1, <1>4
  <2>3. QED
    BY <1>1, <1>2, <1>4, <2>1, <2>2, ReqStays DEF IInv
<1>7. AccessTracesToCreator' /\ StampsOk(case)'
  BY <1>1, <1>3 DEF IInv, AccessTracesToCreator, GaveShare, StampsOk
<1>8. QED
  BY <1>4, <1>5, <1>6, <1>7 DEF IInv

LEMMA InsertMemberStep ==
  ASSUME IInv, NEW s \in Slots, insertCaseMember(s), UNCHANGED shares
  PROVE  IInv'
<1> DEFINE r == req[s]
<1>1. PICK c \in GivenRoles :
        /\ members' = Append(members, Member(r.arg.user, c, r.user, r.held))
        /\ r # Idle /\ r.op = "add" /\ r.stage = "read"
        /\ req' = [req EXCEPT ![s] = Idle]
        /\ ActiveRows(r.arg.user) = {}
        /\ UNCHANGED <<grants, case, raced, shares>>
  BY DEF insertCaseMember, Ends, caseVars
<1>2. /\ r.user \in Users /\ r.arg.user \in Users /\ r.resource = "CASE"
      /\ case.status # "NONE"
      /\ HeldIn(members, grants, r.user, r.resource, Now, r.held)
      /\ r.held \in SUBSET Nat
  BY <1>1 DEF IInv, ReqInv, ReqOk
<1> DEFINE row == Member(r.arg.user, c, r.user, r.held)
<1>3. /\ row \in MemberRow /\ row.at = Now /\ row.user = r.arg.user
      /\ row.by = r.user /\ row.through = r.held
  BY <1>2, RowTypes, GivenRolesAssumption DEF IInv, Member, MemberRow
<1> HIDE DEF row
<1>4. /\ members' \in Seq(MemberRow)
      /\ Len(members) \in Nat
      /\ DOMAIN members' = DOMAIN members \cup {Len(members) + 1}
      /\ Len(members) + 1 \notin DOMAIN members
      /\ members'[Len(members) + 1] = row
      /\ \A m \in DOMAIN members : members'[m] = members[m]
      /\ Grown(members, members') /\ GrantsGrown(grants, grants')
      /\ Now' = Now + 1 /\ Now \in Nat /\ AgeInv'
  BY <1>1, <1>3, AppendMember DEF IInv, row
<1>5. RowInv'
  BY <1>1, <1>4 DEF IInv, RowInv
<1>6. UniqueInv'
  <2>1. ASSUME NEW u \in Users, u # r.arg.user
        PROVE  ActiveRows(u)' = ActiveRows(u)
    BY <1>3, <1>4, <2>1 DEF ActiveRows
  <2>2. ASSUME NEW u \in Users, u = r.arg.user
        PROVE  ActiveRows(u)' \subseteq {Len(members) + 1}
    BY <1>1, <1>4, <2>2 DEF ActiveRows
  <2>3. \A u \in Users : \A m, n \in ActiveRows(u) : m = n
    BY DEF UniqueInv, IInv
  <2>4. \A u \in Users : \A m, n \in ActiveRows(u)' : m = n
    BY <2>1, <2>2, <2>3
  <2>5. QED
    BY <2>4 DEF UniqueInv
<1>7. NoCaseInv' /\ StampsOk(case)' /\ ShareInv'
  BY <1>1, <1>2 DEF IInv, NoCaseInv, StampsOk, ShareInv
<1>8. OwnerInv'
  <2>1. \A m \in DOMAIN members : IsOwner(m) => m \in DOMAIN members' /\ IsOwner(m)'
    BY <1>4 DEF IsOwner
  <2>2. QED
    BY <1>1, <2>1 DEF IInv, OwnerInv
<1>9. ReqInv'
  <2>1. Now <= Now' /\ DOMAIN shares \subseteq DOMAIN shares'
    BY <1>1, <1>4
  <2>2. QED
    BY <1>1, <1>4, <1>5, <2>1, ReqStays DEF IInv
<1>10. AccessTracesToCreator'
  <2>1. HeldIn(members', grants', r.user, "CASE", Now, r.held)
    BY <1>2, <1>4, HeldStays
  <2>2. \A m \in DOMAIN members' \ DOMAIN members :
          HeldIn(members', grants', members'[m].by, "CASE", members'[m].at,
                 members'[m].through)
    BY <1>3, <1>4, <2>1
  <2>3. QED
    BY <1>1, <1>4, <2>2, TraceStays DEF IInv
<1>11. QED
  BY <1>4, <1>5, <1>6, <1>7, <1>8, <1>9, <1>10 DEF IInv
(* Two distinct rows in a set of rows with more than one element.          *)
LEMMA TwoOwners ==
  ASSUME RowInv, ownerCount > 1
  PROVE  \E m, n \in DOMAIN members : m # n /\ IsOwner(m) /\ IsOwner(n)
<1> DEFINE S == {m \in DOMAIN members : IsOwner(m)}
<1>1. ownerCount = Cardinality(S)
  BY DEF ownerCount, IsOwner
<1>2. S = {} \/ \E m \in S : S = {m} \/ \E n \in S : m # n
  OBVIOUS
<1>3. S # {}
  BY <1>1, FS_EmptySet
<1>4. \A m : S # {m}
  <2>1. SUFFICES ASSUME NEW m, S = {m} PROVE FALSE
    OBVIOUS
  <2>2. Cardinality({m}) = 1
    BY FS_Singleton
  <2>3. QED
    BY <1>1, <2>1, <2>2
<1>5. QED
  BY <1>2, <1>3, <1>4

LEMMA RevokeMemberStep ==
  ASSUME IInv, NEW s \in Slots, revokeCaseMember(s), UNCHANGED shares
  PROVE  IInv'
<1> DEFINE seen == req[s].arg
           gone == ActiveRows(seen.user)
<1>1. /\ req[s] # Idle /\ req[s].op = "remove" /\ req[s].stage = "read"
      /\ req' = [req EXCEPT ![s] = Idle]
      /\ members' = [m \in DOMAIN members |->
                      [members[m] EXCEPT !.active = @ /\ m \notin gone]]
      /\ raced' = (\/ raced \/ seen.role # caseRoleOf(seen.user)
                   \/ seen.role = "OWNER" /\ seen.owners # ownerCount)
      /\ UNCHANGED <<grants, case, shares>>
  BY DEF revokeCaseMember, Ends
<1>2. /\ seen.user \in Users
      /\ seen.role = "OWNER" => seen.owners > 1
  BY <1>1 DEF IInv, ReqInv, ReqOk
<1> DEFINE who == seen.user
<1> HIDE DEF seen, gone
<1>3. /\ \A m \in DOMAIN members : members[m] \in MemberRow
      /\ DOMAIN members = 1 .. Len(members) /\ Len(members) \in Nat
      /\ Now \in Nat
  BY RowTypes DEF IInv
<1>4. /\ DOMAIN members' = DOMAIN members
      /\ \A m \in DOMAIN members :
           /\ members'[m] \in MemberRow
           /\ members'[m].user = members[m].user
           /\ members'[m].by = members[m].by
           /\ members'[m].at = members[m].at
           /\ members'[m].caseRole = members[m].caseRole
           /\ members'[m].through = members[m].through
           /\ members'[m].active = (members[m].active /\ m \notin gone)
  BY <1>1, <1>3 DEF MemberRow
<1>5. members' \in Seq(MemberRow) /\ Len(members') = Len(members)
  <2>1. members' \in [1 .. Len(members) -> MemberRow]
    BY <1>1, <1>3, <1>4
  <2>2. members' \in Seq(MemberRow)
    BY <1>3, <2>1, SeqDef
  <2>3. QED
    BY <1>3, <1>4, <2>2, LenProperties
<1>6. RowInv' /\ Now' = Now
  BY <1>1, <1>5 DEF IInv, RowInv, Now
<1>7. UniqueInv'
  <2>1. \A u \in Users : ActiveRows(u)' \subseteq ActiveRows(u)
    BY <1>4 DEF ActiveRows
  <2>2. QED
    BY <2>1 DEF IInv, UniqueInv
<1>8. ShareInv' /\ AgeInv' /\ StampsOk(case)'
  <2>1. ShareInv' /\ StampsOk(case)'
    BY <1>1 DEF IInv, ShareInv, StampsOk
  <2>2. AgeInv'
    BY <1>1, <1>4, <1>6 DEF IInv, AgeInv
  <2>3. QED
    BY <2>1, <2>2
<1>9. NoCaseInv'
  BY <1>1 DEF IInv, ReqInv, ReqOk, NoCaseInv
<1>10. Grown(members, members') /\ GrantsGrown(grants, grants')
  BY <1>1, <1>4 DEF Grown, GrantsGrown
<1>11. ReqInv'
  <2>1. Now <= Now' /\ DOMAIN shares \subseteq DOMAIN shares'
    BY <1>1, <1>3, <1>6
  <2>2. QED
    BY <1>1, <1>6, <1>10, <2>1, ReqStays DEF IInv
<1>12. AccessTracesToCreator'
  BY <1>1, <1>4, <1>10, TraceStays DEF IInv
<1>13. OwnerInv'
  <2>1. SUFFICES ASSUME case.status # "NONE", ~raced'
                 PROVE  \E m \in DOMAIN members : IsOwner(m) /\ m \notin gone
    BY <1>1, <1>4 DEF OwnerInv, IsOwner
  <2>2. /\ ~raced /\ seen.role = caseRoleOf(who)
        /\ seen.role = "OWNER" => seen.owners = ownerCount
    BY <1>1, <2>1
  <2>3. \A m, n \in gone : m = n
    BY <1>2 DEF IInv, UniqueInv, gone
  <2>4. CASE seen.role = "OWNER"
    <3>1. PICK m, n \in DOMAIN members : m # n /\ IsOwner(m) /\ IsOwner(n)
      BY <1>2, <2>2, <2>4, TwoOwners DEF IInv
    <3>2. QED
      BY <2>3, <3>1
  <2>5. CASE seen.role # "OWNER"
    <3>1. PICK m \in DOMAIN members : IsOwner(m)
      BY <2>1, <2>2 DEF IInv, OwnerInv
    <3>2. ASSUME m \in gone PROVE FALSE
      <4>1. caseRoleOf(who) = members[CHOOSE k \in gone : TRUE].caseRole
        BY <3>2 DEF caseRoleOf, gone
      <4>2. (CHOOSE k \in gone : TRUE) = m
        BY <2>3, <3>2
      <4>3. QED
        BY <2>2, <2>5, <3>1, <4>1, <4>2 DEF IsOwner
    <3>3. QED
      BY <3>1, <3>2
  <2>6. QED
    BY <2>4, <2>5
<1>14. QED
  BY <1>6, <1>7, <1>8, <1>9, <1>11, <1>12, <1>13 DEF IInv

-----------------------------------------------------------------------------
(* Grants and shares.                                                      *)

(* A grant is written, with the share that refers to it or without.        *)
LEMMA NewGrant ==
  ASSUME IInv, NEW s \in Slots, req[s] # Idle, req[s].op \in {"grant", "share"},
         req[s].stage = "allowed", req' = [req EXCEPT ![s] = Idle],
         NEW row \in GrantRow, row.at = Now, row.by = req[s].user,
         row.resource = req[s].resource, row.through = req[s].held,
         grants' = Append(grants, row), UNCHANGED <<members, case, raced>>,
         \/ UNCHANGED shares
         \/ \E share \in ShareRow :
              /\ shares' = Append(shares, share)
              /\ share.grant = Len(grants) + 1
              /\ row.resource = "DOCUMENT" /\ row.user = share.to
              /\ row.code = share.code
  PROVE  IInv'
<1> DEFINE last == Len(grants) + 1
<1>1. /\ grants' \in Seq(GrantRow) /\ Len(grants) \in Nat
      /\ DOMAIN grants' = DOMAIN grants \cup {last}
      /\ last \notin DOMAIN grants /\ grants'[last] = row
      /\ \A g \in DOMAIN grants : grants'[g] = grants[g]
      /\ Grown(members, members') /\ GrantsGrown(grants, grants')
      /\ Now' = Now + 1 /\ Now \in Nat /\ AgeInv'
  BY AppendGrant DEF IInv
<1>2. HeldIn(members, grants, row.by, row.resource, Now, row.through)
  BY DEF IInv, ReqInv, ReqOk
<1> HIDE DEF last
<1>3. shares' \in Seq(ShareRow) /\ DOMAIN shares \subseteq DOMAIN shares' /\ ShareInv'
  <2>1. CASE UNCHANGED shares
    BY <1>1, <2>1 DEF IInv, RowInv, ShareInv
  <2>2. ASSUME NEW share \in ShareRow, shares' = Append(shares, share),
               share.grant = last, row.resource = "DOCUMENT",
               row.user = share.to, row.code = share.code
        PROVE  /\ shares' \in Seq(ShareRow)
               /\ DOMAIN shares \subseteq DOMAIN shares' /\ ShareInv'
    <3>1. /\ shares' \in Seq(ShareRow) /\ Len(shares) \in Nat
          /\ DOMAIN shares' = DOMAIN shares \cup {Len(shares) + 1}
          /\ Len(shares) + 1 \notin DOMAIN shares
          /\ shares'[Len(shares) + 1] = share
          /\ \A h \in DOMAIN shares : shares'[h] = shares[h]
      BY <2>2, AppendProperties, LenProperties DEF IInv, RowInv
    <3>2. \A h \in DOMAIN shares : shares[h].grant # last
      BY <1>1 DEF IInv, ShareInv
    <3>3. \A h \in DOMAIN shares' :
            /\ shares'[h].grant \in DOMAIN grants'
            /\ grants'[shares'[h].grant].resource = "DOCUMENT"
            /\ grants'[shares'[h].grant].user = shares'[h].to
            /\ grants'[shares'[h].grant].code = shares'[h].code
      BY <1>1, <2>2, <3>1 DEF IInv, ShareInv
    <3>4. \A h, k \in DOMAIN shares' : shares'[h].grant = shares'[k].grant => h = k
      BY <2>2, <3>1, <3>2 DEF IInv, ShareInv
    <3>5. QED
      BY <3>1, <3>3, <3>4 DEF ShareInv
  <2>3. QED
    BY <2>1, <2>2 DEF last
<1>4. RowInv'
  BY <1>1, <1>3 DEF IInv, RowInv
<1>5. UniqueInv' /\ NoCaseInv' /\ OwnerInv' /\ StampsOk(case)'
  BY DEF IInv, UniqueInv, ActiveRows, NoCaseInv, OwnerInv, IsOwner, StampsOk
<1>6. ReqInv'
  <2>1. Now <= Now'
    BY <1>1
  <2>2. QED
    BY <1>1, <1>3, <1>4, <2>1, ReqStays DEF IInv
<1>7. AccessTracesToCreator'
  <2>0. Now <= Now /\ row.through \in SUBSET Nat
    BY <1>1 DEF GrantRow
  <2>1. HeldIn(members', grants', row.by, row.resource, Now, row.through)
    BY <1>1, <1>2, <2>0, HeldStays
  <2>2. \A g \in DOMAIN grants' \ DOMAIN grants :
          HeldIn(members', grants', grants'[g].by, grants'[g].resource,
                 grants'[g].at, grants'[g].through)
    BY <1>1, <2>1
  <2>3. QED
    BY <1>1, <2>2, TraceStays DEF IInv
<1>8. QED
  BY <1>1, <1>3, <1>4, <1>5, <1>6, <1>7 DEF IInv

(* A grant is revoked or expires.                                          *)
LEMMA ChangedGrant ==
  ASSUME IInv, NEW g \in DOMAIN grants, NEW row \in GrantRow,
         row.resource = grants[g].resource, row.user = grants[g].user,
         row.code = grants[g].code, row.by = grants[g].by,
         row.at = grants[g].at, row.through = grants[g].through,
         grants' = [grants EXCEPT ![g] = row],
         UNCHANGED <<members, case, raced, shares>>,
         req' = req \/ \E s \in Slots : req' = [req EXCEPT ![s] = Idle]
  PROVE  IInv'
<1>1. /\ DOMAIN grants = 1 .. Len(grants) /\ Len(grants) \in Nat
      /\ \A k \in DOMAIN grants : grants[k] \in GrantRow
      /\ Now \in Nat
  BY RowTypes DEF IInv
<1>2. /\ DOMAIN grants' = DOMAIN grants
      /\ \A k \in DOMAIN grants :
           /\ grants'[k] \in GrantRow
           /\ grants'[k].user = grants[k].user
           /\ grants'[k].by = grants[k].by
           /\ grants'[k].at = grants[k].at
           /\ grants'[k].resource = grants[k].resource
           /\ grants'[k].code = grants[k].code
           /\ grants'[k].through = grants[k].through
  BY <1>1
<1>3. grants' \in Seq(GrantRow) /\ Len(grants') = Len(grants)
  <2>1. grants' \in [1 .. Len(grants) -> GrantRow]
    BY <1>1, <1>2
  <2>2. grants' \in Seq(GrantRow)
    BY <1>1, <2>1, SeqDef
  <2>3. QED
    BY <1>1, <1>2, <2>2, LenProperties
<1>4. RowInv' /\ Now' = Now
  BY <1>3 DEF IInv, RowInv, Now
<1>5. UniqueInv' /\ NoCaseInv' /\ OwnerInv' /\ StampsOk(case)'
  BY DEF IInv, UniqueInv, ActiveRows, NoCaseInv, OwnerInv, IsOwner, StampsOk
<1>6. ShareInv' /\ AgeInv'
  BY <1>2, <1>4 DEF IInv, ShareInv, AgeInv
<1>7. Grown(members, members') /\ GrantsGrown(grants, grants')
  BY <1>2 DEF Grown, GrantsGrown
<1>8. ReqInv'
  <2>1. Now <= Now' /\ DOMAIN shares \subseteq DOMAIN shares'
    BY <1>1, <1>4
  <2>2. QED
    BY <1>4, <1>7, <2>1, ReqStays DEF IInv
<1>9. AccessTracesToCreator'
  BY <1>2, <1>4, <1>7, TraceStays DEF IInv
<1>10. QED
  BY <1>4, <1>5, <1>6, <1>8, <1>9 DEF IInv

LEMMA RevokedGrant ==
  ASSUME IInv, NEW g \in DOMAIN grants,
         grants' = [grants EXCEPT ![g].revoked = TRUE],
         UNCHANGED <<members, case, raced, shares>>,
         \E s \in Slots : req' = [req EXCEPT ![s] = Idle]
  PROVE  IInv'
<1> DEFINE row == [grants[g] EXCEPT !.revoked = TRUE]
<1>1. grants[g] \in GrantRow
  BY RowTypes DEF IInv
<1>2. /\ row \in GrantRow
      /\ row.resource = grants[g].resource /\ row.user = grants[g].user
      /\ row.code = grants[g].code /\ row.by = grants[g].by
      /\ row.at = grants[g].at /\ row.through = grants[g].through
  BY <1>1 DEF GrantRow
<1>3. grants' = [grants EXCEPT ![g] = row]
  OBVIOUS
<1> HIDE DEF row
<1>4. QED
  BY <1>2, <1>3, ChangedGrant

LEMMA ExpireStep ==
  ASSUME IInv, NEW g \in DOMAIN grants, Expire(g), UNCHANGED <<case, raced, shares>>
  PROVE  IInv'
<1> DEFINE row == [grants[g] EXCEPT !.expires = "past"]
<1>1. grants[g] \in GrantRow
  BY RowTypes DEF IInv
<1>2. /\ row \in GrantRow
      /\ row.resource = grants[g].resource /\ row.user = grants[g].user
      /\ row.code = grants[g].code /\ row.by = grants[g].by
      /\ row.at = grants[g].at /\ row.through = grants[g].through
  BY <1>1 DEF GrantRow
<1>3. grants' = [grants EXCEPT ![g] = row] /\ UNCHANGED <<members, req>>
  BY DEF Expire
<1> HIDE DEF row
<1>4. QED
  BY <1>2, <1>3, ChangedGrant
-----------------------------------------------------------------------------
(* The invariant is inductive.                                             *)

LEMMA InitInv == Init => IInv
<1> SUFFICES ASSUME Init PROVE IInv
  OBVIOUS
<1>1. /\ members = << >> /\ grants = << >> /\ shares = << >>
      /\ req = [s \in Slots |-> Idle] /\ raced = FALSE
      /\ case = [status |-> "NONE", closed |-> FALSE, archived |-> FALSE]
  BY DEF Init, AccessInit, CaseInit, SharingInit
<1>2. DOMAIN members = {} /\ DOMAIN grants = {} /\ DOMAIN shares = {}
  BY <1>1
<1>3. RowInv
  <2>1. /\ members \in Seq(MemberRow) /\ grants \in Seq(GrantRow)
        /\ shares \in Seq(ShareRow)
    BY <1>1, EmptySeq
  <2>2. case \in CaseRow /\ raced \in BOOLEAN
    BY <1>1 DEF CaseRow
  <2>3. QED
    BY <2>1, <2>2 DEF RowInv
<1>4. UniqueInv /\ ShareInv /\ AgeInv /\ NoCaseInv /\ OwnerInv
  BY <1>1, <1>2 DEF UniqueInv, ActiveRows, ShareInv, AgeInv, NoCaseInv, OwnerInv
<1>5. StampsOk(case) /\ AccessTracesToCreator
  BY <1>1, <1>2 DEF StampsOk, AccessTracesToCreator
<1>6. ReqInv
  BY <1>1 DEF ReqInv, ReqOk
<1>7. QED
  BY <1>3, <1>4, <1>5, <1>6 DEF IInv

(* The engine, its guard and the explicit grants.                          *)
LEMMA AccessStep ==
  ASSUME IInv, AccessNext, UNCHANGED <<caseVars, shares>>
  PROVE  IInv'
<1>0. UNCHANGED <<case, raced, shares>>
  BY DEF caseVars
<1>1. ASSUME NEW g \in DOMAIN grants, Expire(g) PROVE IInv'
  BY <1>0, <1>1, ExpireStep
<1>2. ASSUME NEW s \in Slots, CheckGrant(s) PROVE IInv'
  BY <1>0, <1>2, CheckGrantStep
<1>3. ASSUME NEW s \in Slots, grantPermission(s) PROVE IInv'
  <2>1. PICK user \in Users, r \in Resources :
          assertGrantAuthority(s, user, "grant", r, NoArg)
    BY <1>3 DEF grantPermission
  <2>2. QED
    BY <1>0, <1>3, <2>1, AuthorityStep DEF grantPermission, accessVars
<1>4. ASSUME NEW s \in Slots, insertGrant(s) PROVE IInv'
  <2>1. PICK to \in Users, c \in Codes, e \in Expiries :
          /\ grants' = Append(grants, Grant(req[s].resource, to, c, req[s].user,
                                             req[s].held, e))
          /\ req[s] # Idle /\ req[s].op = "grant" /\ req[s].stage = "allowed"
          /\ req' = [req EXCEPT ![s] = Idle] /\ UNCHANGED members
    BY <1>4 DEF insertGrant, Ends
  <2> DEFINE row == Grant(req[s].resource, to, c, req[s].user, req[s].held, e)
  <2>2. /\ req[s].resource \in Resources /\ req[s].user \in Users
        /\ req[s].held \in SUBSET Nat
    BY <2>1 DEF IInv, ReqInv, ReqOk
  <2>3. /\ row \in GrantRow /\ row.at = Now /\ row.by = req[s].user
        /\ row.resource = req[s].resource /\ row.through = req[s].held
    BY <2>2, RowTypes, CodesAssumption, ExpiriesAssumption
       DEF IInv, Grant, GrantRow
  <2> HIDE DEF row
  <2>4. QED
    BY <1>0, <2>1, <2>3, NewGrant DEF row
<1>5. ASSUME NEW s \in Slots, revokeGrant(s) PROVE IInv'
  <2>1. PICK user \in Users, g \in DOMAIN grants :
          assertGrantAuthority(s, user, "revoke", grants[g].resource,
                               [grant |-> g])
    BY <1>5 DEF revokeGrant
  <2>2. QED
    BY <1>0, <1>5, <2>1, AuthorityStep DEF revokeGrant, accessVars
<1>6. ASSUME NEW s \in Slots, CommitRevokeGrant(s) PROVE IInv'
  <2>1. /\ req[s] # Idle /\ req[s].op = "revoke"
        /\ grants' = [grants EXCEPT ![req[s].arg.grant].revoked = TRUE]
        /\ req' = [req EXCEPT ![s] = Idle] /\ UNCHANGED members
    BY <1>6 DEF CommitRevokeGrant, Ends
  <2>2. req[s].arg.grant \in DOMAIN grants
    BY <2>1 DEF IInv, ReqInv, ReqOk
  <2>3. QED
    BY <1>0, <2>1, <2>2, RevokedGrant
<1>7. ASSUME NEW s \in Slots, Abort(s) PROVE IInv'
  <2>1. ReqOk(Idle)
    BY DEF ReqOk
  <2>2. QED
    BY <1>0, <1>7, <2>1, RequestStep DEF Abort, accessVars
<1>8. QED
  BY <1>1, <1>2, <1>3, <1>4, <1>5, <1>6, <1>7 DEF AccessNext

(* The case, its status and its members.                                   *)
LEMMA CaseStep ==
  ASSUME IInv, CaseNext, UNCHANGED shares
  PROVE  IInv'
<1>1. ASSUME NEW user \in Users, createCase(user) PROVE IInv'
  BY <1>1, CreateCaseStep
<1>2. ASSUME NEW s \in Slots, updateCaseStatus(s) PROVE IInv'
  <2>1. PICK user \in Users : Guarded(s, user, "status", "EDIT", "CASE", NoArg)
    BY <1>2 DEF updateCaseStatus
  <2>2. QED
    BY <1>2, <2>1, GuardedStep DEF updateCaseStatus, accessVars, caseVars
<1>3. ASSUME NEW s \in Slots, ReadStatus(s) PROVE IInv'
  <2>1. PICK to \in ALLOWED_TRANSITIONS[case.status] :
          Reads(s, "status", [row |-> Stamps(case, to)])
    BY <1>3 DEF ReadStatus
  <2>2. case.status # "NONE" /\ UNCHANGED <<members, grants, case, raced>>
    BY <1>3 DEF ReadStatus, accessVars, caseVars
  <2>3. /\ Stamps(case, to) \in CaseRow /\ Stamps(case, to).status # "NONE"
        /\ StampsOk(Stamps(case, to))
    BY <2>2, TransitionStamps DEF IInv, RowInv
  <2>4. QED
    BY <2>1, <2>2, <2>3, ReadsStep
<1>4. ASSUME NEW s \in Slots, CommitStatus(s) PROVE IInv'
  BY <1>4, CommitStatusStep
<1>5. ASSUME NEW s \in Slots, addMember(s) PROVE IInv'
  <2>1. PICK user \in Users : Guarded(s, user, "add", "SHARE", "CASE", NoArg)
    BY <1>5 DEF addMember
  <2>2. QED
    BY <1>5, <2>1, GuardedStep
       DEF addMember, accessVars, caseVars
<1>6. ASSUME NEW s \in Slots, ReadForAdd(s) PROVE IInv'
  <2>1. PICK user \in Users : Reads(s, "add", [user |-> user])
    BY <1>6 DEF ReadForAdd
  <2>2. QED
    BY <1>6, <2>1, ReadsStep DEF ReadForAdd, accessVars, caseVars
<1>7. ASSUME NEW s \in Slots, insertCaseMember(s) PROVE IInv'
  BY <1>7, InsertMemberStep
<1>8. ASSUME NEW s \in Slots, removeMember(s) PROVE IInv'
  <2>1. PICK user \in Users : Guarded(s, user, "remove", "SHARE", "CASE", NoArg)
    BY <1>8 DEF removeMember
  <2>2. QED
    BY <1>8, <2>1, GuardedStep DEF removeMember, accessVars, caseVars
<1>9. ASSUME NEW s \in Slots, ReadForRemove(s) PROVE IInv'
  <2>1. PICK user \in Users :
          /\ Reads(s, "remove", [user |-> user, role |-> caseRoleOf(user),
                                 owners |-> ownerCount])
          /\ caseRoleOf(user) = "OWNER" => ownerCount > 1
    BY <1>9 DEF ReadForRemove
  <2> DEFINE seen == [user |-> user, role |-> caseRoleOf(user),
                      owners |-> ownerCount]
  <2>2. Reads(s, "remove", seen)
    BY <2>1
  <2>3. seen.user \in Users /\ (seen.role = "OWNER" => seen.owners > 1)
    BY <2>1
  <2>4. UNCHANGED <<members, grants, case, raced>>
    BY <1>9 DEF ReadForRemove, accessVars, caseVars
  <2> HIDE DEF seen
  <2>5. QED
    BY <2>2, <2>3, <2>4, ReadsStep
<1>10. ASSUME NEW s \in Slots, revokeCaseMember(s) PROVE IInv'
  BY <1>10, RevokeMemberStep
<1>11. QED
  BY <1>1, <1>2, <1>3, <1>4, <1>5, <1>6, <1>7, <1>8, <1>9, <1>10 DEF CaseNext

(* The shares.                                                             *)
LEMMA SharingStep ==
  ASSUME IInv, SharingNext, UNCHANGED caseVars
  PROVE  IInv'
<1>0. UNCHANGED <<case, raced>>
  BY DEF caseVars
<1>1. ASSUME NEW s \in Slots, createShare(s) PROVE IInv'
  <2>1. PICK user \in Users :
          Guarded(s, user, "share", "SHARE", "DOCUMENT", NoArg)
    BY <1>1 DEF createShare
  <2>2. QED
    BY <1>0, <1>1, <2>1, GuardedStep
       DEF createShare, accessVars
<1>2. ASSUME NEW s \in Slots, insertShare(s) PROVE IInv'
  <2>1. PICK to \in Users \ {req[s].user}, c \in ShareCodes :
          /\ grants' = Append(grants,
                              Grant("DOCUMENT", to, c, req[s].user, req[s].held,
                                    "future"))
          /\ shares' = Append(shares,
                              [grant |-> Len(grants'), to |-> to, code |-> c])
          /\ req[s] # Idle /\ req[s].op = "share" /\ req[s].stage = "allowed"
          /\ req' = [req EXCEPT ![s] = Idle] /\ UNCHANGED members
    BY <1>2 DEF insertShare, Ends
  <2> DEFINE row == Grant("DOCUMENT", to, c, req[s].user, req[s].held, "future")
             share == [grant |-> Len(grants) + 1, to |-> to, code |-> c]
  <2>2. /\ req[s].resource = "DOCUMENT" /\ req[s].user \in Users
        /\ req[s].held \in SUBSET Nat
    BY <2>1 DEF IInv, ReqInv, ReqOk
  <2>3. /\ row \in GrantRow /\ row.at = Now /\ row.by = req[s].user
        /\ row.resource = "DOCUMENT" /\ row.user = to /\ row.code = c
        /\ row.through = req[s].held
    BY <2>2, RowTypes, ShareCodesAssumption
       DEF IInv, Grant, GrantRow, PERMISSIONS
  <2>4. Len(grants') = Len(grants) + 1 /\ Len(grants) \in Nat
    <3>1. grants \in Seq(GrantRow)
      BY DEF IInv, RowInv
    <3>2. QED
      BY <2>1, <2>3, <3>1, AppendProperties, LenProperties
  <2>5. shares' = Append(shares, share)
    BY <2>1, <2>4
  <2>6. /\ share \in ShareRow /\ share.grant = Len(grants) + 1
        /\ share.to = to /\ share.code = c
    BY <2>1, <2>4, ShareCodesAssumption DEF ShareRow
  <2>7. grants' = Append(grants, row)
    BY <2>1
  <2> HIDE DEF row, share
  <2>8. QED
    BY <1>0, <2>1, <2>2, <2>3, <2>5, <2>6, <2>7, NewGrant
<1>3. ASSUME NEW s \in Slots, revokeShare(s) PROVE IInv'
  <2>1. PICK user \in Users, h \in DOMAIN shares :
          Guarded(s, user, "unshare", "SHARE", "DOCUMENT", [share |-> h])
    BY <1>3 DEF revokeShare
  <2>2. QED
    BY <1>0, <1>3, <2>1, GuardedStep DEF revokeShare, accessVars
<1>4. ASSUME NEW s \in Slots, ReadShare(s) PROVE IInv'
  <2>1. Reads(s, "unshare", req[s].arg) /\ UNCHANGED <<members, grants, shares>>
    BY <1>4 DEF ReadShare, accessVars
  <2>2. req[s].arg.share \in DOMAIN shares
    BY <2>1 DEF Reads, IInv, ReqInv, ReqOk
  <2>3. QED
    BY <1>0, <2>1, <2>2, ReadsStep
<1>5. ASSUME NEW s \in Slots, CommitRevokeShare(s) PROVE IInv'
  <2>1. /\ req[s] # Idle /\ req[s].op = "unshare"
        /\ grants' = [grants EXCEPT
                        ![shares[req[s].arg.share].grant].revoked = TRUE]
        /\ req' = [req EXCEPT ![s] = Idle] /\ UNCHANGED <<members, shares>>
    BY <1>5 DEF CommitRevokeShare, Ends
  <2>2. shares[req[s].arg.share].grant \in DOMAIN grants
    BY <2>1 DEF IInv, ReqInv, ReqOk, ShareInv
  <2>3. QED
    BY <1>0, <2>1, <2>2, RevokedGrant
<1>6. QED
  BY <1>1, <1>2, <1>3, <1>4, <1>5 DEF SharingNext

LEMMA StepInv == IInv /\ [Next]_vars => IInv'
<1>1. ASSUME IInv, UNCHANGED vars PROVE IInv'
  <2>1. UNCHANGED <<members, grants, shares, case, raced, req>>
    BY <1>1 DEF vars, accessVars, caseVars
  <2>2. AccessTracesToCreator'
    BY <1>1, <2>1 DEF IInv, AccessTracesToCreator, GaveShare
  <2>3. ReqInv'
    BY <1>1, <2>1 DEF IInv, ReqInv, ReqOk, HeldIn, Now
  <2>4. /\ RowInv' /\ UniqueInv' /\ ShareInv' /\ AgeInv' /\ NoCaseInv'
        /\ OwnerInv' /\ StampsOk(case)'
    BY <1>1, <2>1 DEF IInv, RowInv, UniqueInv, ActiveRows, ShareInv, AgeInv, Now,
                      NoCaseInv, OwnerInv, IsOwner, StampsOk
  <2>5. QED
    BY <2>2, <2>3, <2>4 DEF IInv
<1>2. QED
  BY <1>1, AccessStep, CaseStep, SharingStep DEF Next

(* What the rows and the requests under way always say: among the latter,  *)
(* that a request to admit a member or to give access to the case or its   *)
(* document carries older rows which gave its user the right to do so, and *)
(* a request to grant access to evidence or a report comes from top        *)
(* command.                                                                *)
THEOREM Invariance == Spec => []IInv
  BY InitInv, StepInv, PTL DEF Spec

-----------------------------------------------------------------------------
(* What follows from it.                                                   *)

(* Every row has its type, nobody is an active member twice, and no two    *)
(* shares stand on one grant.                                              *)
THEOREM TypeCorrect == Spec => []TypeOK
<1>1. IInv => TypeOK
  <2> SUFFICES ASSUME IInv PROVE TypeOK
    OBVIOUS
  <2>1. ASSUME NEW u \in Users PROVE Cardinality(ActiveRows(u)) <= 1
    <3>1. ActiveRows(u) = {} \/ \E m : ActiveRows(u) = {m}
      BY DEF IInv, UniqueInv
    <3>2. CASE ActiveRows(u) = {}
      BY <3>2, FS_EmptySet
    <3>3. ASSUME NEW m, ActiveRows(u) = {m}
          PROVE  Cardinality(ActiveRows(u)) <= 1
      <4>1. Cardinality({m}) = 1
        BY FS_Singleton
      <4>2. QED
        BY <3>3, <4>1
    <3>4. QED
      BY <3>1, <3>2, <3>3
  <2>2. \A h, k \in DOMAIN shares :
          /\ shares[h].grant \in DOMAIN grants
          /\ shares[h].grant = shares[k].grant => h = k
    BY DEF IInv, ShareInv
  <2>3. \A s \in Slots : req[s] = Idle \/ req[s].user \in Users
    BY DEF IInv, ReqInv, ReqOk
  <2>4. QED
    BY <2>1, <2>2, <2>3 DEF TypeOK, IInv, RowInv, CaseRow
<1>2. QED
  BY <1>1, Invariance, PTL

(* closed_at and archived_at tell the status, whatever changes overlapped. *)
THEOREM StampsCorrect == Spec => []StampsMatchStatus
<1>1. IInv => StampsMatchStatus
  BY DEF IInv, StampsOk, StampsMatchStatus
<1>2. QED
  BY <1>1, Invariance, PTL

(* Every membership but the creator's and every grant on the case or its   *)
(* document was given by somebody who at his check was let through by      *)
(* older rows in force then; grants on evidence and reports by top command.*)
THEOREM TraceCorrect == Spec => []AccessTracesToCreator
<1>1. IInv => AccessTracesToCreator
  BY DEF IInv
<1>2. QED
  BY <1>1, Invariance, PTL

(* A share is listed as ACTIVE exactly while its grant lets in.            *)
THEOREM SharesCorrect == Spec => []SharesTellAccess
<1>1. IInv => SharesTellAccess
  BY DEF IInv, ShareInv, SharesTellAccess, shareStatus, InForce
<1>2. QED
  BY <1>1, Invariance, PTL

(* A case keeps an owner as long as no removal was decided on a count or   *)
(* a role that changed before it was written.                              *)
THEOREM OwnerCorrect == Spec => []OwnerKept
<1>1. IInv => OwnerKept
  <2> SUFFICES ASSUME IInv, case.status # "NONE", ~raced PROVE ownerCount >= 1
    BY DEF OwnerKept
  <2> DEFINE S == {m \in DOMAIN members : IsOwner(m)}
  <2>1. ownerCount = Cardinality(S)
    BY DEF ownerCount, IsOwner
  <2>2. S # {}
    BY DEF IInv, OwnerInv
  <2>3. IsFiniteSet(S)
    <3>1. DOMAIN members = 1 .. Len(members) /\ Len(members) \in Nat
      BY RowTypes DEF IInv
    <3>2. IsFiniteSet(DOMAIN members)
      BY <3>1, FS_Interval
    <3>3. QED
      BY <3>2, FS_Subset
  <2>4. Cardinality(S) \in Nat /\ Cardinality(S) # 0
    BY <2>2, <2>3, FS_CardinalityType, FS_EmptySet
  <2>5. QED
    BY <2>1, <2>4
<1>2. QED
  BY <1>1, Invariance, PTL

-----------------------------------------------------------------------------
(* Requests served one at a time: what a handler has checked is still so   *)
(* when it writes.                                                         *)

Serial == \A s, t \in Slots : s = t

\* The row of a status change is one transition away from the case, reopened
\* by top command only.
Transition(row, user) ==
  \E to \in ALLOWED_TRANSITIONS[case.status] :
    /\ row = Stamps(case, to)
    /\ (case.status = "CLOSED" /\ to = "UNDER_INVESTIGATION")
         => RoleOf[user] \in TOP_OVERSIGHT_ROLES

\* What the checks of request r still say of the case and its members.
StillTrue(r) ==
  \/ r = Idle
  \/ r.stage # "read"
  \/ /\ r.op = "status" => Transition(r.arg.row, r.user)
     /\ r.op = "remove" => /\ r.arg.role = caseRoleOf(r.arg.user)
                           /\ r.arg.role = "OWNER" => r.arg.owners = ownerCount

SerialInv == ~raced /\ \A s \in Slots : StillTrue(req[s])

Unwritten == UNCHANGED <<members, case, raced>>

LEMMA StillTrueStays ==
  ASSUME Unwritten, NEW r, StillTrue(r)
  PROVE  StillTrue(r)'
BY DEF StillTrue, Unwritten, Transition, caseRoleOf, ActiveRows, ownerCount

(* Nothing of the case and of the requests changes.                        *)
LEMMA SerialSame ==
  ASSUME SerialInv, Unwritten, UNCHANGED req
  PROVE  SerialInv'
<1>1. ASSUME NEW s \in Slots PROVE StillTrue(req[s])'
  <2>1. PICK q : q = req[s]
    OBVIOUS
  <2>2. StillTrue(q)'
    BY <2>1, StillTrueStays DEF SerialInv
  <2>3. QED
    BY <2>1, <2>2 DEF StillTrue
<1>2. QED
  BY <1>1 DEF SerialInv, Unwritten

(* A request goes one step further, and nothing else of the case changes.  *)
LEMMA SerialRequest ==
  ASSUME IInv, SerialInv, Unwritten, NEW s \in Slots, NEW to,
         req' = [req EXCEPT ![s] = to], StillTrue(to)
  PROVE  SerialInv'
<1>1. ~raced'
  BY DEF SerialInv, Unwritten
<1>2. ASSUME NEW t \in Slots PROVE StillTrue(req[t])'
  <2>1. PICK q : q = req'[t]
    OBVIOUS
  <2>2. q = to \/ q = req[t]
    BY <2>1 DEF IInv, ReqInv
  <2>3. StillTrue(q)'
    BY <2>2, StillTrueStays DEF SerialInv
  <2>4. QED
    BY <2>1, <2>3 DEF StillTrue
<1>3. QED
  BY <1>1, <1>2 DEF SerialInv

(* The only request ends: none is left whose checks could be out of date.  *)
LEMMA SerialEnd ==
  ASSUME Serial, IInv, NEW s \in Slots, req' = [req EXCEPT ![s] = Idle], ~raced'
  PROVE  SerialInv'
<1>1. \A t \in Slots : req'[t] = Idle
  BY DEF Serial, IInv, ReqInv
<1>2. QED
  BY <1>1 DEF SerialInv, StillTrue

(* A request comes in.                                                     *)
LEMMA SerialGuarded ==
  ASSUME IInv, SerialInv, Unwritten, NEW s \in Slots, NEW user, NEW op, NEW action,
         NEW resource, NEW arg, Guarded(s, user, op, action, resource, arg)
  PROVE  SerialInv'
<1> DEFINE to == [op |-> op, user |-> user, action |-> action,
                  resource |-> resource, arg |-> arg,
                  held |-> RightsInForce(user, action, resource),
                  stage |-> IF ScopeAllows(user, action, resource)
                            THEN "allowed" ELSE "grant?"]
<1>1. req' = [req EXCEPT ![s] = to]
  BY DEF Guarded
<1>2. StillTrue(to)
  BY DEF StillTrue
<1> HIDE DEF to
<1>3. QED
  BY <1>1, <1>2, SerialRequest

LEMMA SerialArrival ==
  ASSUME IInv, SerialInv, Unwritten, NEW s \in Slots, NEW user, NEW op,
         NEW resource, NEW arg, assertGrantAuthority(s, user, op, resource, arg)
  PROVE  SerialInv'
<1>1. CASE resource \in {"CASE", "DOCUMENT"}
  BY <1>1, SerialGuarded DEF assertGrantAuthority
<1>2. CASE resource \notin {"CASE", "DOCUMENT"}
  <2> DEFINE to == [op |-> op, user |-> user, action |-> "SHARE",
                    resource |-> resource, arg |-> arg, held |-> {},
                    stage |-> "allowed"]
  <2>1. req' = [req EXCEPT ![s] = to]
    BY <1>2 DEF assertGrantAuthority
  <2>2. StillTrue(to)
    BY DEF StillTrue
  <2> HIDE DEF to
  <2>3. QED
    BY <2>1, <2>2, SerialRequest
<1>3. QED
  BY <1>1, <1>2

(* A handler reads and checks.                                             *)
LEMMA SerialReads ==
  ASSUME IInv, SerialInv, Unwritten, NEW s \in Slots, NEW op, NEW seen,
         Reads(s, op, seen),
         op = "status" => Transition(seen.row, req[s].user),
         op = "remove" => /\ seen.role = caseRoleOf(seen.user)
                          /\ seen.role = "OWNER" => seen.owners = ownerCount
  PROVE  SerialInv'
<1> DEFINE r == req[s]
           to == [op |-> op, user |-> r.user, action |-> r.action,
                  resource |-> r.resource, arg |-> seen, held |-> r.held,
                  stage |-> "read"]
<1>1. /\ r # Idle /\ r.op = op
      /\ req' = [req EXCEPT ![s] = [r EXCEPT !.stage = "read", !.arg = seen]]
  BY DEF Reads, IInv, ReqInv
<1>2. r = [op |-> op, user |-> r.user, action |-> r.action,
           resource |-> r.resource, arg |-> r.arg, held |-> r.held,
           stage |-> r.stage]
  BY <1>1 DEF IInv, ReqInv, ReqOk
<1>3. [r EXCEPT !.stage = "read", !.arg = seen] = to
  <2> HIDE DEF r
  <2>1. [r EXCEPT !.stage = "read"]
          = [op |-> op, user |-> r.user, action |-> r.action,
             resource |-> r.resource, arg |-> r.arg, held |-> r.held,
             stage |-> "read"]
    BY <1>2
  <2>2. [r EXCEPT !.stage = "read", !.arg = seen]
          = [[r EXCEPT !.stage = "read"] EXCEPT !.arg = seen]
    OBVIOUS
  <2>3. ASSUME NEW mid,
               mid = [op |-> op, user |-> r.user, action |-> r.action,
                      resource |-> r.resource, arg |-> r.arg, held |-> r.held,
                      stage |-> "read"]
        PROVE  [mid EXCEPT !.arg = seen] = to
    BY <2>3
  <2>4. QED
    BY <2>1, <2>2, <2>3
<1>4. StillTrue(to)
  BY DEF StillTrue
<1> HIDE DEF to
<1>5. QED
  BY <1>1, <1>3, <1>4, SerialRequest

LEMMA SerialAccess ==
  ASSUME Serial, IInv, SerialInv, AccessNext, UNCHANGED <<caseVars, shares>>
  PROVE  SerialInv'
<1>1. ASSUME NEW g \in DOMAIN grants, Expire(g) PROVE SerialInv'
  <2>1. Unwritten /\ UNCHANGED req
    BY <1>1 DEF Expire, Unwritten, caseVars
  <2>2. QED
    BY <2>1, SerialSame
<1>2. ASSUME NEW s \in Slots, CheckGrant(s) PROVE SerialInv'
  <2> DEFINE r == req[s]
             held == RightsInForce(r.user, r.action, r.resource)
             allowed == [op |-> r.op, user |-> r.user, action |-> r.action,
                         resource |-> r.resource, arg |-> r.arg, held |-> held,
                         stage |-> "allowed"]
  <2>1. Unwritten /\ r # Idle
    BY <1>2 DEF CheckGrant, Unwritten, caseVars, accessVars
  <2>2. r = [op |-> r.op, user |-> r.user, action |-> r.action,
             resource |-> r.resource, arg |-> r.arg, held |-> r.held,
             stage |-> r.stage]
    BY <2>1 DEF IInv, ReqInv, ReqOk
  <2>3. [r EXCEPT !.stage = "allowed", !.held = held] = allowed
    <3> HIDE DEF r, held
    <3> DEFINE mid == [op |-> r.op, user |-> r.user, action |-> r.action,
                       resource |-> r.resource, arg |-> r.arg, held |-> r.held,
                       stage |-> "allowed"]
    <3>1. [r EXCEPT !.stage = "allowed"] = mid
      BY <2>2
    <3>2. [r EXCEPT !.stage = "allowed", !.held = held]
            = [[r EXCEPT !.stage = "allowed"] EXCEPT !.held = held]
      OBVIOUS
    <3>3. [mid EXCEPT !.held = held] = allowed
      OBVIOUS
    <3> HIDE DEF mid, allowed
    <3>4. QED
      BY <3>1, <3>2, <3>3
  <2>4. \/ req' = [req EXCEPT ![s] = allowed]
        \/ req' = [req EXCEPT ![s] = Idle]
    BY <1>2, <2>3 DEF CheckGrant
  <2>5. StillTrue(allowed) /\ StillTrue(Idle)
    BY DEF StillTrue
  <2> HIDE DEF allowed
  <2>6. QED
    BY <2>1, <2>4, <2>5, SerialRequest
<1>3. ASSUME NEW s \in Slots, grantPermission(s) \/ revokeGrant(s) PROVE SerialInv'
  <2>1. Unwritten
    BY <1>3 DEF grantPermission, revokeGrant, Unwritten, caseVars, accessVars
  <2>2. CASE grantPermission(s)
    BY <2>1, <2>2, SerialArrival DEF grantPermission
  <2>3. CASE revokeGrant(s)
    BY <2>1, <2>3, SerialArrival DEF revokeGrant
  <2>4. QED
    BY <1>3, <2>2, <2>3
<1>4. ASSUME NEW s \in Slots, insertGrant(s) \/ CommitRevokeGrant(s) \/ Abort(s)
      PROVE  SerialInv'
  <2>1. req' = [req EXCEPT ![s] = Idle] /\ ~raced'
    BY <1>4 DEF insertGrant, CommitRevokeGrant, Abort, Ends, caseVars, SerialInv
  <2>2. QED
    BY <2>1, SerialEnd
<1>5. QED
  BY <1>1, <1>2, <1>3, <1>4 DEF AccessNext

LEMMA SerialCase ==
  ASSUME Serial, IInv, SerialInv, CaseNext, UNCHANGED shares
  PROVE  SerialInv'
<1>1. ASSUME NEW user \in Users, createCase(user) PROVE SerialInv'
  <2>1. case.status = "NONE" /\ UNCHANGED <<req, raced>>
    BY <1>1 DEF createCase
  <2>2. ASSUME NEW s \in Slots PROVE StillTrue(req[s])'
    <3>1. req[s] = Idle \/ req[s].op \notin {"status", "remove"}
      BY <2>1 DEF IInv, ReqInv, ReqOk
    <3>2. QED
      BY <2>1, <3>1 DEF StillTrue
  <2>3. QED
    BY <2>1, <2>2 DEF SerialInv
<1>2. ASSUME NEW s \in Slots, updateCaseStatus(s) \/ addMember(s) \/ removeMember(s)
      PROVE  SerialInv'
  <2>1. Unwritten
    BY <1>2 DEF updateCaseStatus, addMember, removeMember, Unwritten, caseVars,
                accessVars
  <2>2. PICK user, op, action, arg : Guarded(s, user, op, action, "CASE", arg)
    BY <1>2 DEF updateCaseStatus, addMember, removeMember
  <2>3. QED
    BY <2>1, <2>2, SerialGuarded
<1>3. ASSUME NEW s \in Slots, ReadStatus(s) PROVE SerialInv'
  <2>1. Unwritten
    BY <1>3 DEF ReadStatus, Unwritten, caseVars, accessVars
  <2>2. PICK to \in ALLOWED_TRANSITIONS[case.status] :
          /\ Reads(s, "status", [row |-> Stamps(case, to)])
          /\ (case.status = "CLOSED" /\ to = "UNDER_INVESTIGATION")
               => RoleOf[req[s].user] \in TOP_OVERSIGHT_ROLES
    BY <1>3 DEF ReadStatus
  <2>3. Transition(Stamps(case, to), req[s].user)
    BY <2>2 DEF Transition
  <2>4. QED
    BY <2>1, <2>2, <2>3, SerialReads
<1>4. ASSUME NEW s \in Slots, ReadForAdd(s) PROVE SerialInv'
  <2>1. Unwritten
    BY <1>4 DEF ReadForAdd, Unwritten, caseVars, accessVars
  <2>2. PICK seen : Reads(s, "add", seen)
    BY <1>4 DEF ReadForAdd
  <2>3. QED
    BY <2>1, <2>2, SerialReads
<1>5. ASSUME NEW s \in Slots, ReadForRemove(s) PROVE SerialInv'
  <2>1. Unwritten
    BY <1>5 DEF ReadForRemove, Unwritten, caseVars, accessVars
  <2>2. PICK user \in Users :
          Reads(s, "remove", [user |-> user, role |-> caseRoleOf(user),
                              owners |-> ownerCount])
    BY <1>5 DEF ReadForRemove
  <2>3. QED
    BY <2>1, <2>2, SerialReads
<1>6. ASSUME NEW s \in Slots, CommitStatus(s) \/ insertCaseMember(s) PROVE SerialInv'
  <2>1. req' = [req EXCEPT ![s] = Idle] /\ ~raced'
    BY <1>6 DEF CommitStatus, insertCaseMember, Ends, caseVars, SerialInv
  <2>2. QED
    BY <2>1, SerialEnd
<1>7. ASSUME NEW s \in Slots, revokeCaseMember(s) PROVE SerialInv'
  <2>1. /\ req[s] # Idle /\ req[s].op = "remove" /\ req[s].stage = "read"
        /\ req' = [req EXCEPT ![s] = Idle]
        /\ raced' = (\/ raced \/ req[s].arg.role # caseRoleOf(req[s].arg.user)
                     \/ req[s].arg.role = "OWNER" /\ req[s].arg.owners # ownerCount)
    BY <1>7 DEF revokeCaseMember, Ends
  <2>2. ~raced'
    BY <2>1 DEF SerialInv, StillTrue
  <2>3. QED
    BY <2>1, <2>2, SerialEnd
<1>8. QED
  BY <1>1, <1>2, <1>3, <1>4, <1>5, <1>6, <1>7 DEF CaseNext

LEMMA SerialSharing ==
  ASSUME Serial, IInv, SerialInv, SharingNext, UNCHANGED caseVars
  PROVE  SerialInv'
<1>1. ASSUME NEW s \in Slots, createShare(s) \/ revokeShare(s) PROVE SerialInv'
  <2>1. Unwritten
    BY <1>1 DEF createShare, revokeShare, Unwritten, caseVars, accessVars
  <2>2. PICK user, op, arg : Guarded(s, user, op, "SHARE", "DOCUMENT", arg)
    BY <1>1 DEF createShare, revokeShare
  <2>3. QED
    BY <2>1, <2>2, SerialGuarded
<1>2. ASSUME NEW s \in Slots, ReadShare(s) PROVE SerialInv'
  <2>1. Unwritten /\ Reads(s, "unshare", req[s].arg)
    BY <1>2 DEF ReadShare, Unwritten, caseVars, accessVars
  <2>2. QED
    BY <2>1, SerialReads
<1>3. ASSUME NEW s \in Slots, insertShare(s) \/ CommitRevokeShare(s) PROVE SerialInv'
  <2>1. req' = [req EXCEPT ![s] = Idle] /\ ~raced'
    BY <1>3 DEF insertShare, CommitRevokeShare, Ends, caseVars, SerialInv
  <2>2. QED
    BY <2>1, SerialEnd
<1>4. QED
  BY <1>1, <1>2, <1>3 DEF SharingNext

THEOREM SerialInvariance == ASSUME Serial PROVE Spec => [](IInv /\ SerialInv)
<1>1. Init => SerialInv
  BY DEF Init, AccessInit, CaseInit, SerialInv, StillTrue
<1>2. IInv /\ SerialInv /\ [Next]_vars => SerialInv'
  <2> SUFFICES ASSUME IInv, SerialInv, [Next]_vars PROVE SerialInv'
    OBVIOUS
  <2>1. CASE UNCHANGED vars
    BY <2>1, SerialSame DEF vars, accessVars, caseVars, Unwritten
  <2>2. QED
    BY <2>1, SerialAccess, SerialCase, SerialSharing DEF Next
<1>3. QED
  BY <1>1, <1>2, InitInv, StepInv, PTL DEF Spec

\* "A case must always have at least one owner" (cases.service.js): so it has
\* when requests are served one at a time, without the exception of OwnerKept.
CaseHasOwner == case.status # "NONE" => ownerCount >= 1

THEOREM OwnerAlways == ASSUME Serial PROVE Spec => []CaseHasOwner
<1>1. SerialInv /\ OwnerKept => CaseHasOwner
  BY DEF SerialInv, OwnerKept, CaseHasOwner
<1>2. QED
  BY <1>1, SerialInvariance, OwnerCorrect, PTL

\* ALLOWED_TRANSITIONS (cases.service.js): a case's status takes the
\* transitions of the table only, and a closed case is reopened only by a
\* request of top command, when requests are served one at a time.
StatusFollowsTable ==
  [][\/ case.status = "NONE"
     \/ /\ case'.status \in ALLOWED_TRANSITIONS[case.status]
        /\ (case.status = "CLOSED" /\ case'.status = "UNDER_INVESTIGATION") =>
             \E s \in Slots : /\ req[s] # Idle
                              /\ RoleOf[req[s].user] \in TOP_OVERSIGHT_ROLES]_case

THEOREM TransitionsCorrect == ASSUME Serial PROVE Spec => StatusFollowsTable
<1>1. ASSUME IInv, SerialInv, [Next]_vars, case.status # "NONE", case' # case
      PROVE  /\ case'.status \in ALLOWED_TRANSITIONS[case.status]
             /\ (case.status = "CLOSED" /\ case'.status = "UNDER_INVESTIGATION") =>
                  \E s \in Slots : /\ req[s] # Idle
                                   /\ RoleOf[req[s].user] \in TOP_OVERSIGHT_ROLES
  <2>1. PICK s \in Slots : CommitStatus(s)
    BY <1>1 DEF Next, vars, caseVars, CaseNext, createCase, updateCaseStatus,
       ReadStatus, addMember, ReadForAdd, insertCaseMember, removeMember,
       ReadForRemove, revokeCaseMember
  <2>2. /\ req[s] # Idle /\ req[s].op = "status" /\ req[s].stage = "read"
        /\ case' = req[s].arg.row
    BY <2>1 DEF CommitStatus, Ends
  <2>3. Transition(req[s].arg.row, req[s].user)
    BY <1>1, <2>2 DEF SerialInv, StillTrue
  <2>4. QED
    BY <2>2, <2>3 DEF Transition, Stamps
<1>2. IInv /\ SerialInv /\ [Next]_vars =>
        [\/ case.status = "NONE"
         \/ /\ case'.status \in ALLOWED_TRANSITIONS[case.status]
            /\ (case.status = "CLOSED" /\ case'.status = "UNDER_INVESTIGATION") =>
                 \E s \in Slots : /\ req[s] # Idle
                                  /\ RoleOf[req[s].user] \in TOP_OVERSIGHT_ROLES]_case
  BY <1>1
<1>3. QED
  BY <1>2, SerialInvariance, PTL DEF Spec, StatusFollowsTable
=============================================================================
