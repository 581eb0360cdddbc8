---------------------------- MODULE WebPageProofs ----------------------------
(***************************************************************************)
(* Proofs about WebPage, as part of Web, for any of its pages, any number  *)
(* of clicks and of refreshes under way, and any visitors.                 *)
(***************************************************************************)
EXTENDS Web, TLAPS

-----------------------------------------------------------------------------
(* The inductive invariant.                                                *)

\* What a refresh under way has read: a part that came back empty is one the
\* visitor may not get.
FetchOk(r) ==
  \/ r = Quiet
  \/ /\ r = [phase |-> r.phase, got |-> r.got]
     /\ r.phase \in DOMAIN Phases
     /\ r.got # NoAnswer =>
          \A p \in Phases[r.phase].parts :
            /\ r.got[p] \in Nat
            /\ r.got[p] = 0 => ~MayGet(p)

\* A change that the server made is one that the server still has.
ClickOk(r) ==
  r.stage = "served" =>
    \A p \in Parts \cap r.does.changes :
      r.made[p] \in Nat /\ r.made[p] <= server[p]

TypeInv ==
  /\ page \in Pages
  /\ visitor \in Visitors
  /\ page = "users" => createsRolesFor(visitor.role) # {}
  /\ server \in [Parts -> Nat \ {0}]
  /\ shown \in [Parts -> Nat]
  /\ followed \in [Parts -> Nat]
  /\ \A p \in Parts : followed[p] <= server[p]
  /\ missed \subseteq Parts
  /\ fetching = [f \in Fetches |-> fetching[f]]
  /\ \A f \in Fetches : FetchOk(fetching[f])
  /\ clicked = [c \in Clicks |-> clicked[c]]
  /\ \A c \in Clicks : ClickOk(clicked[c])

\* A refresh under way will still ask for part p, or set it.
Ahead(p) ==
  \E f \in UnderWay : \E j \in DOMAIN Phases :
    j >= fetching[f].phase /\ p \in Phases[j].parts

\* Unless answers race, one refresh at most is under way;
OneInv == ~overlapped => \A f, g \in UnderWay : f = g

\* what it does not bring any more is shown as last acknowledged by a
\* change that the page followed by reading or setting it, or was missed;
FreshInv ==
  ~overlapped =>
    /\ \A p \in Parts : Ahead(p) \/ shown[p] >= followed[p] \/ p \in missed
    /\ \A f \in UnderWay : fetching[f].got # NoAnswer =>
         \A p \in Phases[fetching[f].phase].parts :
           fetching[f].got[p] = 0 \/ fetching[f].got[p] >= followed[p]

\* and what a member misses and it does not bring, the member may not see.
SeenInv ==
  ~overlapped /\ ~lost /\ visitor.caseRole # "none" =>
    \A p \in missed : Ahead(p) \/ ~MayGet(p)

IInv == TypeInv /\ OneInv /\ FreshInv /\ SeenInv

\* What a page does not follow is in the parts it is known not to read again:
\* of all others, the changes followed are the changes acknowledged.
WroteInv ==
  /\ written = [p \in Parts |-> written[p]]
  /\ \A p \in Parts \ NotReadAgain : written[p] = followed[p]
  /\ \A c \in Clicks :
       clicked[c].stage \in {"calling", "served"} =>
         clicked[c].does \in Handlers[page]

-----------------------------------------------------------------------------
(* The tables.                                                             *)

\* A refresh has one phase to three, and a try block is a run of them.
LEMMA RefreshTables ==
  ASSUME NEW x \in DOMAIN Refresh, x # "session"
  PROVE  /\ Len(Refresh[x]) \in 1..3
         /\ DOMAIN Refresh[x] = 1..Len(Refresh[x])
         /\ \A i, j, k \in DOMAIN Refresh[x] :
              i <= j /\ j <= k /\ Refresh[x][i].block = Refresh[x][k].block
                => Refresh[x][j].block = Refresh[x][i].block
<1> DEFINE r == Refresh[x]
<1>1. \/ r = document_refresh \/ r = evidence_refresh \/ r = case_refresh
      \/ r = users_refresh \/ r = queue_refresh \/ r = inbox_refresh
      \/ r = cases_refresh \/ r = mine_refresh \/ r = verify_refresh
      \/ r = activate_preview \/ r = picker_lookup
  BY DEF Refresh
<1>2. \/ \E a : r = << a >>
      \/ \E a, b : r = << a, b >>
      \/ \E a, b, c : r = << a, b, c >> /\ a.block = b.block /\ b.block # c.block
  BY <1>1 DEF document_refresh, evidence_refresh, case_refresh, users_refresh,
     queue_refresh, inbox_refresh, cases_refresh, mine_refresh, verify_refresh,
     activate_preview, picker_lookup, Phase
<1>3. CASE \E a : r = << a >>
  BY <1>3
<1>4. CASE \E a, b : r = << a, b >>
  BY <1>4
<1>5. CASE \E a, b, c : r = << a, b, c >> /\ a.block = b.block /\ b.block # c.block
  BY <1>5
<1> QED BY <1>2, <1>3, <1>4, <1>5

\* What a phase catches is a part of it.
LEMMA CaughtParts ==
  ASSUME NEW x \in DOMAIN Refresh, NEW i \in DOMAIN Refresh[x]
  PROVE  Refresh[x][i].caught \subseteq Refresh[x][i].parts
BY DEF Refresh, document_refresh, evidence_refresh, case_refresh, users_refresh,
   queue_refresh, inbox_refresh, cases_refresh, mine_refresh, verify_refresh,
   activate_preview, picker_lookup, Phase

\* A part whose refusal is not caught is one that every member may view, that
\* asks for a login or nothing, or that is for admins on the admins' page.
LEMMA OpenRoutes ==
  ASSUME NEW x \in DOMAIN Refresh, NEW i \in DOMAIN Refresh[x],
         NEW p \in Refresh[x][i].parts \ Refresh[x][i].caught
  PROVE  \/ Get[p].asks = "permission" /\ Get[p].action = "VIEW"
         \/ Get[p].asks \in {"login", "nothing"}
         \/ x = "users" /\ Get[p] = RequireAnyAdmin
<1>1. CASE x \in {"document", "evidence"}
  <2>1. p \in {"doc", "versions", "comments", "signatures", "members", "item",
               "timeline"}
    BY <1>1 DEF Refresh, document_refresh, evidence_refresh, Phase
  <2> QED BY <2>1 DEF Get, documentRoutes, signatureRoutes, caseRoutes,
       evidenceRoutes, Needs
<1>2. CASE x \in {"case", "users", "cases"}
  <2>1. \/ p \in {"case", "documents", "members", "evidence", "cases"}
        \/ x = "users" /\ p \in {"users", "departments"}
    BY <1>2 DEF Refresh, case_refresh, users_refresh, cases_refresh, Phase
  <2> QED BY <2>1 DEF Get, documentRoutes, caseRoutes, evidenceRoutes, userRoutes,
       Needs, RequireAuth
<1>3. CASE x \in {"queue", "inbox", "mine", "verify", "activate", "picker"}
  <2>1. p \in {"queue", "inbox", "sharedWithMe", "result", "preview"}
    BY <1>3 DEF Refresh, queue_refresh, inbox_refresh, mine_refresh,
       verify_refresh, activate_preview, picker_lookup, Phase
  <2> QED BY <2>1 DEF Get, signatureRoutes, approvalRoutes, sharingRoutes,
       verificationRoutes, userRoutes, RequireAuth, Public
<1>4. CASE x = "session"
  BY <1>4 DEF Refresh
<1> QED BY <1>1, <1>2, <1>3, <1>4 DEF Refresh

\* A handler that neither refreshes nor sets changes only such parts.
LEMMA Unfollowed ==
  ASSUME NEW x \in DOMAIN Refresh, NEW a \in Handlers[x], a.then = "nothing"
  PROVE  a.changes \subseteq NotReadAgain
<1>1. CASE x = "document"
  <2>1. a = document_handleDownload \/ a = document_handleVerify
    BY <1>1 DEF Handlers, Handler, document_handleDownload, document_handleRestore,
       document_handleAddComment, document_handleGenerateKey,
       document_handleSelfSign, document_handleRequestSignature,
       document_handleVerify, document_handleCreateShare,
       document_handleRevokeShare, document_handleSubmitApproval,
       document_handleDecideStep, document_handleFinalize
  <2> QED BY <2>1 DEF document_handleDownload, document_handleVerify, Handler,
       NotReadAgain
<1>2. CASE x = "evidence"
  <2>1. a = evidence_handleDownload \/ a = evidence_handleVerifyChain
    BY <1>2 DEF Handlers, Handler, evidence_runAction,
       evidence_handleTransferRequest, evidence_handleReject,
       evidence_handleAddArtifact, evidence_handleDownload,
       evidence_handleVerifyChain
  <2> QED BY <2>1 DEF evidence_handleDownload, evidence_handleVerifyChain, Handler,
       NotReadAgain
<1>3. CASE x = "activate"
  BY <1>3 DEF Handlers, Handler, activate_handleSubmit, NotReadAgain
<1>4. CASE x \notin {"document", "evidence", "activate"}
  BY <1>4 DEF Refresh, Handlers, Handler, case_handleUpload,
     case_handleRegisterEvidence, case_handleAddMember, case_handleAdvanceStatus,
     users_handleInvite, users_handleStatusChange, users_handleRolesChange,
     queue_handleGenerateKey, queue_handleSign, queue_handleDecline, inbox_decide,
     cases_handleCreate
<1> QED BY <1>1, <1>2, <1>3, <1>4

\* Every tier and every role in a case may view.
LEMMA MembersView ==
  ASSUME NEW v, v.role \in ROLES, v.caseRole \in CASE_ROLES, NEW resource
  PROVE  can(v, "VIEW", resource)
<1>1. "VIEW" \in TIER_CEILINGS[ceilingTierFor(v.role)]
  BY DEF TIER_CEILINGS, ceilingTierFor, LevelTier, PERMISSIONS
<1>2. "VIEW" \in CASE_ROLE_ACTIONS[v.caseRole]
  BY DEF CASE_ROLE_ACTIONS, CASE_ROLES, PERMISSIONS
<1> QED BY <1>1, <1>2 DEF can

\* So a member gets every part that a failing phase does not catch.
LEMMA OpenPasses ==
  ASSUME TypeInv, visitor.caseRole # "none", NEW i \in DOMAIN Phases,
         NEW p \in Phases[i].parts \ Phases[i].caught
  PROVE  MayGet(p)
<1>1. visitor.role \in ROLES /\ visitor.caseRole \in CASE_ROLES
  BY VisitorsAssumption DEF TypeInv
<1>2. \/ Get[p].asks = "permission" /\ Get[p].action = "VIEW"
      \/ Get[p].asks \in {"login", "nothing"}
      \/ page = "users" /\ Get[p] = RequireAnyAdmin
  BY OpenRoutes, PagesAssumption DEF Phases, TypeInv
<1>3. CASE Get[p].asks = "permission" /\ Get[p].action = "VIEW"
  BY <1>1, <1>3, MembersView DEF MayGet, Passes
<1>4. CASE Get[p].asks \in {"login", "nothing"}
  BY <1>4 DEF MayGet, Passes
<1>5. CASE page = "users" /\ Get[p] = RequireAnyAdmin
  BY <1>1, <1>5 DEF MayGet, Passes, RequireAnyAdmin, OneOf, TypeInv
<1> QED BY <1>2, <1>3, <1>4, <1>5

-----------------------------------------------------------------------------
(* Refreshes under way.                                                    *)

\* A refresh in a phase it has is under way.
LEMMA RowUnderWay ==
  ASSUME TypeInv, page # "session"
  PROVE  /\ DOMAIN Phases = 1..Len(Phases) /\ Len(Phases) \in 1..3
         /\ \A f \in Fetches : f \in UnderWay <=> fetching[f].phase # 0
         /\ \A f \in UnderWay :
              fetching[f] = [phase |-> fetching[f].phase, got |-> fetching[f].got]
              /\ fetching[f].phase \in 1..Len(Phases)
<1>1. DOMAIN Phases = 1..Len(Phases) /\ Len(Phases) \in 1..3
  BY RefreshTables, PagesAssumption DEF TypeInv, Phases
<1>2. ASSUME NEW f \in Fetches
      PROVE  /\ f \in UnderWay <=> fetching[f].phase # 0
             /\ f \in UnderWay =>
                  /\ fetching[f] = [phase |-> fetching[f].phase,
                                    got |-> fetching[f].got]
                  /\ fetching[f].phase \in 1..Len(Phases)
  <2>1. FetchOk(fetching[f])
    BY <1>2 DEF TypeInv
  <2>2. CASE fetching[f] = Quiet
    BY <2>2 DEF Quiet, UnderWay
  <2>3. CASE fetching[f] # Quiet
    <3>1. /\ fetching[f] = [phase |-> fetching[f].phase, got |-> fetching[f].got]
          /\ fetching[f].phase \in 1..Len(Phases)
      BY <1>1, <2>1, <2>3 DEF FetchOk
    <3>2. fetching[f].phase # 0
      BY <1>1, <3>1
    <3> QED BY <1>2, <2>3, <3>1, <3>2 DEF UnderWay
  <2> QED BY <2>2, <2>3
<1> QED BY <1>1, <1>2 DEF UnderWay

\* The page, its visitor and so its tables stay for the life of a tab.
LEMMA SamePage ==
  ASSUME page' = page, visitor' = visitor
  PROVE  /\ Parts' = Parts /\ Flags' = Flags /\ Phases' = Phases
         /\ \A p : MayGet(p)' <=> MayGet(p)
BY DEF Parts, Flags, Phases, MayGet

\* A refresh that starts is at its first phase, beside those it leaves alone;
\* unless it races with them, everything is ahead of it.
LEMMA Starts ==
  ASSUME TypeInv, page # "session", page' = page, visitor' = visitor,
         NEW others \in SUBSET UnderWay, StartRefresh(others)
  PROVE  /\ fetching' = [f \in Fetches |-> fetching'[f]]
         /\ \A f \in Fetches : FetchOk(fetching[f])'
         /\ OneInv'
         /\ ~overlapped' => \A p \in Parts' : Ahead(p)'
         /\ ~overlapped' => \A f \in UnderWay' : fetching'[f].got = NoAnswer
<1> DEFINE New == [phase |-> 1, got |-> NoAnswer]
<1>1. PICK f \in Fetches \ UnderWay :
        fetching' = [g \in Fetches |->
          IF g = f THEN New ELSE IF g \in others THEN fetching[g] ELSE Quiet]
  BY DEF StartRefresh
<1>2. overlapped' = (others # {})
  BY DEF StartRefresh
<1>3. Phases' = Phases /\ Parts' = Parts
  BY SamePage
<1>4. 1 \in DOMAIN Phases
  BY RowUnderWay
<1>5. FetchOk(New)' /\ FetchOk(Quiet)'
  BY <1>3, <1>4 DEF FetchOk
<1>6. ASSUME NEW g \in Fetches
      PROVE  FetchOk(fetching[g])'
  <2>1. CASE g = f
    BY <1>1, <1>5, <2>1
  <2>2. CASE g # f /\ g \in others
    <3>1. FetchOk(fetching[g])
      BY <1>6 DEF TypeInv
    <3>2. fetching'[g] = fetching[g]
      BY <1>1, <1>6, <2>2
    <3>3. Phases' = Phases /\ \A p : MayGet(p)' <=> MayGet(p)
      BY SamePage
    <3> QED BY <3>1, <3>2, <3>3 DEF FetchOk
  <2>3. CASE g # f /\ g \notin others
    BY <1>1, <1>5, <1>6, <2>3
  <2> QED BY <2>1, <2>2, <2>3
<1>7. ASSUME ~overlapped'
      PROVE  UnderWay' = {f}
  <2>1. New # Quiet
    BY DEF Quiet
  <2> QED BY <1>1, <1>2, <1>7, <2>1 DEF UnderWay, Quiet
<1>8. ASSUME ~overlapped', NEW p \in Parts'
      PROVE  Ahead(p)'
  <2>1. PICK j \in DOMAIN Phases : p \in Phases[j].parts
    BY <1>3, <1>8 DEF Parts, PartsOf, Phases
  <2>2. fetching'[f].phase = 1
    BY <1>1
  <2>3. j >= 1
    BY <2>1, RowUnderWay
  <2> QED BY <1>3, <1>7, <1>8, <2>1, <2>2, <2>3 DEF Ahead
<1>9. OneInv'
  BY <1>7 DEF OneInv
<1>10. ~overlapped' => \A g \in UnderWay' : fetching'[g].got = NoAnswer
  BY <1>1, <1>7
<1> QED BY <1>1, <1>6, <1>8, <1>9, <1>10

\* Where the only refresh under way goes on to phase i, what is ahead is what
\* its later phases read.
LEMMA GoesOn ==
  ASSUME TypeInv, OneInv, page # "session", page' = page, visitor' = visitor,
         ~overlapped, NEW f \in UnderWay, NEW i \in DOMAIN Phases,
         i >= fetching[f].phase,
         fetching' = [fetching EXCEPT ![f] = After(i)]
  PROVE  \A p : Ahead(p) =>
           \/ Ahead(p)'
           \/ \E j \in DOMAIN Phases :
                fetching[f].phase <= j /\ j <= i /\ p \in Phases[j].parts
<1> SUFFICES ASSUME NEW p, Ahead(p),
                    \A j \in DOMAIN Phases :
                      ~(fetching[f].phase <= j /\ j <= i /\ p \in Phases[j].parts)
             PROVE  Ahead(p)'
  OBVIOUS
<1>1. DOMAIN Phases = 1..Len(Phases) /\ Len(Phases) \in Nat
  BY RowUnderWay
<1>2. PICK j \in DOMAIN Phases : j >= fetching[f].phase /\ p \in Phases[j].parts
  BY DEF Ahead, OneInv
<1>3. j > i /\ i < Len(Phases)
  BY <1>1, <1>2, RowUnderWay
<1>4. f \in Fetches /\ fetching'[f] = [phase |-> i + 1, got |-> NoAnswer]
  BY <1>3 DEF After, UnderWay, TypeInv
<1>5. f \in UnderWay' /\ fetching'[f].phase = i + 1
  <2>1. fetching'[f].phase # Quiet.phase
    BY <1>1, <1>4 DEF Quiet
  <2> QED BY <1>4, <2>1 DEF UnderWay
<1>6. j >= i + 1
  BY <1>1, <1>3
<1>7. Phases' = Phases
  BY SamePage
<1> QED BY <1>2, <1>5, <1>6, <1>7 DEF Ahead

\* And it is still the only one, in a phase it has, or at its end.
LEMMA StaysOne ==
  ASSUME TypeInv, OneInv, page # "session", page' = page, visitor' = visitor,
         overlapped' = overlapped, NEW f \in UnderWay, NEW i \in DOMAIN Phases,
         fetching' = [fetching EXCEPT ![f] = After(i)]
  PROVE  /\ fetching' = [g \in Fetches |-> fetching'[g]]
         /\ \A g \in Fetches : FetchOk(fetching[g])'
         /\ OneInv'
         /\ ~overlapped => \A g \in UnderWay' : fetching'[g].got = NoAnswer
<1>1. Phases' = Phases /\ \A p : MayGet(p)' <=> MayGet(p)
  BY SamePage
<1>2. DOMAIN Phases = 1..Len(Phases) /\ Len(Phases) \in Nat
  BY RowUnderWay
<1>3. FetchOk(After(i))'
  BY <1>1, <1>2 DEF FetchOk, After
<1>4. f \in Fetches /\ fetching'[f] = After(i)
  BY DEF UnderWay, TypeInv
<1>5. \A g \in Fetches : g # f => fetching'[g] = fetching[g]
  BY DEF TypeInv
<1>6. ASSUME NEW g \in Fetches
      PROVE  FetchOk(fetching[g])'
  <2>1. CASE g = f
    <3>1. fetching'[g] = After(i)'
      BY <1>1, <1>4, <2>1 DEF After
    <3> QED BY <1>3, <3>1 DEF FetchOk
  <2>2. CASE g # f
    <3>1. FetchOk(fetching[g])
      BY <1>6 DEF TypeInv
    <3> QED BY <1>1, <1>5, <1>6, <2>2, <3>1 DEF FetchOk
  <2> QED BY <2>1, <2>2
<1>7. UnderWay' \subseteq UnderWay
  BY <1>4, <1>5 DEF UnderWay, Quiet
<1>8. OneInv'
  BY <1>7 DEF OneInv
<1>9. ASSUME ~overlapped, NEW g \in UnderWay'
      PROVE  fetching'[g].got = NoAnswer
  <2>1. g = f
    BY <1>7, <1>9 DEF OneInv
  <2>2. After(i) # Quiet
    BY <1>4, <1>9, <2>1 DEF UnderWay, Quiet
  <2>3. After(i).got = NoAnswer
    BY <2>2 DEF After
  <2> QED BY <1>4, <2>1, <2>3
<1>10. fetching' = [g \in Fetches |-> fetching'[g]]
  BY DEF TypeInv
<1> QED BY <1>6, <1>8, <1>9, <1>10

-----------------------------------------------------------------------------
(* One lemma for each kind of step.                                        *)

\* The rows of the refreshes under way, when none of them changes.
LEMMA FetchesStay ==
  ASSUME TypeInv, page' = page, visitor' = visitor, fetching' = fetching
  PROVE  /\ fetching' = [f \in Fetches |-> fetching'[f]]
         /\ \A f \in Fetches : FetchOk(fetching[f])'
         /\ UnderWay' = UnderWay
         /\ \A p : Ahead(p)' <=> Ahead(p)
<1>1. Phases' = Phases /\ \A p : MayGet(p)' <=> MayGet(p)
  BY SamePage
<1>2. ASSUME NEW f \in Fetches
      PROVE  FetchOk(fetching[f])'
  <2>1. FetchOk(fetching[f])
    BY <1>2 DEF TypeInv
  <2> QED BY <1>1, <2>1 DEF FetchOk
<1>3. UnderWay' = UnderWay
  BY DEF UnderWay
<1> QED BY <1>1, <1>2, <1>3 DEF TypeInv, Ahead

LEMMA ReadStep ==
  ASSUME IInv, page # "session", NEW f \in Fetches, ReadPhase(f)
  PROVE  IInv'
<1> USE DEF IInv
<1> DEFINE i == fetching[f].phase
           got == [p \in Phases[i].parts |-> IF MayGet(p) THEN server[p] ELSE 0]
<1>1. /\ f \in UnderWay
      /\ fetching' = [fetching EXCEPT ![f].got = got]
      /\ UNCHANGED <<page, visitor, server, shown, followed, missed, lost,
                     overlapped, clicked, flags>>
  BY DEF ReadPhase
<1>2. Phases' = Phases /\ Parts' = Parts /\ \A p : MayGet(p)' <=> MayGet(p)
  BY <1>1, SamePage
<1>3. /\ i \in DOMAIN Phases /\ i # 0
      /\ fetching[f] = [phase |-> i, got |-> fetching[f].got]
  BY <1>1, RowUnderWay
<1>4. fetching'[f] = [phase |-> i, got |-> got]
  BY <1>1, <1>3 DEF TypeInv
<1>5. \A g \in Fetches : g # f => fetching'[g] = fetching[g]
  BY <1>1 DEF TypeInv
<1>6. Phases[i].parts \subseteq Parts
  BY <1>3 DEF Parts, PartsOf, Phases
<1>7. FetchOk(fetching[f])'
  <2>1. \A p \in Phases[i].parts : got[p] \in Nat /\ (got[p] = 0 => ~MayGet(p))
    BY <1>6 DEF TypeInv
  <2> QED BY <1>2, <1>3, <1>4, <2>1 DEF FetchOk
<1>8. \A g \in Fetches : FetchOk(fetching[g])'
  <2> SUFFICES ASSUME NEW g \in Fetches, g # f
               PROVE  FetchOk(fetching[g])'
    BY <1>7
  <2>1. FetchOk(fetching[g])
    BY DEF TypeInv
  <2> QED BY <1>2, <1>5, <2>1 DEF FetchOk
<1>9. UnderWay' = UnderWay
  BY <1>1, <1>3, <1>4, <1>5 DEF UnderWay, Quiet
<1>10. \A p : Ahead(p)' <=> Ahead(p)
  <2>1. \A g \in UnderWay : fetching'[g].phase = fetching[g].phase
    BY <1>4, <1>5 DEF UnderWay
  <2> QED BY <1>2, <1>9, <2>1 DEF Ahead
<1>11. \A c \in Clicks : ClickOk(clicked[c])'
  BY <1>1, <1>2 DEF TypeInv, ClickOk
<1>12. TypeInv'
  BY <1>1, <1>2, <1>8, <1>11 DEF TypeInv
<1>13. OneInv'
  BY <1>1, <1>9 DEF OneInv
<1>14. FreshInv'
  <2>1. \A p \in Phases[i].parts : got[p] = 0 \/ got[p] >= followed[p]
    BY <1>6 DEF TypeInv
  <2>2. ~overlapped => \A g \in UnderWay : g = f
    BY <1>1 DEF OneInv
  <2> QED BY <1>1, <1>2, <1>4, <1>9, <1>10, <2>1, <2>2 DEF FreshInv
<1>15. SeenInv'
  BY <1>1, <1>2, <1>10 DEF SeenInv
<1> QED BY <1>12, <1>13, <1>14, <1>15

LEMMA ApplyStep ==
  ASSUME IInv, page # "session", NEW f \in Fetches, ApplyPhase(f)
  PROVE  IInv'
<1> USE DEF IInv
<1> DEFINE i == fetching[f].phase
           got == fetching[f].got
           parts == Phases[i].parts
           refused == {p \in parts : got[p] = 0}
<1>1. /\ f \in UnderWay /\ got # NoAnswer
      /\ fetching' = [fetching EXCEPT ![f] = After(i)]
      /\ UNCHANGED <<page, visitor, server, followed, overlapped, clicked, flags>>
  BY DEF ApplyPhase
<1>2. PICK failed \in SUBSET Phases[i].caught :
        /\ refused \subseteq failed
        /\ shown' = [p \in Parts |-> IF p \in failed THEN 0
                       ELSE IF p \in parts THEN got[p] ELSE shown[p]]
        /\ missed' = (missed \ parts) \cup failed
        /\ lost' = (lost \/ failed # refused)
  BY DEF ApplyPhase
<1>3. Phases' = Phases /\ Parts' = Parts /\ \A p : MayGet(p)' <=> MayGet(p)
  BY <1>1, SamePage
<1>4. i \in DOMAIN Phases /\ i \in Nat /\ i >= i
  <2>1. i \in 1..Len(Phases) /\ DOMAIN Phases = 1..Len(Phases) /\ Len(Phases) \in 1..3
    BY <1>1, RowUnderWay
  <2> QED BY <2>1
<1>5. parts \subseteq Parts /\ failed \subseteq parts
  <2>1. Phases[i].caught \subseteq parts
    BY <1>4, CaughtParts, PagesAssumption DEF Phases, TypeInv
  <2> QED BY <1>2, <1>4, <2>1 DEF Parts, PartsOf, Phases
<1>6. \A p \in parts : got[p] \in Nat /\ (got[p] = 0 => ~MayGet(p))
  <2>1. FetchOk(fetching[f]) /\ fetching[f] # Quiet
    BY <1>1 DEF TypeInv, UnderWay
  <2> QED BY <1>1, <2>1 DEF FetchOk
<1>7. ~overlapped => \A p : Ahead(p) => Ahead(p)' \/ p \in parts
  <2>1. ASSUME ~overlapped, NEW p, Ahead(p)
        PROVE  Ahead(p)' \/ p \in parts
    <3>1. \/ Ahead(p)'
          \/ \E j \in DOMAIN Phases : i <= j /\ j <= i /\ p \in Phases[j].parts
      BY <1>1, <1>4, <2>1, GoesOn
    <3>2. \A j \in DOMAIN Phases : i <= j /\ j <= i => j = i
      <4>1. DOMAIN Phases = 1..Len(Phases) /\ Len(Phases) \in 1..3
        BY RowUnderWay
      <4> QED BY <1>4, <4>1
    <3> QED BY <3>1, <3>2
  <2> QED BY <2>1
<1>8. /\ fetching' = [g \in Fetches |-> fetching'[g]]
      /\ \A g \in Fetches : FetchOk(fetching[g])'
      /\ OneInv'
      /\ ~overlapped => \A g \in UnderWay' : fetching'[g].got = NoAnswer
  BY <1>1, <1>4, StaysOne
<1>9. \A c \in Clicks : ClickOk(clicked[c])'
  BY <1>1, <1>3 DEF TypeInv, ClickOk
<1>10. shown' \in [Parts -> Nat]
  BY <1>2, <1>6 DEF TypeInv
<1>11. missed' \subseteq Parts
  BY <1>2, <1>5 DEF TypeInv
<1>12. TypeInv'
  BY <1>1, <1>3, <1>8, <1>9, <1>10, <1>11 DEF TypeInv
<1>13. FreshInv'
  <2> SUFFICES ASSUME ~overlapped, NEW p \in Parts
               PROVE  Ahead(p)' \/ shown'[p] >= followed[p] \/ p \in missed'
    BY <1>1, <1>3, <1>8 DEF FreshInv
  <2>1. CASE p \in failed
    BY <1>2, <2>1
  <2>2. CASE p \in parts /\ p \notin failed
    <3>1. shown'[p] = got[p] /\ got[p] # 0
      BY <1>2, <2>2
    <3>2. got[p] >= followed[p]
      BY <1>1, <2>2, <3>1 DEF FreshInv
    <3> QED BY <3>1, <3>2
  <2>3. CASE p \notin parts
    <3>1. shown'[p] = shown[p] /\ (p \in missed => p \in missed')
      BY <1>2, <1>5, <2>3
    <3> QED BY <1>7, <2>3, <3>1 DEF FreshInv
  <2> QED BY <2>1, <2>2, <2>3
<1>14. SeenInv'
  <2> SUFFICES ASSUME ~overlapped, ~lost', visitor.caseRole # "none",
                      NEW p \in missed'
               PROVE  Ahead(p)' \/ ~MayGet(p)
    BY <1>1, <1>3 DEF SeenInv
  <2>1. failed = refused /\ ~lost
    BY <1>2
  <2>2. CASE p \in failed
    BY <1>6, <2>1, <2>2
  <2>3. CASE p \in missed /\ p \notin parts
    BY <1>7, <2>1, <2>3 DEF SeenInv
  <2> QED BY <1>2, <2>2, <2>3
<1> QED BY <1>8, <1>12, <1>13, <1>14

LEMMA FailStep ==
  ASSUME IInv, page # "session", NEW f \in Fetches, FailPhase(f)
  PROVE  IInv'
<1> USE DEF IInv
<1> DEFINE i == fetching[f].phase
           got == fetching[f].got
           skip == {j \in DOMAIN Phases : j >= i /\ Phases[j].block = Phases[i].block}
           last == CHOOSE j \in skip : \A k \in skip : k <= j
           open == Phases[i].parts \ Phases[i].caught
           gone == UNION {Phases[j].parts : j \in skip}
<1>1. /\ f \in UnderWay /\ got # NoAnswer
      /\ open # {}
      /\ missed' = missed \cup gone
      /\ lost' = (lost \/ \A p \in open : got[p] # 0)
      /\ fetching' = [fetching EXCEPT ![f] = After(last)]
      /\ UNCHANGED <<page, visitor, server, shown, followed, overlapped, clicked,
                     flags>>
  BY DEF FailPhase
<1>2. Phases' = Phases /\ Parts' = Parts /\ \A p : MayGet(p)' <=> MayGet(p)
  BY <1>1, SamePage
<1>3. i \in DOMAIN Phases /\ DOMAIN Phases = 1..Len(Phases) /\ Len(Phases) \in 1..3
  BY <1>1, RowUnderWay
<1>4. last \in skip /\ \A k \in skip : k <= last
  <2>1. i \in skip /\ skip \subseteq {1, 2, 3}
    BY <1>3
  <2>2. \E j \in skip : \A k \in skip : k <= j
    <3>1. CASE 3 \in skip
      BY <2>1, <3>1
    <3>2. CASE 3 \notin skip /\ 2 \in skip
      BY <2>1, <3>2
    <3>3. CASE 3 \notin skip /\ 2 \notin skip
      BY <2>1, <3>3
    <3> QED BY <3>1, <3>2, <3>3
  <2> QED BY <2>2
<1>5. last \in DOMAIN Phases /\ last >= i
  BY <1>4
<1>6. \A j \in DOMAIN Phases : i <= j /\ j <= last => j \in skip
  <2>1. \A j \in DOMAIN Phases :
          i <= j /\ j <= last => Phases[j].block = Phases[i].block
    BY <1>3, <1>4, RefreshTables, PagesAssumption DEF Phases, TypeInv
  <2> QED BY <1>3, <2>1
<1>7. ~overlapped => \A p : Ahead(p) => Ahead(p)' \/ p \in gone
  <2>1. ASSUME ~overlapped, NEW p, Ahead(p)
        PROVE  Ahead(p)' \/ p \in gone
    <3>1. \/ Ahead(p)'
          \/ \E j \in DOMAIN Phases : i <= j /\ j <= last /\ p \in Phases[j].parts
      BY <1>1, <1>5, <2>1, GoesOn
    <3> QED BY <1>6, <3>1
  <2> QED BY <2>1
<1>8. /\ fetching' = [g \in Fetches |-> fetching'[g]]
      /\ \A g \in Fetches : FetchOk(fetching[g])'
      /\ OneInv'
      /\ ~overlapped => \A g \in UnderWay' : fetching'[g].got = NoAnswer
  BY <1>1, <1>5, StaysOne
<1>9. \A c \in Clicks : ClickOk(clicked[c])'
  BY <1>1, <1>2 DEF TypeInv, ClickOk
<1>10. missed' \subseteq Parts
  <2>1. gone \subseteq Parts
    BY DEF Parts, PartsOf, Phases
  <2> QED BY <1>1, <2>1 DEF TypeInv
<1>11. TypeInv'
  BY <1>1, <1>2, <1>8, <1>9, <1>10 DEF TypeInv
<1>12. FreshInv'
  <2> SUFFICES ASSUME ~overlapped, NEW p \in Parts
               PROVE  Ahead(p)' \/ shown[p] >= followed[p] \/ p \in missed'
    BY <1>1, <1>2, <1>8 DEF FreshInv
  <2> QED BY <1>1, <1>7 DEF FreshInv
<1>13. SeenInv'
  \* A member is refused no part that is open, so that a request was lost.
  <2> SUFFICES ASSUME visitor.caseRole # "none"
               PROVE  lost'
    BY <1>1 DEF SeenInv
  <2>1. \A p \in open : MayGet(p)
    BY <1>3, OpenPasses
  <2>2. \A p \in Phases[i].parts : got[p] = 0 => ~MayGet(p)
    <3>1. FetchOk(fetching[f]) /\ fetching[f] # Quiet
      BY <1>1 DEF TypeInv, UnderWay
    <3> QED BY <1>1, <3>1 DEF FetchOk
  <2> QED BY <1>1, <2>1, <2>2
<1> QED BY <1>8, <1>11, <1>12, <1>13

\* A click, its call and its failure leave what is shown and read alone.
LEMMA CallStep ==
  ASSUME IInv, NEW c \in Clicks,
         StartHandler(c) \/ ServeCall(c) \/ CallFails(c) \/ CallShowsNothing(c)
  PROVE  IInv'
<1> USE DEF IInv
<1>1. UNCHANGED <<page, visitor, shown, followed, missed, lost, fetching, overlapped>>
  BY DEF StartHandler, ServeCall, CallFails, CallShowsNothing
<1>2. Phases' = Phases /\ Parts' = Parts /\ \A p : MayGet(p)' <=> MayGet(p)
  BY <1>1, SamePage
<1>3. /\ fetching' = [f \in Fetches |-> fetching'[f]]
      /\ \A f \in Fetches : FetchOk(fetching[f])'
      /\ UnderWay' = UnderWay
      /\ \A p : Ahead(p)' <=> Ahead(p)
  BY <1>1, FetchesStay
<1>4. /\ server' \in [Parts -> Nat \ {0}]
      /\ \A p \in Parts : followed[p] <= server'[p]
      /\ clicked' = [d \in Clicks |-> clicked'[d]]
      /\ \A d \in Clicks : ClickOk(clicked[d])'
  <2>1. CASE ServeCall(c)
    <3> DEFINE a == clicked[c].does
               served == [stage |-> "served", does |-> a,
                          made |-> [p \in a.changes |-> server'[p]]]
    <3>1. /\ server' = [p \in Parts |->
                IF p \in a.changes THEN server[p] + 1 ELSE server[p]]
          /\ clicked' = [clicked EXCEPT ![c] = served]
      BY <2>1 DEF ServeCall
    <3>2. server' \in [Parts -> Nat \ {0}] /\ \A p \in Parts : server[p] <= server'[p]
      BY <3>1 DEF TypeInv
    <3>3. \A p \in Parts : followed[p] <= server'[p]
      BY <3>2 DEF TypeInv
    <3>4. clicked'[c] = served /\ \A d \in Clicks : d # c => clicked'[d] = clicked[d]
      BY <3>1 DEF TypeInv
    <3>5. ClickOk(clicked[c])'
      BY <1>2, <3>2, <3>4 DEF ClickOk
    <3>6. ASSUME NEW d \in Clicks, d # c
          PROVE  ClickOk(clicked[d])'
      <4>1. ClickOk(clicked[d])
        BY <3>6 DEF TypeInv
      <4>2. ASSUME NEW p \in Parts, NEW n \in Nat, n <= server[p]
            PROVE  n <= server'[p]
        BY <3>2, <4>2 DEF TypeInv
      <4> QED BY <1>2, <3>4, <3>6, <4>1, <4>2 DEF ClickOk
    <3>7. clicked' = [d \in Clicks |-> clicked'[d]]
      BY <3>1 DEF TypeInv
    <3> QED BY <3>2, <3>3, <3>5, <3>6, <3>7
  <2>2. CASE StartHandler(c) \/ CallFails(c) \/ CallShowsNothing(c)
    <3>1. server' = server
      BY <2>2 DEF StartHandler, CallFails, CallShowsNothing
    <3>2. PICK row \in {[stage |-> "done"]} \cup
                        {[stage |-> "calling", does |-> a] : a \in Handlers[page]} :
            clicked' = [clicked EXCEPT ![c] = row]
      <4>1. CASE StartHandler(c)
        BY <4>1 DEF StartHandler
      <4>2. CASE CallFails(c) \/ CallShowsNothing(c)
        BY <4>2 DEF CallFails, CallShowsNothing
      <4> QED BY <2>2, <4>1, <4>2
    <3>3. /\ clicked' = [d \in Clicks |-> clicked'[d]]
          /\ clicked'[c].stage # "served"
          /\ \A d \in Clicks : d # c => clicked'[d] = clicked[d]
      <4>1. row.stage # "served"
        OBVIOUS
      <4> QED BY <3>2, <4>1 DEF TypeInv
    <3>4. \A d \in Clicks : ClickOk(clicked[d])'
      BY <1>2, <3>1, <3>3 DEF ClickOk, TypeInv
    <3> QED BY <3>1, <3>3, <3>4 DEF TypeInv
  <2> QED BY <2>1, <2>2
<1>5. TypeInv'
  BY <1>1, <1>2, <1>3, <1>4 DEF TypeInv
<1>6. OneInv' /\ FreshInv' /\ SeenInv'
  BY <1>1, <1>2, <1>3 DEF OneInv, FreshInv, SeenInv
<1> QED BY <1>5, <1>6

\* What an acknowledged call leaves of the calls, and of what was followed.
LEMMA AcknowledgeStep ==
  ASSUME TypeInv, NEW c \in Clicks, clicked[c].stage = "served",
         page' = page, visitor' = visitor, server' = server,
         followed' = Acknowledged(c, followed),
         clicked' = [clicked EXCEPT ![c] = [stage |-> "done"]]
  PROVE  /\ followed' \in [Parts -> Nat]
         /\ \A p \in Parts : followed'[p] <= server[p]
         /\ \A p \in Parts \cap clicked[c].does.changes :
              clicked[c].made[p] \in Nat
         /\ clicked' = [d \in Clicks |-> clicked'[d]]
         /\ \A d \in Clicks : ClickOk(clicked[d])'
<1>1. \A p \in Parts \cap clicked[c].does.changes :
        clicked[c].made[p] \in Nat /\ clicked[c].made[p] <= server[p]
  BY DEF TypeInv, ClickOk
<1>2. followed' \in [Parts -> Nat] /\ \A p \in Parts : followed'[p] <= server[p]
  BY <1>1 DEF Acknowledged, TypeInv
<1>3. Parts' = Parts
  BY SamePage
<1>4. /\ clicked' = [d \in Clicks |-> clicked'[d]]
      /\ clicked'[c].stage = "done"
      /\ \A d \in Clicks : d # c => clicked'[d] = clicked[d]
  BY DEF TypeInv
<1>5. \A d \in Clicks : ClickOk(clicked[d])'
  BY <1>3, <1>4 DEF ClickOk, TypeInv
<1> QED BY <1>1, <1>2, <1>4, <1>5

LEMMA ReturnStep ==
  ASSUME IInv, page # "session", NEW c \in Clicks, CallReturns(c)
  PROVE  IInv'
<1> USE DEF IInv
<1>1. /\ clicked[c].stage = "served"
      /\ followed' = Acknowledged(c, followed)
      /\ StartRefresh(UnderWay)
      /\ clicked' = [clicked EXCEPT ![c] = [stage |-> "done"]]
      /\ UNCHANGED <<page, visitor, server, shown, missed>>
  BY DEF CallReturns
<1>2. Phases' = Phases /\ Parts' = Parts /\ \A p : MayGet(p)' <=> MayGet(p)
  BY <1>1, SamePage
<1>3. /\ fetching' = [f \in Fetches |-> fetching'[f]]
      /\ \A f \in Fetches : FetchOk(fetching[f])'
      /\ OneInv'
      /\ ~overlapped' => \A p \in Parts' : Ahead(p)'
      /\ ~overlapped' => \A f \in UnderWay' : fetching'[f].got = NoAnswer
  <2> DEFINE all == UnderWay
  <2>1. all \in SUBSET UnderWay
    OBVIOUS
  <2> QED BY <1>1, <2>1, Starts
<1>4. /\ followed' \in [Parts -> Nat]
      /\ \A p \in Parts : followed'[p] <= server[p]
      /\ clicked' = [d \in Clicks |-> clicked'[d]]
      /\ \A d \in Clicks : ClickOk(clicked[d])'
  BY <1>1, AcknowledgeStep
<1>5. TypeInv'
  BY <1>1, <1>2, <1>3, <1>4 DEF TypeInv
<1>6. FreshInv'
  BY <1>3 DEF FreshInv
<1>7. SeenInv'
  <2>1. missed' \subseteq Parts'
    BY <1>5 DEF TypeInv
  <2> QED BY <1>3, <2>1 DEF SeenInv
<1> QED BY <1>3, <1>5, <1>6, <1>7

LEMMA SetStep ==
  ASSUME IInv, NEW c \in Clicks, CallSets(c)
  PROVE  IInv'
<1> USE DEF IInv
<1> DEFINE set == clicked[c].does.changes
           made == clicked[c].made
<1>1. /\ clicked[c].stage = "served"
      /\ followed' = Acknowledged(c, followed)
      /\ shown' = [p \in Parts |-> IF p \in set THEN made[p] ELSE shown[p]]
      /\ missed' = missed \ set
      /\ overlapped' = (overlapped \/ UnderWay # {} \/ Outdated(c))
      /\ clicked' = [clicked EXCEPT ![c] = [stage |-> "done"]]
      /\ UNCHANGED <<page, visitor, server, lost, fetching>>
  BY DEF CallSets
<1>2. Phases' = Phases /\ Parts' = Parts /\ \A p : MayGet(p)' <=> MayGet(p)
  BY <1>1, SamePage
<1>3. /\ fetching' = [f \in Fetches |-> fetching'[f]]
      /\ \A f \in Fetches : FetchOk(fetching[f])'
      /\ UnderWay' = UnderWay
      /\ \A p : Ahead(p)' <=> Ahead(p)
  BY <1>1, FetchesStay
<1>4. /\ followed' \in [Parts -> Nat]
      /\ \A p \in Parts : followed'[p] <= server[p]
      /\ \A p \in Parts \cap set : made[p] \in Nat
      /\ clicked' = [d \in Clicks |-> clicked'[d]]
      /\ \A d \in Clicks : ClickOk(clicked[d])'
  BY <1>1, AcknowledgeStep
<1>5. shown' \in [Parts -> Nat] /\ missed' \subseteq Parts
  BY <1>1, <1>4 DEF TypeInv
<1>6. TypeInv'
  BY <1>1, <1>2, <1>3, <1>4, <1>5 DEF TypeInv
<1>7. OneInv'
  BY <1>1, <1>3 DEF OneInv
<1>8. FreshInv'
  <2> SUFFICES ASSUME ~overlapped, UnderWay = {}, ~Outdated(c), NEW p \in Parts
               PROVE  shown'[p] >= followed'[p] \/ p \in missed'
    BY <1>1, <1>2, <1>3 DEF FreshInv
  <2>1. CASE p \in set
    <3>1. made[p] >= followed[p]
      BY <1>4, <2>1 DEF Outdated, TypeInv
    <3>2. followed'[p] <= made[p] /\ shown'[p] = made[p]
      BY <1>1, <1>4, <2>1, <3>1 DEF Acknowledged, TypeInv
    <3> QED BY <1>4, <2>1, <3>2
  <2>2. CASE p \notin set
    <3>1. shown[p] >= followed[p] \/ p \in missed
      BY DEF FreshInv, Ahead
    <3> QED BY <1>1, <2>2, <3>1 DEF Acknowledged
  <2> QED BY <2>1, <2>2
<1>9. SeenInv'
  BY <1>1, <1>2, <1>3 DEF SeenInv
<1> QED BY <1>6, <1>7, <1>8, <1>9

LEMMA TypeStep ==
  ASSUME IInv, page # "session", Type
  PROVE  IInv'
<1> USE DEF IInv
<1>1. /\ page = "picker"
      /\ server' = [server EXCEPT !["results"] = @ + 1]
      /\ followed' = [followed EXCEPT !["results"] = server'["results"]]
      /\ UNCHANGED <<page, visitor, clicked, flags>>
  BY DEF Type
<1>2. Phases' = Phases /\ Parts' = Parts /\ \A p : MayGet(p)' <=> MayGet(p)
  BY <1>1, SamePage
<1>3. "results" \in Parts /\ \A p \in Parts : p = "results"
  <2>1. Refresh[page] = << Phase(1, {"results"}, {"results"}) >>
    BY <1>1 DEF Refresh, picker_lookup
  <2> QED BY <2>1 DEF Parts, PartsOf, Phase
<1>4. /\ server' \in [Parts -> Nat \ {0}]
      /\ \A p \in Parts : server[p] <= server'[p]
      /\ followed' \in [Parts -> Nat]
      /\ \A p \in Parts : followed'[p] <= server'[p]
  BY <1>1, <1>3 DEF TypeInv
<1>5. \A c \in Clicks : ClickOk(clicked[c])'
  <2> SUFFICES ASSUME NEW c \in Clicks
               PROVE  ClickOk(clicked[c])'
    OBVIOUS
  <2>1. ClickOk(clicked[c])
    BY DEF TypeInv
  <2>2. ASSUME NEW p \in Parts, NEW n \in Nat, n <= server[p]
        PROVE  n <= server'[p]
    BY <1>4, <2>2 DEF TypeInv
  <2> QED BY <1>1, <1>2, <2>1, <2>2 DEF ClickOk
<1>6. PICK timers \in SUBSET {f \in UnderWay : fetching[f].got = NoAnswer} :
        \/ /\ StartRefresh(UnderWay \ timers)
           /\ UNCHANGED <<shown, missed>>
        \/ /\ fetching' = [f \in Fetches |->
                IF f \in timers THEN Quiet ELSE fetching[f]]
           /\ overlapped' = (UnderWay \ timers # {})
           /\ shown' = followed'
           /\ missed' = {} /\ UNCHANGED lost
  BY DEF Type
<1>7. CASE StartRefresh(UnderWay \ timers) /\ UNCHANGED <<shown, missed>>
  <2>1. /\ fetching' = [f \in Fetches |-> fetching'[f]]
        /\ \A f \in Fetches : FetchOk(fetching[f])'
        /\ OneInv'
        /\ ~overlapped' => \A p \in Parts' : Ahead(p)'
        /\ ~overlapped' => \A f \in UnderWay' : fetching'[f].got = NoAnswer
    <3> DEFINE others == UnderWay \ timers
    <3>1. others \in SUBSET UnderWay
      OBVIOUS
    <3> QED BY <1>1, <1>7, <3>1, Starts
  <2>2. TypeInv'
    BY <1>1, <1>2, <1>4, <1>5, <1>7, <2>1 DEF TypeInv
  <2>3. missed' \subseteq Parts'
    BY <2>2 DEF TypeInv
  <2> QED BY <2>1, <2>2, <2>3 DEF FreshInv, SeenInv
<1>8. CASE /\ fetching' = [f \in Fetches |->
                IF f \in timers THEN Quiet ELSE fetching[f]]
           /\ overlapped' = (UnderWay \ timers # {})
           /\ shown' = followed'
           /\ missed' = {} /\ UNCHANGED lost
  <2>1. ASSUME NEW f \in Fetches
        PROVE  FetchOk(fetching[f])'
    <3>1. FetchOk(fetching[f])
      BY <2>1 DEF TypeInv
    <3>2. fetching'[f] = fetching[f] \/ fetching'[f] = Quiet
      BY <1>8, <2>1
    <3> QED BY <1>2, <3>1, <3>2 DEF FetchOk
  <2>2. UnderWay' = UnderWay \ timers
    BY <1>8 DEF UnderWay, Quiet
  <2>3. TypeInv'
    BY <1>1, <1>2, <1>4, <1>5, <1>8, <2>1 DEF TypeInv
  <2>4. OneInv'
    BY <1>8, <2>2 DEF OneInv
  <2>5. FreshInv'
    <3>1. \A p \in Parts : shown'[p] >= followed'[p]
      BY <1>4, <1>8
    <3> QED BY <1>2, <1>8, <2>2, <3>1 DEF FreshInv
  <2>6. SeenInv'
    BY <1>8 DEF SeenInv
  <2> QED BY <2>3, <2>4, <2>5, <2>6
<1> QED BY <1>6, <1>7, <1>8

LEMMA PageStays ==
  ASSUME IInv, UNCHANGED pageVars
  PROVE  IInv'
<1> USE DEF IInv
<1>1. UNCHANGED <<page, visitor, server, shown, followed, missed, lost, fetching,
                  overlapped, clicked>>
  BY DEF pageVars
<1>2. Phases' = Phases /\ Parts' = Parts /\ \A p : MayGet(p)' <=> MayGet(p)
  BY <1>1, SamePage
<1>3. /\ fetching' = [f \in Fetches |-> fetching'[f]]
      /\ \A f \in Fetches : FetchOk(fetching[f])'
      /\ UnderWay' = UnderWay
      /\ \A p : Ahead(p)' <=> Ahead(p)
  BY <1>1, FetchesStay
<1>4. \A c \in Clicks : ClickOk(clicked[c])'
  BY <1>1, <1>2 DEF TypeInv, ClickOk
<1>5. TypeInv'
  BY <1>1, <1>2, <1>3, <1>4 DEF TypeInv
<1> QED BY <1>1, <1>2, <1>3, <1>5 DEF OneInv, FreshInv, SeenInv

-----------------------------------------------------------------------------
(* The theorems.                                                           *)

LEMMA PageStarts ==
  ASSUME PageInit
  PROVE  IInv
<1> DEFINE New == [phase |-> 1, got |-> NoAnswer]
<1>1. PICK first \in Fetches :
        fetching = [f \in Fetches |->
          IF f = first /\ page \notin {"picker", "session"} THEN New ELSE Quiet]
  BY DEF PageInit
<1>2. page \in Pages /\ page \in DOMAIN Refresh
  BY PagesAssumption DEF PageInit
<1>3. FetchOk(Quiet)
  BY DEF FetchOk
<1>4. page # "session" => FetchOk(New)
  <2>1. page # "session" => 1 \in DOMAIN Phases
    BY <1>2, RefreshTables DEF Phases
  <2> QED BY <2>1 DEF FetchOk
<1>5. \A f \in Fetches : FetchOk(fetching[f])
  BY <1>1, <1>3, <1>4
<1>6. \A c \in Clicks : ClickOk(clicked[c])
  BY DEF PageInit, ClickOk, Unused
<1>7. TypeInv
  BY <1>1, <1>2, <1>5, <1>6 DEF PageInit, TypeInv
<1>8. \A f \in UnderWay : f = first /\ fetching[f].got = NoAnswer
  BY <1>1 DEF UnderWay
<1>9. OneInv
  BY <1>8 DEF OneInv
<1>10. FreshInv
  BY <1>8 DEF FreshInv, PageInit
<1>11. SeenInv
  BY DEF SeenInv, PageInit
<1> QED BY <1>7, <1>9, <1>10, <1>11 DEF IInv

THEOREM PageInvariance == Spec => []IInv
<1>1. WebInit => IInv
  BY PageStarts DEF WebInit
<1>2. IInv /\ [WebNext]_webVars => IInv'
  <2> SUFFICES ASSUME IInv, [WebNext]_webVars
               PROVE  IInv'
    OBVIOUS
  <2>1. CASE page # "session" /\ PageNext
    <3>1. CASE Type
      BY <2>1, <3>1, TypeStep
    <3>2. ASSUME NEW f \in Fetches, ReadPhase(f) \/ ApplyPhase(f) \/ FailPhase(f)
          PROVE  IInv'
      BY <2>1, <3>2, ReadStep, ApplyStep, FailStep
    <3>3. ASSUME NEW c \in Clicks,
                 StartHandler(c) \/ ServeCall(c) \/ CallFails(c) \/ CallShowsNothing(c)
          PROVE  IInv'
      BY <3>3, CallStep
    <3>4. ASSUME NEW c \in Clicks, CallReturns(c) \/ CallSets(c)
          PROVE  IInv'
      BY <2>1, <3>4, ReturnStep, SetStep
    <3> QED BY <2>1, <3>1, <3>2, <3>3, <3>4 DEF PageNext
  <2>2. CASE UNCHANGED pageVars
    BY <2>2, PageStays
  <2>3. CASE UNCHANGED webVars
    BY <2>3, PageStays DEF webVars
  <2> QED BY <2>1, <2>2, <2>3 DEF WebNext
<1> QED BY <1>1, <1>2, PTL DEF Spec

LEMMA WroteStep ==
  ASSUME IInv, WroteInv, page # "session", PageNext
  PROVE  WroteInv'
<1>1. page' = page /\ visitor' = visitor
  BY DEF PageNext, Type, ReadPhase, ApplyPhase, FailPhase, StartHandler, ServeCall,
     CallFails, CallReturns, CallSets, CallShowsNothing
<1>2. Parts' = Parts
  BY <1>1, SamePage
<1>3. clicked = [c \in Clicks |-> clicked[c]]
  BY DEF IInv, TypeInv
<1>4. CASE Type
  <2>1. /\ written' = [written EXCEPT !["results"] = server'["results"]]
        /\ followed' = [followed EXCEPT !["results"] = server'["results"]]
        /\ clicked' = clicked
    BY <1>4 DEF Type
  <2>2. followed = [p \in Parts |-> followed[p]]
    BY DEF IInv, TypeInv
  <2> QED BY <1>1, <1>2, <2>1, <2>2 DEF WroteInv
<1>5. ASSUME NEW f \in Fetches, ReadPhase(f) \/ ApplyPhase(f) \/ FailPhase(f)
      PROVE  WroteInv'
  BY <1>1, <1>2, <1>5 DEF WroteInv, ReadPhase, ApplyPhase, FailPhase
<1>6. ASSUME NEW c \in Clicks, StartHandler(c) \/ ServeCall(c) \/ CallFails(c)
      PROVE  WroteInv'
  <2>1. written' = written /\ followed' = followed
    BY <1>6 DEF StartHandler, ServeCall, CallFails
  <2>2. \A d \in Clicks : clicked'[d].stage \in {"calling", "served"} =>
          clicked'[d].does \in Handlers[page]
    <3>1. CASE StartHandler(c)
      <4>1. PICK a \in Handlers[page] :
              clicked' = [clicked EXCEPT ![c] = [stage |-> "calling", does |-> a]]
        BY <3>1 DEF StartHandler
      <4> QED BY <1>3, <4>1 DEF WroteInv
    <3>2. CASE ServeCall(c)
      <4>1. /\ clicked[c].stage = "calling"
            /\ clicked' = [clicked EXCEPT ![c] =
                 [stage |-> "served", does |-> clicked[c].does,
                  made |-> [p \in clicked[c].does.changes |-> server'[p]]]]
        BY <3>2 DEF ServeCall
      <4> QED BY <1>3, <4>1 DEF WroteInv
    <3>3. CASE CallFails(c)
      BY <1>3, <3>3 DEF WroteInv, CallFails
    <3> QED BY <1>6, <3>1, <3>2, <3>3
  <2> QED BY <1>1, <1>2, <2>1, <2>2 DEF WroteInv
<1>7. ASSUME NEW c \in Clicks, CallReturns(c) \/ CallSets(c) \/ CallShowsNothing(c)
      PROVE  WroteInv'
  <2>1. /\ clicked[c].stage = "served"
        /\ written' = Acknowledged(c, written)
        /\ clicked' = [clicked EXCEPT ![c] = [stage |-> "done"]]
    BY <1>7 DEF CallReturns, CallSets, CallShowsNothing
  <2>2. \A d \in Clicks : clicked'[d].stage \in {"calling", "served"} =>
          clicked'[d].does \in Handlers[page]
    BY <1>3, <2>1 DEF WroteInv
  <2>3. ASSUME NEW p \in Parts \ NotReadAgain
        PROVE  written'[p] = followed'[p]
    <3>1. CASE CallReturns(c) \/ CallSets(c)
      <4>1. followed' = Acknowledged(c, followed)
        BY <3>1 DEF CallReturns, CallSets
      <4> QED BY <2>1, <4>1 DEF WroteInv, Acknowledged
    <3>2. CASE CallShowsNothing(c)
      <4>1. clicked[c].does.then = "nothing" /\ followed' = followed
        BY <3>2 DEF CallShowsNothing
      <4>2. clicked[c].does \in Handlers[page] /\ page \in DOMAIN Refresh
        BY <2>1, PagesAssumption DEF WroteInv, IInv, TypeInv
      <4>3. p \notin clicked[c].does.changes
        BY <4>1, <4>2, Unfollowed
      <4> QED BY <2>1, <4>1, <4>3 DEF WroteInv, Acknowledged
    <3> QED BY <1>7, <3>1, <3>2
  <2>4. written' = [p \in Parts |-> written'[p]]
    BY <2>1 DEF Acknowledged
  <2> QED BY <1>1, <1>2, <2>2, <2>3, <2>4 DEF WroteInv
<1> QED BY <1>4, <1>5, <1>6, <1>7 DEF PageNext

LEMMA WroteInvariance == Spec => []WroteInv
<1>1. WebInit => WroteInv
  BY DEF WebInit, PageInit, WroteInv, Unused
<1>2. IInv /\ WroteInv /\ [WebNext]_webVars => WroteInv'
  <2> SUFFICES ASSUME IInv, WroteInv, [WebNext]_webVars
               PROVE  WroteInv'
    OBVIOUS
  <2>1. CASE page # "session" /\ PageNext
    BY <2>1, WroteStep
  <2>2. CASE UNCHANGED pageVars
    BY <2>2 DEF pageVars, WroteInv, Parts
  <2>3. CASE UNCHANGED webVars
    BY <2>3 DEF webVars, pageVars, WroteInv, Parts
  <2> QED BY <2>1, <2>2, <2>3 DEF WebNext
<1> QED BY <1>1, <1>2, PageInvariance, PTL DEF Spec

\* A page at rest whose newest answers did not race shows what was last
\* acknowledged of each part, or could not read it: whatever the page, however
\* many handlers and refreshes overlapped before (refresh() and the handlers
\* of the pages under apps/web/src/app).  What a download made of a version or
\* an artifact is the exception: there it shows every other change.
THEOREM WritesCorrect == Spec => []ShownIsOwnWrites
<1>1. IInv /\ WroteInv => ShownIsOwnWrites
  BY DEF IInv, FreshInv, WroteInv, ShownIsOwnWrites, Ahead
<1> QED BY <1>1, PageInvariance, WroteInvariance, PTL

\* A member of the case misses nothing at rest but what the routes refuse the
\* member, unless a request was lost: every part whose refusal would take
\* others with it is one that each role in a case may view.
THEOREM MemberCorrect == Spec => []MemberSeesPage
<1>1. IInv => MemberSeesPage
  BY DEF IInv, SeenInv, MemberSeesPage, Ahead
<1> QED BY <1>1, PageInvariance, PTL
=============================================================================
