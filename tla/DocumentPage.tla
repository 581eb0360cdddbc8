---------------------------- MODULE DocumentPage ----------------------------
(***************************************************************************)
(* What a freshly loaded document page, approval inbox and signature queue *)
(* offer a user (apps/web, cases/[id]/documents/[documentId]/page.js,      *)
(* approval/inbox/page.js, signatures/queue/page.js) next to what the      *)
(* services accept.  Page and inbox find an approver's turn each in a way  *)
(* of its own.                                                             *)
(***************************************************************************)
EXTENDS DocumentLifecycle

\* The page lists the requests newest first and takes the first; a turn is
\* offered on that one only.
latestRequest == {c \in DOMAIN chains : c = Len(chains)}

Turn(c, k) == [chain |-> c, step |-> k]

\* Mutant: the step's order is not compared with the request's current step.
myPendingStep(u) ==
  UNION {{Turn(c, k) : k \in {k \in DOMAIN chains[c].steps :
                                 /\ chains[c].approvers[k] = u
                                 /\ chains[c].steps[k] = "PENDING"}} :
         c \in {c \in latestRequest : chains[c].status = "PENDING"}}

myActionableStep(u) ==
  UNION {{Turn(c, k) : k \in {k \in DOMAIN chains[c].steps :
                                 /\ chains[c].approvers[k] = u
                                 /\ k = chains[c].turn
                                 /\ chains[c].steps[k] = "PENDING"}} :
         c \in {c \in latestRequest : chains[c].status = "PENDING"}}

\* findPendingStepsForApprover, for this document.
inbox(u) ==
  UNION {{Turn(c, k) : k \in {k \in DOMAIN chains[c].steps :
                                 /\ chains[c].approvers[k] = u
                                 /\ chains[c].steps[k] = "PENDING"
                                 /\ k = chains[c].turn
                                 /\ chains[c].status = "PENDING"}} :
         c \in DOMAIN chains}

decideButtons(u) == myActionableStep(u) \X Decisions
inboxCards(u)    == inbox(u) \X Decisions

finalizeButton == status = "SIGNED"

\* listPendingForSigner; Sign is disabled without a key.
queue(u) == {i \in DOMAIN signatures : Pending(i, u)}
queueCards(u) ==
  {[item |-> i, answer |-> a] : i \in queue(u),
     a \in {"decline"} \cup (IF ActiveKeys(u) = {} THEN {} ELSE {"sign"})}

-----------------------------------------------------------------------------
\* The steps that loadActionableStepOrThrow lets through now.
Decidable(u) ==
  UNION {{Turn(c, k) : k \in {k \in DOMAIN chains[c].steps : Actionable(c, k, u)}} :
         c \in DOMAIN chains}

\* Everybody finds his turn.  When requests are served one at a time, page and
\* inbox offer an approver the same steps and exactly the ones the service
\* lets him decide, a document under review is waiting for somebody who is
\* offered a decision, Finalize is offered when it would succeed, and whoever
\* is asked for a signature can answer: decline it, or sign it if the document
\* has not moved on and he has a key.
TurnIsOffered ==
  /\ \A u \in Approvers : /\ decideButtons(u) = Decidable(u) \X Decisions
                          /\ inboxCards(u) = decideButtons(u)
  /\ status = "UNDER_REVIEW" => \E u \in Approvers : decideButtons(u) # {}
  /\ finalizeButton <=> Finalizable
  /\ \A u \in Users :
       /\ {i \in queue(u) : [item |-> i, answer |-> "decline"] \in queueCards(u)}
            = Declinable(u)
       /\ ActiveKeys(u) # {} =>
            \A i \in Fulfillable(u) :
              [item |-> i, answer |-> "sign"] \in queueCards(u)
=============================================================================
