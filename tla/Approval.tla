------------------------------ MODULE Approval ------------------------------
(***************************************************************************)
(* The approval chains of a document (modules/approval/approval.service),  *)
(* each a sequence of approvers who decide one after the other.            *)
(***************************************************************************)
EXTENDS Documents

CONSTANTS Approvers,      \* users who may submit or decide
          MaxChains,     \* bound on the submissions of the document
          MaxApprovers   \* bound on the approvers of a chain (10 in the code)

ASSUME MaxApproversAssumption == MaxApprovers \in Nat

VARIABLES chains         \* approval_requests with their steps, oldest first

-----------------------------------------------------------------------------
Decisions == {"APPROVED", "REJECTED", "REVISION_REQUESTED"}

SUBMITTABLE_STATUSES == {"DRAFT", "ACTIVE"}

\* uniqueApproverIds: at least one, no duplicates, and never the submitter.
ApproverLists(u) ==
  {l \in UNION {[1..n -> Approvers \ {u}] : n \in 1..MaxApprovers} :
     \A i, j \in DOMAIN l : l[i] = l[j] => i = j}

\* A chain holds the version it was submitted for; the steps are numbered
\* from 1 here and from 0 in the code.
NewChain(version, approvers) ==
  [version   |-> version,
   status    |-> "PENDING",
   turn      |-> 1,
   approvers |-> approvers,
   steps     |-> [i \in DOMAIN approvers |-> "PENDING"]]

\* Mutant: loadActionableStepOrThrow does not ask whose turn it is.
ActionableInAnyOrder(c, k, u) ==
  /\ chains[c].approvers[k] = u
  /\ chains[c].steps[k] = "PENDING"
  /\ chains[c].status = "PENDING"

\* loadActionableStepOrThrow
Actionable(c, k, u) ==
  /\ chains[c].approvers[k] = u
  /\ chains[c].steps[k] = "PENDING"
  /\ chains[c].status = "PENDING"
  /\ chains[c].turn = k

-----------------------------------------------------------------------------
LoadSubmit(s, u) ==
  /\ status \in SUBMITTABLE_STATUSES /\ Len(chains) < MaxChains
  /\ \E l \in ApproverLists(u) :
       Loaded(s, "submit", [version |-> current, approvers |-> l])
  /\ UNCHANGED <<docVars, chains>>

CommitSubmit(s) ==
  /\ Ends(s, "submit")
  /\ Len(chains) < MaxChains
  /\ chains' = Append(chains, NewChain(req[s].arg.version, req[s].arg.approvers))
  /\ status' = "UNDER_REVIEW"
  /\ UNCHANGED <<versions, current>>

LoadDecide(s, u) ==
  /\ \E c \in DOMAIN chains, d \in Decisions :
       \E k \in DOMAIN chains[c].steps :
         /\ Actionable(c, k, u)
         /\ Loaded(s, "decide", [chain |-> c, step |-> k, decision |-> d])
  /\ UNCHANGED <<docVars, chains>>

\* updateStepDecision and updateRequestStatus: the step's decision, then the
\* chain's status and turn.
Decided(chain, k, decision, outcome, turn) ==
  [version   |-> chain.version,
   status    |-> outcome,
   turn      |-> turn,
   approvers |-> chain.approvers,
   steps     |-> [chain.steps EXCEPT ![k] = decision]]

\* Mutant: a decision against the document leaves its status alone.
CommitRejectionKeepsStatus(s) ==
  /\ req[s].op = "decide" /\ req[s].arg.decision # "APPROVED"
  /\ Ends(s, "decide")
  /\ chains' = [chains EXCEPT ![req[s].arg.chain] =
                  Decided(@, req[s].arg.step, req[s].arg.decision,
                          req[s].arg.decision, req[s].arg.step)]
  /\ UNCHANGED docVars

\* decideStep, REJECTED or REVISION_REQUESTED: the chain ends.
CommitRejection(s) ==
  /\ req[s].op = "decide" /\ req[s].arg.decision # "APPROVED"
  /\ Ends(s, "decide")
  /\ chains' = [chains EXCEPT ![req[s].arg.chain] =
                  Decided(@, req[s].arg.step, req[s].arg.decision,
                          req[s].arg.decision, req[s].arg.step)]
  /\ status' = "DRAFT"
  /\ UNCHANGED <<versions, current>>

\* decideStep, APPROVED: the step read earlier was the chain's turn, so the
\* turn that is written is computed from it.
CommitApproval(s) ==
  /\ req[s].op = "decide" /\ req[s].arg.decision = "APPROVED"
  /\ Ends(s, "decide")
  /\ LET c == req[s].arg.chain
         k == req[s].arg.step
         last == k = Len(chains[c].steps)
     IN /\ chains' = [chains EXCEPT ![c] =
                        Decided(@, k, "APPROVED",
                                IF last THEN "APPROVED" ELSE "PENDING",
                                IF last THEN k ELSE k + 1)]
        /\ status' = IF last THEN "APPROVED" ELSE status
  /\ UNCHANGED <<versions, current>>

\* finalizeDocument
Finalizable == status = "SIGNED"

LoadFinalize(s) ==
  /\ Finalizable
  /\ Loaded(s, "finalize", NoArg)
  /\ UNCHANGED <<docVars, chains>>

CommitFinalize(s) ==
  /\ Ends(s, "finalize")
  /\ status' = "FINAL"
  /\ UNCHANGED <<versions, current, chains>>

ApprovalNext ==
  \E s \in Slots :
    \/ CommitSubmit(s)
    \/ CommitRejection(s)
    \/ CommitApproval(s)
    \/ LoadFinalize(s)
    \/ CommitFinalize(s)
    \/ \E u \in Approvers : LoadSubmit(s, u) \/ LoadDecide(s, u)
=============================================================================
