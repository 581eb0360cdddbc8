--------------------------- MODULE EvidenceProofs ---------------------------
(***************************************************************************)
(* Proofs about Evidence for any users, members and artifacts, any number  *)
(* of requests under way at the same time and trails of any length: of the *)
(* life of an item, of requests served one at a time, and of what the page *)
(* (EvidencePage) and the service offer.                                   *)
(***************************************************************************)
EXTENDS EvidencePage, TLAPS, SequenceTheorems

-----------------------------------------------------------------------------
(* The inductive invariant.                                                *)

\* What a trail t shows to have happened.
Sealed(t)   == \E j \in DOMAIN t : t[j].action = "SEAL"
Received(t) == \E j \in DOMAIN t : t[j].action = "RECEIVE" /\ t[j].status = "COMPLETED"
Returned(t) == \E j \in DOMAIN t : t[j].action = "RETURN"
Sent(t, from, to) ==
  \E j \in DOMAIN t : IsRequest(t[j]) /\ t[j].from = from /\ t[j].to = to

\* Event i of trail t has what it needs before it.
EventOk(t, i) ==
  LET e == t[i]
  IN /\ e.action = "REGISTER" <=> i = 1
     /\ e.action \notin {"REGISTER", "SEAL"} =>
          \E j \in DOMAIN t : j < i /\ t[j].action = "SEAL"
     /\ e.action = "RECEIVE" =>
          \E j \in DOMAIN t : /\ j < i /\ IsRequest(t[j])
                              /\ t[j].from = e.from /\ t[j].to = e.to
     /\ (e.action = "ANALYZE" /\ e.status = "PENDING") =>
          \E j \in DOMAIN t : /\ j < i /\ t[j].action = "RECEIVE"
                              /\ t[j].status = "COMPLETED"
     /\ e.action = "ARCHIVE" =>
          \E j \in DOMAIN t : j < i /\ t[j].action = "RETURN"
     /\ IsRequest(e) => e.from \in Users

RowInv ==
  /\ status \in Statuses \cup {"NONE"}
  /\ custodian \in IF status = "NONE" THEN {Nobody} ELSE Users
  /\ integrity \in [Artifacts -> {"NONE", "UNKNOWN", "VERIFIED", "MODIFIED"}]
  /\ stored \in [Artifacts -> {"intact", "replaced", "unreadable"}]
  /\ trail \in Seq(CustodyEvents)
  /\ alerted \subseteq Artifacts

TrailInv == \A i \in DOMAIN trail : EventOk(trail, i)

\* How the trail explains a status, st, of the item.
Explains(t, st) ==
  /\ st \notin {"NONE", "REGISTERED"} => Sealed(t)
  /\ st = "RECEIVED" => Received(t)
  /\ st = "RETURNED" => Returned(t)

StatusInv ==
  /\ status = "NONE" <=> trail = << >>
  /\ status = "NONE" => Present = {}
  /\ Explains(trail, status)

RequestRow ==
  [op : Operations, actor : Users, other : Users \cup {Nobody},
   seen : Statuses \cup {"NONE"}, checked : SUBSET Artifacts,
   failed : SUBSET Artifacts]

\* What a request has read is still in the trail when it commits.
ReqOk(t, r) ==
  r = Idle \/
  /\ r \in RequestRow
  /\ r.op # "register" => t # << >>
  /\ r.op \in {"request", "startAnalysis", "completeAnalysis", "return", "archive"}
       => Sealed(t)
  /\ r.seen = "SEALED" => Sealed(t)
  /\ r.op = "request" => r.other \in Users
  /\ r.op \in {"accept", "reject"} => r.other \in Users /\ Sent(t, r.other, r.actor)
  /\ r.op = "startAnalysis" => Received(t)
  /\ r.op = "archive" => Returned(t)

ReqInv == /\ req = [s \in Slots |-> req[s]]
          /\ \A s \in Slots : ReqOk(trail, req[s])

IInv == /\ RowInv
        /\ TrailInv
        /\ StatusInv
        /\ TrailNamesCustodian
        /\ ModifiedIsReported
        /\ ReqInv

-----------------------------------------------------------------------------
(* What a longer trail keeps.                                              *)

LEMMA Appended ==
  ASSUME trail \in Seq(CustodyEvents), NEW e \in CustodyEvents,
         NEW t, t = Append(trail, e)
  PROVE  /\ Len(trail) \in Nat /\ DOMAIN trail = 1..Len(trail)
         /\ t \in Seq(CustodyEvents) /\ t # << >>
         /\ DOMAIN t = 1..(Len(trail) + 1)
         /\ \A i \in DOMAIN trail : i \in DOMAIN t /\ t[i] = trail[i]
         /\ t[Len(trail) + 1] = e
BY LenProperties, AppendProperties

LEMMA ExplainsStays ==
  ASSUME NEW t, \A i \in DOMAIN trail : i \in DOMAIN t /\ t[i] = trail[i],
         NEW st, Explains(trail, st)
  PROVE  Explains(t, st)
BY DEF Explains, Sealed, Received, Returned

LEMMA ReqStays ==
  ASSUME NEW t, \A i \in DOMAIN trail : i \in DOMAIN t /\ t[i] = trail[i],
         t # << >>, NEW r, ReqOk(trail, r)
  PROVE  ReqOk(t, r)
<1>1. Sealed(trail) => Sealed(t)
  BY DEF Sealed
<1>2. Received(trail) => Received(t)
  BY DEF Received
<1>3. Returned(trail) => Returned(t)
  BY DEF Returned
<1>4. Sent(trail, r.other, r.actor) => Sent(t, r.other, r.actor)
  BY DEF Sent
<1>5. QED
  BY <1>1, <1>2, <1>3, <1>4 DEF ReqOk

LEMMA EventStays ==
  ASSUME NEW t, \A i \in DOMAIN trail : i \in DOMAIN t /\ t[i] = trail[i],
         NEW i \in DOMAIN trail, EventOk(trail, i)
  PROVE  EventOk(t, i)
<1> DEFINE e == trail[i]
<1>1. t[i] = e
  OBVIOUS
<1>2. (\E j \in DOMAIN trail : j < i /\ trail[j].action = "SEAL")
        => \E j \in DOMAIN t : j < i /\ t[j].action = "SEAL"
  OBVIOUS
<1>3. (\E j \in DOMAIN trail : /\ j < i /\ IsRequest(trail[j])
                               /\ trail[j].from = e.from /\ trail[j].to = e.to)
        => \E j \in DOMAIN t : /\ j < i /\ IsRequest(t[j])
                               /\ t[j].from = e.from /\ t[j].to = e.to
  OBVIOUS
<1>4. (\E j \in DOMAIN trail : /\ j < i /\ trail[j].action = "RECEIVE"
                               /\ trail[j].status = "COMPLETED")
        => \E j \in DOMAIN t : /\ j < i /\ t[j].action = "RECEIVE"
                               /\ t[j].status = "COMPLETED"
  OBVIOUS
<1>5. (\E j \in DOMAIN trail : j < i /\ trail[j].action = "RETURN")
        => \E j \in DOMAIN t : j < i /\ t[j].action = "RETURN"
  OBVIOUS
<1>6. QED
  BY <1>1, <1>2, <1>3, <1>4, <1>5 DEF EventOk

(* A trail that is not empty starts with the registration.                 *)
LEMMA LaterEvent ==
  ASSUME trail \in Seq(CustodyEvents), trail # << >>
  PROVE  Len(trail) + 1 # 1 /\ \A j \in DOMAIN trail : j < Len(trail) + 1
BY LenProperties, EmptySeq

-----------------------------------------------------------------------------
(* A request that has read.                                                *)

LEMMA ReadStep ==
  ASSUME IInv, NEW s \in Slots, NEW r, ReqOk(trail, r),
         req' = [req EXCEPT ![s] = r],
         UNCHANGED <<status, custodian, integrity, stored, trail, alerted>>
  PROVE  IInv'
<1>1. RowInv' /\ TrailInv' /\ ModifiedIsReported'
  BY DEF IInv, RowInv, TrailInv, ModifiedIsReported
<1>2. StatusInv'
  BY DEF IInv, StatusInv, Present
<1>3. TrailNamesCustodian'
  BY DEF IInv, TrailNamesCustodian
<1>4. ReqInv'
  BY DEF IInv, ReqInv
<1>5. QED
  BY <1>1, <1>2, <1>3, <1>4 DEF IInv

(* Its row: what the checks of the handler add is left to the caller.      *)
LEMMA LoadedStep ==
  ASSUME IInv, NEW s \in Slots, NEW op \in Operations, NEW u \in Users,
         NEW other \in Users \cup {Nobody}, NEW checked \in SUBSET Artifacts,
         Loaded(s, op, u, other, checked),
         op # "register" => trail # << >>,
         op \in {"request", "startAnalysis", "completeAnalysis", "return", "archive"}
           => Sealed(trail),
         op = "request" => other \in Users,
         op \in {"accept", "reject"} => other \in Users /\ Sent(trail, other, u),
         op = "startAnalysis" => Received(trail),
         op = "archive" => Returned(trail)
  PROVE  IInv'
<1> DEFINE r == [op |-> op, actor |-> u, other |-> other, seen |-> status,
                 checked |-> checked,
                 failed |-> {a \in checked : stored[a] = "replaced"}]
<1>1. r \in RequestRow
  BY DEF RequestRow, IInv, RowInv
<1>2. status = "SEALED" => Sealed(trail)
  BY DEF IInv, StatusInv, Explains
<1>3. ReqOk(trail, r)
  BY <1>1, <1>2 DEF ReqOk
<1>4. req' = [req EXCEPT ![s] = r]
  BY DEF Loaded
<1>5. UNCHANGED <<status, custodian, integrity, stored, trail, alerted>>
  BY DEF Loaded
<1> HIDE DEF r
<1>6. QED
  BY <1>3, <1>4, <1>5, ReadStep

LEMMA LoadStep ==
  ASSUME IInv, NEW s \in Slots, NEW u \in Users, Load(s, u)
  PROVE  IInv'
<1> USE DEF Operations
<1>0. /\ status # "NONE" => trail # << >>
      /\ custodian = u => status # "NONE"
      /\ Present # {} => status # "NONE"
      /\ Present \in SUBSET Artifacts
  BY NobodyAssumption DEF IInv, StatusInv, RowInv, Present
<1>1. Explains(trail, status)
  BY DEF IInv, StatusInv
<1>2. CASE LoadRegister(s, u)
  BY <1>2, LoadedStep DEF LoadRegister
<1>3. CASE LoadAddArtifact(s, u)
  BY <1>0, <1>3, LoadedStep DEF LoadAddArtifact
<1>4. CASE LoadSeal(s, u)
  BY <1>0, <1>4, LoadedStep DEF LoadSeal, CustodianMay
<1>5. CASE LoadVerify(s, u)
  BY <1>0, <1>5, LoadedStep DEF LoadVerify
<1>6. CASE LoadDownload(s, u)
  <2>1. PICK a \in Present : Loaded(s, "download", u, Nobody, {a})
    BY <1>6 DEF LoadDownload
  <2>2. {a} \in SUBSET Artifacts
    BY <1>0, <2>1
  <2>3. QED
    BY <1>0, <2>1, <2>2, LoadedStep
<1>7. CASE LoadRequestTransfer(s, u)
  <2>1. PICK to \in Members \ {u} : Loaded(s, "request", u, to, {})
    BY <1>7 DEF LoadRequestTransfer
  <2>2. status = "IN_CUSTODY"
    BY <1>7 DEF LoadRequestTransfer, CustodianMay, LegalTransition,
                ALLOWED_TRANSITIONS, Statuses
  <2>3. to \in Users
    BY <2>1, MembersAssumption
  <2>4. Sealed(trail)
    BY <1>1, <2>2 DEF Explains
  <2>5. QED
    BY <1>0, <2>1, <2>2, <2>3, <2>4, LoadedStep
<1>8. CASE LoadAccept(s, u) \/ LoadReject(s, u)
  <2>1. PICK t \in DOMAIN trail :
          /\ IsRequest(trail[t]) /\ trail[t].to = u
          /\ \/ Loaded(s, "accept", u, trail[t].from, Present)
             \/ Loaded(s, "reject", u, trail[t].from, {})
    BY <1>8 DEF LoadAccept, LoadReject, PendingTransfer
  <2>2. trail[t].from \in Users
    BY <2>1 DEF IInv, TrailInv, EventOk
  <2>3. Sent(trail, trail[t].from, u)
    BY <2>1 DEF Sent
  <2>4. trail # << >>
    BY <2>1
  <2>5. QED
    BY <1>0, <2>1, <2>2, <2>3, <2>4, LoadedStep
<1>9. CASE LoadStartAnalysis(s, u)
  <2>1. status = "RECEIVED"
    BY <1>9 DEF LoadStartAnalysis, CustodianMay, LegalTransition,
                ALLOWED_TRANSITIONS, Statuses
  <2>2. Sealed(trail) /\ Received(trail)
    BY <1>1, <2>1 DEF Explains
  <2>3. QED
    BY <1>0, <1>9, <2>1, <2>2, LoadedStep DEF LoadStartAnalysis
<1>10. CASE LoadCompleteAnalysis(s, u)
  <2>1. status \in {"SEALED", "VERIFIED", "IN_TRANSIT", "UNDER_ANALYSIS"}
    BY <1>10 DEF LoadCompleteAnalysis, CustodianMay, LegalTransition,
                 ALLOWED_TRANSITIONS, Statuses
  <2>2. Sealed(trail)
    BY <1>1, <2>1 DEF Explains
  <2>3. QED
    BY <1>0, <1>10, <2>1, <2>2, LoadedStep DEF LoadCompleteAnalysis
<1>11. CASE LoadReturn(s, u)
  <2>1. status = "IN_CUSTODY"
    BY <1>11 DEF LoadReturn, CustodianMay, LegalTransition, ALLOWED_TRANSITIONS,
                 Statuses
  <2>2. Sealed(trail)
    BY <1>1, <2>1 DEF Explains
  <2>3. QED
    BY <1>0, <1>11, <2>1, <2>2, LoadedStep DEF LoadReturn
<1>12. CASE LoadArchive(s, u)
  <2>1. status = "RETURNED"
    BY <1>12 DEF LoadArchive, LegalTransition, ALLOWED_TRANSITIONS, Statuses
  <2>2. Sealed(trail) /\ Returned(trail)
    BY <1>1, <2>1 DEF Explains
  <2>3. QED
    BY <1>0, <1>12, <2>1, <2>2, LoadedStep DEF LoadArchive
<1>13. QED
  BY <1>2, <1>3, <1>4, <1>5, <1>6, <1>7, <1>8, <1>9, <1>10, <1>11, <1>12 DEF Load

-----------------------------------------------------------------------------
(* A transaction that adds nothing to the trail.                           *)

LEMMA QuietStep ==
  ASSUME IInv, NEW s \in Slots, req' = [req EXCEPT ![s] = Idle],
         UNCHANGED <<custodian, stored, trail>>,
         status # "NONE",
         status' = status \/ (status' = "IN_CUSTODY" /\ Sealed(trail)),
         integrity' \in [Artifacts -> {"NONE", "UNKNOWN", "VERIFIED", "MODIFIED"}],
         alerted' \subseteq Artifacts, ModifiedIsReported'
  PROVE  IInv'
<1>1. RowInv'
  BY DEF IInv, RowInv, Statuses
<1>2. TrailInv' /\ TrailNamesCustodian'
  BY DEF IInv, TrailInv, TrailNamesCustodian
<1>3. StatusInv'
  BY DEF IInv, StatusInv, Explains
<1>4. ReqInv'
  <2>1. ReqOk(trail, Idle)
    BY DEF ReqOk
  <2>2. QED
    BY <2>1 DEF IInv, ReqInv
<1>5. QED
  BY <1>1, <1>2, <1>3, <1>4 DEF IInv

(* A transaction that appends event e.                                     *)
LEMMA AppendStep ==
  ASSUME IInv, NEW s \in Slots, req' = [req EXCEPT ![s] = Idle],
         NEW e \in CustodyEvents, trail' = Append(trail, e),
         EventOk(trail', Len(trail) + 1),
         status' \in Statuses, Explains(trail', status'),
         custodian' \in Users,
         Hands(e) => custodian' = HolderAfter(e),
         ~Hands(e) => custodian' = custodian,
         integrity' \in [Artifacts -> {"NONE", "UNKNOWN", "VERIFIED", "MODIFIED"}],
         stored' = stored, alerted' \subseteq Artifacts, ModifiedIsReported'
  PROVE  IInv'
<1>1. /\ Len(trail) \in Nat /\ DOMAIN trail = 1..Len(trail)
      /\ trail' \in Seq(CustodyEvents) /\ trail' # << >>
      /\ DOMAIN trail' = 1..(Len(trail) + 1)
      /\ \A i \in DOMAIN trail : i \in DOMAIN trail' /\ trail'[i] = trail[i]
      /\ trail'[Len(trail) + 1] = e
  BY Appended DEF IInv, RowInv
<1>2. status' # "NONE"
  BY DEF Statuses
<1>3. RowInv'
  BY <1>1, <1>2 DEF IInv, RowInv
<1>4. TrailInv'
  <2>1. ASSUME NEW i \in DOMAIN trail PROVE EventOk(trail', i)
    <3>1. EventOk(trail, i)
      BY DEF IInv, TrailInv
    <3>2. QED
      BY <1>1, <3>1, EventStays
  <2>2. \A i \in DOMAIN trail' : i \in DOMAIN trail \/ i = Len(trail) + 1
    BY <1>1
  <2>3. QED
    BY <2>1, <2>2 DEF TrailInv
<1>5. StatusInv'
  BY <1>1, <1>2 DEF StatusInv
<1>6. TrailNamesCustodian'
  <2> SUFFICES ASSUME NEW i \in DOMAIN trail', Hands(trail'[i]),
                      \A j \in DOMAIN trail' : j > i => ~Hands(trail'[j])
               PROVE  custodian' = HolderAfter(trail'[i])
    BY DEF TrailNamesCustodian
  <2>1. CASE i = Len(trail) + 1
    BY <1>1, <2>1
  <2>2. CASE i \in DOMAIN trail
    <3>1. ~Hands(e)
      BY <1>1, <2>2
    <3>2. \A j \in DOMAIN trail : j > i => ~Hands(trail[j])
      BY <1>1
    <3>3. Hands(trail[i]) /\ trail'[i] = trail[i]
      BY <1>1, <2>2
    <3>4. custodian = HolderAfter(trail[i])
      BY <2>2, <3>2, <3>3 DEF IInv, TrailNamesCustodian
    <3>5. QED
      BY <3>1, <3>3, <3>4
  <2>3. QED
    BY <1>1, <2>1, <2>2
<1>7. ReqInv'
  <2>1. ReqOk(trail', Idle)
    BY DEF ReqOk
  <2>2. ASSUME NEW r, ReqOk(trail, r) PROVE ReqOk(trail', r)
    BY <1>1, <2>2, ReqStays
  <2>3. QED
    BY <2>1, <2>2 DEF IInv, ReqInv
<1>8. QED
  BY <1>3, <1>4, <1>5, <1>6, <1>7 DEF IInv

(* What the transaction of a request that read may rely on.                *)
LEMMA Serving ==
  ASSUME IInv, NEW s \in Slots, req[s].op \in Operations
  PROVE  LET r == req[s]
         IN /\ r \in RequestRow /\ ReqOk(trail, r)
            /\ r.op # "register" => trail # << >> /\ status # "NONE"
            /\ r.op # "register" => custodian \in Users /\ status \in Statuses
<1>1. req[s] # Idle
  BY DEF Idle, Operations
<1>2. ReqOk(trail, req[s])
  BY DEF IInv, ReqInv
<1>3. QED
  BY <1>1, <1>2 DEF ReqOk, IInv, StatusInv, RowInv

LEMMA Marked ==
  ASSUME IInv, NEW r \in RequestRow, MarkChecked(r),
         alerted' = alerted \cup r.failed
  PROVE  /\ integrity' \in [Artifacts -> {"NONE", "UNKNOWN", "VERIFIED", "MODIFIED"}]
         /\ alerted' \subseteq Artifacts
         /\ ModifiedIsReported'
BY DEF MarkChecked, RequestRow, IInv, RowInv, ModifiedIsReported

(* A custodian's own step, or one that needs no custody.                   *)
LEMMA MoveStep ==
  ASSUME IInv, NEW s \in Slots, NEW op \in Operations \ {"register"},
         NEW target \in Statuses,
         NEW action \in {"SEAL", "ANALYZE", "RETURN", "ARCHIVE"},
         NEW state \in {"PENDING", "COMPLETED"},
         Move(s, op, target, action, state),
         action # "SEAL" => Sealed(trail),
         (action = "ANALYZE" /\ state = "PENDING") => Received(trail),
         action = "ARCHIVE" => Returned(trail),
         target # "REGISTERED", target # "RECEIVED",
         target = "RETURNED" => action = "RETURN"
  PROVE  IInv'
<1> DEFINE e == CustodyEvent(action, state, req[s].actor, req[s].actor)
<1>1. /\ req[s].op = op /\ req' = [req EXCEPT ![s] = Idle] /\ status' = target
      /\ trail' = Append(trail, e)
      /\ UNCHANGED <<custodian, integrity, stored, alerted>>
  BY DEF Move, Ends, AppendCustody
<1>2. /\ req[s].actor \in Users /\ trail # << >> /\ custodian \in Users
  BY <1>1, Serving DEF RequestRow
<1>3. /\ e \in CustodyEvents /\ e.action = action /\ e.status = state
  BY <1>2 DEF CustodyEvents, CustodyEvent
<1> HIDE DEF e
<1>4. /\ Len(trail) \in Nat /\ DOMAIN trail = 1..Len(trail)
      /\ DOMAIN trail' = 1..(Len(trail) + 1)
      /\ \A i \in DOMAIN trail : i \in DOMAIN trail' /\ trail'[i] = trail[i]
      /\ trail'[Len(trail) + 1] = e
  BY <1>1, <1>3, Appended DEF IInv, RowInv
<1>5. Len(trail) + 1 # 1 /\ \A j \in DOMAIN trail : j < Len(trail) + 1
  BY <1>2, LaterEvent DEF IInv, RowInv
<1>6. EventOk(trail', Len(trail) + 1)
  <2>1. /\ e.action \notin {"REGISTER", "SEAL"} =>
             \E j \in DOMAIN trail' : j < Len(trail) + 1 /\ trail'[j].action = "SEAL"
    BY <1>3, <1>4, <1>5 DEF Sealed
  <2>2. (e.action = "ANALYZE" /\ e.status = "PENDING") =>
          \E j \in DOMAIN trail' : /\ j < Len(trail) + 1
                                   /\ trail'[j].action = "RECEIVE"
                                   /\ trail'[j].status = "COMPLETED"
    BY <1>3, <1>4, <1>5 DEF Received
  <2>3. e.action = "ARCHIVE" =>
          \E j \in DOMAIN trail' : j < Len(trail) + 1 /\ trail'[j].action = "RETURN"
    BY <1>3, <1>4, <1>5 DEF Returned
  <2>4. QED
    BY <1>3, <1>4, <1>5, <2>1, <2>2, <2>3 DEF EventOk, IsRequest
<1>7. Explains(trail', target)
  <2>1. Sealed(trail')
    <3>1. CASE action = "SEAL"
      <4>1. Len(trail) + 1 \in DOMAIN trail'
        BY <1>4
      <4>2. QED
        BY <1>3, <1>4, <3>1, <4>1 DEF Sealed
    <3>2. CASE action # "SEAL"
      BY <1>4, <3>2 DEF Sealed
    <3>3. QED
      BY <3>1, <3>2
  <2>2. target = "RETURNED" => Returned(trail')
    <3>1. Len(trail) + 1 \in DOMAIN trail'
      BY <1>4
    <3>2. QED
      BY <1>3, <1>4, <3>1 DEF Returned
  <2>3. QED
    BY <2>1, <2>2 DEF Explains
<1>8. ~Hands(e)
  BY <1>3 DEF Hands
<1>9. /\ integrity' \in [Artifacts -> {"NONE", "UNKNOWN", "VERIFIED", "MODIFIED"}]
      /\ alerted' \subseteq Artifacts /\ ModifiedIsReported'
  BY <1>1 DEF IInv, RowInv, ModifiedIsReported
<1>10. QED
  BY <1>1, <1>2, <1>3, <1>6, <1>7, <1>8, <1>9, AppendStep

LEMMA RegisterStep ==
  ASSUME IInv, NEW s \in Slots, CommitRegister(s)
  PROVE  IInv'
<1> DEFINE e == CustodyEvent("REGISTER", "COMPLETED", Nobody, req[s].actor)
<1>1. /\ status = "NONE" /\ req[s].op = "register"
      /\ req' = [req EXCEPT ![s] = Idle] /\ status' = "REGISTERED"
      /\ custodian' = req[s].actor /\ trail' = Append(trail, e)
      /\ UNCHANGED <<stored, alerted>>
  BY DEF CommitRegister, Ends, AppendCustody
<1>2. req[s].actor \in Users
  BY <1>1, Serving DEF RequestRow, Operations
<1>3. /\ e \in CustodyEvents /\ e.action = "REGISTER" /\ e.status = "COMPLETED"
      /\ e.to = req[s].actor
  BY <1>2 DEF CustodyEvents, CustodyEvent
<1> HIDE DEF e
<1>4. trail = << >> /\ Len(trail) + 1 = 1
  BY <1>1 DEF IInv, StatusInv
<1>5. trail'[1] = e
  BY <1>1, <1>3, <1>4, Appended DEF IInv, RowInv
<1>6. EventOk(trail', Len(trail) + 1)
  BY <1>3, <1>4, <1>5 DEF EventOk, IsRequest
<1>7. custodian' = HolderAfter(e) /\ Hands(e)
  BY <1>1, <1>3 DEF HolderAfter, Hands
<1>8. status' \in Statuses /\ Explains(trail', status')
  BY <1>1 DEF Statuses, Explains
<1>9. PICK a \in Artifacts : integrity' = [integrity EXCEPT ![a] = "UNKNOWN"]
  BY DEF CommitRegister
<1>10. /\ integrity' \in [Artifacts -> {"NONE", "UNKNOWN", "VERIFIED", "MODIFIED"}]
       /\ alerted' \subseteq Artifacts /\ ModifiedIsReported'
  BY <1>1, <1>9 DEF IInv, RowInv, ModifiedIsReported
<1>11. QED
  BY <1>1, <1>2, <1>3, <1>6, <1>7, <1>8, <1>10, AppendStep

LEMMA RequestStep ==
  ASSUME IInv, NEW s \in Slots, CommitRequestTransfer(s)
  PROVE  IInv'
<1> DEFINE e == CustodyEvent("TRANSFER_REQUEST", "PENDING", req[s].actor, req[s].other)
<1>1. /\ req[s].op = "request" /\ req' = [req EXCEPT ![s] = Idle]
      /\ status' = "IN_TRANSIT" /\ trail' = Append(trail, e)
      /\ UNCHANGED <<custodian, integrity, stored, alerted>>
  BY DEF CommitRequestTransfer, Ends, AppendCustody
<1>2. /\ req[s].actor \in Users /\ req[s].other \in Users
      /\ trail # << >> /\ custodian \in Users /\ Sealed(trail)
  <2>1. req[s].op \in Operations
    BY <1>1 DEF Operations
  <2>2. /\ req[s] \in RequestRow /\ ReqOk(trail, req[s])
        /\ trail # << >> /\ custodian \in Users
    BY <1>1, <2>1, Serving
  <2>3. QED
    BY <1>1, <2>2 DEF ReqOk, RequestRow, Idle
<1>3. /\ e \in CustodyEvents /\ e.action = "TRANSFER_REQUEST"
      /\ e.status = "PENDING" /\ e.from \in Users
  BY <1>2 DEF CustodyEvents, CustodyEvent
<1> HIDE DEF e
<1>4. /\ Len(trail) \in Nat /\ DOMAIN trail = 1..Len(trail)
      /\ \A i \in DOMAIN trail : i \in DOMAIN trail' /\ trail'[i] = trail[i]
      /\ trail'[Len(trail) + 1] = e
  BY <1>1, <1>3, Appended DEF IInv, RowInv
<1>5. Len(trail) + 1 # 1 /\ \A j \in DOMAIN trail : j < Len(trail) + 1
  BY <1>2, LaterEvent DEF IInv, RowInv
<1>6. EventOk(trail', Len(trail) + 1)
  <2>1. \E j \in DOMAIN trail' : j < Len(trail) + 1 /\ trail'[j].action = "SEAL"
    BY <1>2, <1>4, <1>5 DEF Sealed
  <2>2. QED
    BY <1>3, <1>4, <1>5, <2>1 DEF EventOk
<1>7. status' \in Statuses /\ Explains(trail', status')
  BY <1>1, <1>2, <1>4 DEF Statuses, Explains, Sealed
<1>8. ~Hands(e)
  BY <1>3 DEF Hands
<1>9. /\ integrity' \in [Artifacts -> {"NONE", "UNKNOWN", "VERIFIED", "MODIFIED"}]
      /\ alerted' \subseteq Artifacts /\ ModifiedIsReported'
  BY <1>1 DEF IInv, RowInv, ModifiedIsReported
<1>10. QED
  BY <1>1, <1>2, <1>3, <1>6, <1>7, <1>8, <1>9, AppendStep

(* An answer to a transfer that was sent.                                  *)
LEMMA AnswerStep ==
  ASSUME IInv, NEW s \in Slots, req[s].op \in {"accept", "reject"},
         req' = [req EXCEPT ![s] = Idle],
         NEW state \in {"COMPLETED", "REJECTED", "BLOCKED"},
         trail' = Append(trail, CustodyEvent("RECEIVE", state, req[s].other,
                                             req[s].actor)),
         state = "COMPLETED" => status' = "RECEIVED" /\ custodian' = req[s].actor,
         state = "REJECTED" => status' = "IN_CUSTODY" /\ custodian' = req[s].other,
         state = "BLOCKED" => status' = status /\ custodian' = custodian,
         integrity' \in [Artifacts -> {"NONE", "UNKNOWN", "VERIFIED", "MODIFIED"}],
         stored' = stored, alerted' \subseteq Artifacts, ModifiedIsReported'
  PROVE  IInv'
<1> DEFINE e == CustodyEvent("RECEIVE", state, req[s].other, req[s].actor)
<1>1. trail' = Append(trail, e)
  OBVIOUS
<1>2. /\ req[s].actor \in Users /\ req[s].other \in Users
      /\ trail # << >> /\ custodian \in Users /\ status \in Statuses
      /\ Sent(trail, req[s].other, req[s].actor)
  <2>1. req[s].op \in Operations
    BY DEF Operations
  <2>2. /\ req[s] \in RequestRow /\ ReqOk(trail, req[s])
        /\ trail # << >> /\ custodian \in Users /\ status \in Statuses
    BY <2>1, Serving
  <2>3. QED
    BY <2>2 DEF ReqOk, RequestRow, Idle
<1>3. /\ e \in CustodyEvents /\ e.action = "RECEIVE" /\ e.status = state
      /\ e.from = req[s].other /\ e.to = req[s].actor
  BY <1>2 DEF CustodyEvents, CustodyEvent
<1> HIDE DEF e
<1>4. /\ Len(trail) \in Nat /\ DOMAIN trail = 1..Len(trail)
      /\ DOMAIN trail' = 1..(Len(trail) + 1)
      /\ \A i \in DOMAIN trail : i \in DOMAIN trail' /\ trail'[i] = trail[i]
      /\ trail'[Len(trail) + 1] = e
  BY <1>1, <1>3, Appended DEF IInv, RowInv
<1>5. Len(trail) + 1 # 1 /\ \A j \in DOMAIN trail : j < Len(trail) + 1
  BY <1>2, LaterEvent DEF IInv, RowInv
<1>6. PICK t \in DOMAIN trail :
        IsRequest(trail[t]) /\ trail[t].from = e.from /\ trail[t].to = e.to
  BY <1>2, <1>3 DEF Sent
<1>7. PICK j \in DOMAIN trail : trail[j].action = "SEAL"
  <2>1. EventOk(trail, t)
    BY DEF IInv, TrailInv
  <2>2. QED
    BY <1>6, <2>1 DEF EventOk, IsRequest
<1>8. EventOk(trail', Len(trail) + 1)
  <2>1. \E i \in DOMAIN trail' : i < Len(trail) + 1 /\ trail'[i].action = "SEAL"
    BY <1>4, <1>5, <1>7
  <2>2. \E i \in DOMAIN trail' : /\ i < Len(trail) + 1 /\ IsRequest(trail'[i])
                                 /\ trail'[i].from = e.from /\ trail'[i].to = e.to
    BY <1>4, <1>5, <1>6
  <2>3. QED
    BY <1>3, <1>4, <1>5, <2>1, <2>2 DEF EventOk, IsRequest
<1>9. Sealed(trail')
  BY <1>4, <1>7 DEF Sealed
<1>10. status' \in Statuses /\ Explains(trail', status')
  <2>1. CASE state = "COMPLETED"
    <3>1. Received(trail')
      <4>1. Len(trail) + 1 \in DOMAIN trail'
        BY <1>4
      <4>2. QED
        BY <1>3, <1>4, <2>1, <4>1 DEF Received
    <3>2. QED
      BY <1>9, <2>1, <3>1 DEF Statuses, Explains
  <2>2. CASE state = "REJECTED"
    BY <1>9, <2>2 DEF Statuses, Explains
  <2>3. CASE state = "BLOCKED"
    <3>1. Explains(trail, status)
      BY DEF IInv, StatusInv
    <3>2. Explains(trail', status)
      BY <1>4, <3>1, ExplainsStays
    <3>3. QED
      BY <1>2, <2>3, <3>2
  <2>4. QED
    BY <2>1, <2>2, <2>3
<1>11. /\ Hands(e) => custodian' = HolderAfter(e)
       /\ ~Hands(e) => custodian' = custodian
       /\ custodian' \in Users
  BY <1>2, <1>3 DEF Hands, HolderAfter
<1>12. QED
  BY <1>1, <1>3, <1>8, <1>10, <1>11, AppendStep

LEMMA CommitStep ==
  ASSUME IInv, NEW s \in Slots, Commit(s)
  PROVE  IInv'
<1> DEFINE r == req[s]
<1>0. ASSUME r.op \in Operations \ {"register"}
      PROVE  /\ r \in RequestRow /\ ReqOk(trail, r) /\ r # Idle
             /\ status # "NONE" /\ trail # << >>
  BY <1>0, Serving DEF Operations, Idle
<1>1. CASE CommitRegister(s)
  BY <1>1, RegisterStep
<1>2. CASE CommitAddArtifact(s)
  <2>1. r.op = "addArtifact" /\ req' = [req EXCEPT ![s] = Idle]
        /\ UNCHANGED <<status, custodian, stored, trail, alerted>>
    BY <1>2 DEF CommitAddArtifact, Ends
  <2>2. status # "NONE"
    BY <1>0, <2>1 DEF Operations
  <2>3. PICK a \in Artifacts : integrity' = [integrity EXCEPT ![a] = "UNKNOWN"]
    BY <1>2 DEF CommitAddArtifact
  <2>4. /\ integrity' \in [Artifacts -> {"NONE", "UNKNOWN", "VERIFIED", "MODIFIED"}]
        /\ alerted' \subseteq Artifacts /\ ModifiedIsReported'
    BY <2>1, <2>3 DEF IInv, RowInv, ModifiedIsReported
  <2>5. UNCHANGED <<custodian, stored, trail>>
    BY <2>1
  <2>6. status' = status \/ (status' = "IN_CUSTODY" /\ Sealed(trail))
    BY <2>1
  <2>7. req' = [req EXCEPT ![s] = Idle]
    BY <2>1
  <2>8. QED
    BY <2>2, <2>4, <2>5, <2>6, <2>7, QuietStep
<1>3. CASE CommitVerify(s)
  <2>1. /\ r.op = "verify" /\ req' = [req EXCEPT ![s] = Idle]
        /\ MarkChecked(r) /\ alerted' = alerted \cup r.failed
        /\ UNCHANGED <<custodian, stored, trail>>
    BY <1>3 DEF CommitVerify, Ends
  <2>2. r \in RequestRow /\ ReqOk(trail, r) /\ r # Idle /\ status # "NONE"
    BY <1>0, <2>1 DEF Operations
  <2>3. status' = status \/ (status' = "IN_CUSTODY" /\ Sealed(trail))
    BY <1>3, <2>2 DEF CommitVerify, ReqOk
  <2>4. /\ integrity' \in [Artifacts -> {"NONE", "UNKNOWN", "VERIFIED", "MODIFIED"}]
        /\ alerted' \subseteq Artifacts /\ ModifiedIsReported'
    BY <2>1, <2>2, Marked
  <2>5. UNCHANGED <<custodian, stored, trail>> /\ req' = [req EXCEPT ![s] = Idle]
    BY <2>1
  <2>6. QED
    BY <2>2, <2>3, <2>4, <2>5, QuietStep
<1>4. CASE CommitDownload(s)
  <2>1. /\ r.op = "download" /\ req' = [req EXCEPT ![s] = Idle]
        /\ MarkChecked(r) /\ alerted' = alerted \cup r.failed
        /\ UNCHANGED <<status, custodian, stored, trail>>
    BY <1>4 DEF CommitDownload, Ends
  <2>2. r \in RequestRow /\ status # "NONE"
    BY <1>0, <2>1 DEF Operations
  <2>3. /\ integrity' \in [Artifacts -> {"NONE", "UNKNOWN", "VERIFIED", "MODIFIED"}]
        /\ alerted' \subseteq Artifacts /\ ModifiedIsReported'
    BY <2>1, <2>2, Marked
  <2>4. UNCHANGED <<custodian, stored, trail>> /\ req' = [req EXCEPT ![s] = Idle]
    BY <2>1
  <2>5. status' = status \/ (status' = "IN_CUSTODY" /\ Sealed(trail))
    BY <2>1
  <2>6. QED
    BY <2>2, <2>3, <2>4, <2>5, QuietStep
<1>5. CASE CommitRequestTransfer(s)
  BY <1>5, RequestStep
<1>6. CASE CommitAccept(s)
  <2>1. /\ r.op = "accept" /\ r.failed = {} /\ req' = [req EXCEPT ![s] = Idle]
        /\ MarkChecked(r) /\ status' = "RECEIVED" /\ custodian' = r.actor
        /\ trail' = Append(trail, CustodyEvent("RECEIVE", "COMPLETED", r.other,
                                              r.actor))
        /\ UNCHANGED <<stored, alerted>>
    BY <1>6 DEF CommitAccept, Ends, AppendCustody
  <2>2. r \in RequestRow
    BY <1>0, <2>1 DEF Operations
  <2>3. alerted' = alerted \cup r.failed
    BY <2>1
  <2>4. QED
    BY <2>1, <2>2, <2>3, Marked, AnswerStep
<1>7. CASE CommitBlockedAccept(s)
  <2>1. /\ r.op = "accept" /\ req' = [req EXCEPT ![s] = Idle]
        /\ MarkChecked(r) /\ alerted' = alerted \cup r.failed
        /\ trail' = Append(trail, CustodyEvent("RECEIVE", "BLOCKED", r.other,
                                              r.actor))
        /\ UNCHANGED <<status, custodian, stored>>
    BY <1>7 DEF CommitBlockedAccept, Ends, AppendCustody
  <2>2. r \in RequestRow
    BY <1>0, <2>1 DEF Operations
  <2>3. QED
    BY <2>1, <2>2, Marked, AnswerStep
<1>8. CASE CommitReject(s)
  <2>1. /\ r.op = "reject" /\ req' = [req EXCEPT ![s] = Idle]
        /\ status' = "IN_CUSTODY" /\ custodian' = r.other
        /\ trail' = Append(trail, CustodyEvent("RECEIVE", "REJECTED", r.other,
                                              r.actor))
        /\ UNCHANGED <<integrity, stored, alerted>>
    BY <1>8 DEF CommitReject, Ends, AppendCustody
  <2>2. /\ integrity' \in [Artifacts -> {"NONE", "UNKNOWN", "VERIFIED", "MODIFIED"}]
        /\ alerted' \subseteq Artifacts /\ ModifiedIsReported'
    BY <2>1 DEF IInv, RowInv, ModifiedIsReported
  <2>3. QED
    BY <2>1, <2>2, AnswerStep
<1>9. CASE CommitSeal(s)
  BY <1>9, MoveStep DEF CommitSeal, Operations, Statuses
<1>10. CASE CommitStartAnalysis(s)
  <2>1. r.op = "startAnalysis"
    BY <1>10 DEF CommitStartAnalysis, Move, Ends
  <2>2. Sealed(trail) /\ Received(trail)
    BY <1>0, <2>1 DEF Operations, ReqOk
  <2>3. QED
    BY <1>10, <2>2, MoveStep DEF CommitStartAnalysis, Operations, Statuses
<1>11. CASE CommitCompleteAnalysis(s)
  <2>1. r.op = "completeAnalysis"
    BY <1>11 DEF CommitCompleteAnalysis, Move, Ends
  <2>2. Sealed(trail)
    BY <1>0, <2>1 DEF Operations, ReqOk
  <2>3. QED
    BY <1>11, <2>2, MoveStep DEF CommitCompleteAnalysis, Operations, Statuses
<1>12. CASE CommitReturn(s)
  <2>1. r.op = "return"
    BY <1>12 DEF CommitReturn, Move, Ends
  <2>2. Sealed(trail)
    BY <1>0, <2>1 DEF Operations, ReqOk
  <2>3. QED
    BY <1>12, <2>2, MoveStep DEF CommitReturn, Operations, Statuses
<1>13. CASE CommitArchive(s)
  <2>1. r.op = "archive"
    BY <1>13 DEF CommitArchive, Move, Ends
  <2>2. Sealed(trail) /\ Returned(trail)
    BY <1>0, <2>1 DEF Operations, ReqOk
  <2>3. QED
    BY <1>13, <2>2, MoveStep DEF CommitArchive, Operations, Statuses
<1>14. QED
  BY <1>1, <1>2, <1>3, <1>4, <1>5, <1>6, <1>7, <1>8, <1>9, <1>10, <1>11, <1>12,
     <1>13 DEF Commit

LEMMA AlterStep ==
  ASSUME IInv, NEW a \in Artifacts, Alter(a)
  PROVE  IInv'
<1>1. RowInv'
  BY DEF IInv, RowInv, Alter
<1>2. TrailInv' /\ TrailNamesCustodian' /\ ModifiedIsReported'
  BY DEF IInv, TrailInv, TrailNamesCustodian, ModifiedIsReported, Alter
<1>3. StatusInv' /\ ReqInv'
  BY DEF IInv, StatusInv, Present, ReqInv, Alter
<1>4. QED
  BY <1>1, <1>2, <1>3 DEF IInv

-----------------------------------------------------------------------------
(* The invariant, and the properties of the run.                           *)

LEMMA InitInv == Init => IInv
<1> SUFFICES ASSUME Init PROVE IInv
  OBVIOUS
<1>1. RowInv /\ StatusInv
  BY DEF Init, RowInv, StatusInv, Explains, Present
<1>2. TrailInv /\ TrailNamesCustodian /\ ModifiedIsReported
  BY DEF Init, TrailInv, TrailNamesCustodian, ModifiedIsReported
<1>3. ReqInv
  BY DEF Init, ReqInv, ReqOk
<1>4. QED
  BY <1>1, <1>2, <1>3 DEF IInv

\* The inductive invariant holds in every reachable state.
THEOREM Invariance == Spec => []IInv
<1>1. IInv /\ [Next]_vars => IInv'
  <2> SUFFICES ASSUME IInv, [Next]_vars PROVE IInv'
    OBVIOUS
  <2>1. ASSUME NEW s \in Slots, Abort(s) PROVE IInv'
    <3>1. ReqOk(trail, Idle)
      BY DEF ReqOk
    <3>2. QED
      BY <2>1, <3>1, ReadStep DEF Abort
  <2>2. CASE UNCHANGED vars
    <3>1. UNCHANGED <<status, custodian, integrity, stored, trail, alerted, req>>
      BY <2>2 DEF vars
    <3>2. RowInv' /\ TrailInv' /\ TrailNamesCustodian' /\ ModifiedIsReported'
      BY <3>1 DEF IInv, RowInv, TrailInv, TrailNamesCustodian, ModifiedIsReported
    <3>3. StatusInv' /\ ReqInv'
      BY <3>1 DEF IInv, StatusInv, Present, ReqInv
    <3>4. QED
      BY <3>2, <3>3 DEF IInv
  <2>3. QED
    BY <2>1, <2>2, LoadStep, CommitStep, AlterStep DEF Next
<1>2. QED
  BY <1>1, InitInv, PTL DEF Spec

\* Every variable keeps its type; a registered item always has a custodian.
THEOREM TypeCorrect == Spec => []TypeOK
<1>1. IInv => TypeOK
  <2> SUFFICES ASSUME IInv PROVE TypeOK
    OBVIOUS
  <2>1. \A s \in Slots : req[s] = Idle \/ req[s] \in RequestRow
    BY DEF IInv, ReqInv, ReqOk
  <2>2. QED
    BY <2>1 DEF IInv, RowInv, TypeOK, RequestRow
<1>2. QED
  BY <1>1, Invariance, PTL

\* The trail alone tells who holds the item, whatever requests overlap.
THEOREM CustodianCorrect == Spec => []TrailNamesCustodian
<1>1. IInv => TrailNamesCustodian
  BY DEF IInv
<1>2. QED
  BY <1>1, Invariance, PTL

\* The order of an item's life survives every race: each event of its trail
\* has what it needs before it.
THEOREM OrderCorrect == Spec => []TrailInOrder
<1>1. IInv => TrailInOrder
  BY DEF IInv, TrailInv, EventOk, TrailInOrder, Earlier
<1>2. QED
  BY <1>1, Invariance, PTL

\* An artifact is marked MODIFIED only with an alert, whichever check found it.
THEOREM ReportCorrect == Spec => []ModifiedIsReported
<1>1. IInv => ModifiedIsReported
  BY DEF IInv
<1>2. QED
  BY <1>1, Invariance, PTL
-----------------------------------------------------------------------------
(* One request at a time.  What a handler has read is then still so when   *)
(* its transaction commits: only stored bytes can have been altered.       *)

Serial == \A s, t \in Slots : s = t

\* The status that assertLegalTransition compares with, by operation; verify,
\* accept and reject move the item without asking it.
Target == [seal             |-> "SEALED",
           request          |-> "IN_TRANSIT",
           startAnalysis    |-> "UNDER_ANALYSIS",
           completeAnalysis |-> "IN_CUSTODY",
           return           |-> "RETURNED",
           archive          |-> "ARCHIVED"]

\* What the checks of request r still say of the item.
StillTrue(r) ==
  r = Idle \/
  /\ r.seen = status
  /\ r.op = "request" => custodian = r.actor
  /\ r.op \in {"accept", "reject"} =>
       \E t \in DOMAIN trail : /\ PendingTransfer(t)
                               /\ trail[t].from = r.other /\ trail[t].to = r.actor
  /\ r.op \in DOMAIN Target => LegalTransition(status, Target[r.op])

SerialInv == /\ PartiesHoldItem
             /\ TrailTellsStatus
             /\ \A s \in Slots : StillTrue(req[s])

(* Nothing but the requests changes: whatever the checks said stays true.  *)
LEMMA StillTrueStays ==
  ASSUME UNCHANGED <<status, custodian, trail>>, NEW r
  PROVE  StillTrue(r)' <=> StillTrue(r)
BY DEF StillTrue, PendingTransfer

LEMMA ItemStays ==
  ASSUME SerialInv, UNCHANGED <<status, custodian, trail>>
  PROVE  PartiesHoldItem' /\ TrailTellsStatus'
BY DEF SerialInv, PartiesHoldItem, TrailTellsStatus, PendingTransfer

(* The newest event decides the status, a blocked receipt leaves it.       *)
LEMMA TellsAppend ==
  ASSUME RowInv, TrailTellsStatus, NEW e \in CustodyEvents,
         trail' = Append(trail, e),
         e.status # "BLOCKED" => status' \in StatusAfter(e),
         e.status = "BLOCKED" => status' = status
  PROVE  TrailTellsStatus'
<1>1. PICK t : t = trail'
  OBVIOUS
<1>2. /\ Len(trail) \in Nat /\ DOMAIN trail = 1..Len(trail)
      /\ DOMAIN t = 1..(Len(trail) + 1)
      /\ \A i \in DOMAIN trail : i \in DOMAIN t /\ t[i] = trail[i]
      /\ t[Len(trail) + 1] = e
  BY <1>1, Appended DEF RowInv
<1>3. SUFFICES ASSUME NEW i \in DOMAIN t, t[i].status # "BLOCKED",
                      \A j \in DOMAIN t : j > i => t[j].status = "BLOCKED"
               PROVE  status' \in StatusAfter(t[i])
  BY <1>1 DEF TrailTellsStatus, StatusAfter
<1>4. CASE i = Len(trail) + 1
  BY <1>2, <1>3, <1>4
<1>5. CASE i \in DOMAIN trail
  <2>1. Len(trail) + 1 \in DOMAIN t /\ Len(trail) + 1 > i
    BY <1>2, <1>5
  <2>2. e.status = "BLOCKED"
    BY <1>2, <1>3, <2>1
  <2>3. /\ trail[i].status # "BLOCKED" /\ t[i] = trail[i]
        /\ \A j \in DOMAIN trail : j > i => trail[j].status = "BLOCKED"
    BY <1>2, <1>3, <1>5
  <2>4. status \in StatusAfter(trail[i])
    BY <1>5, <2>3 DEF TrailTellsStatus
  <2>5. QED
    BY <2>2, <2>3, <2>4
<1>6. QED
  BY <1>2, <1>4, <1>5

(* The newest transfer: the one appended, or the one it was.               *)
LEMMA PartiesAppend ==
  ASSUME RowInv, NEW e \in CustodyEvents, trail' = Append(trail, e),
         IsRequest(e) => custodian' \in {e.from, e.to},
         ~IsRequest(e) => \A t \in DOMAIN trail :
           PendingTransfer(t) => custodian' \in {trail[t].from, trail[t].to}
  PROVE  PartiesHoldItem'
<1>1. PICK u : u = trail'
  OBVIOUS
<1>2. /\ Len(trail) \in Nat /\ DOMAIN trail = 1..Len(trail)
      /\ DOMAIN u = 1..(Len(trail) + 1)
      /\ \A i \in DOMAIN trail : i \in DOMAIN u /\ u[i] = trail[i]
      /\ u[Len(trail) + 1] = e
  BY <1>1, Appended DEF RowInv
<1>3. SUFFICES ASSUME NEW t \in DOMAIN u, IsRequest(u[t]),
                      \A i \in DOMAIN u : IsRequest(u[i]) => i <= t
               PROVE  custodian' \in {u[t].from, u[t].to}
  BY <1>1 DEF PartiesHoldItem, PendingTransfer, IsRequest
<1>4. CASE IsRequest(e)
  <2>1. t = Len(trail) + 1
    BY <1>2, <1>3, <1>4
  <2>2. QED
    BY <1>2, <1>4, <2>1
<1>5. CASE ~IsRequest(e)
  <2>1. t \in DOMAIN trail
    BY <1>2, <1>3, <1>5
  <2>2. PendingTransfer(t)
    BY <1>2, <1>3, <2>1 DEF PendingTransfer
  <2>3. QED
    BY <1>2, <1>5, <2>1, <2>2
<1>6. QED
  BY <1>4, <1>5

(* There is one newest transfer.                                           *)
LEMMA OnePending ==
  ASSUME RowInv, NEW t \in DOMAIN trail, NEW u \in DOMAIN trail,
         PendingTransfer(t), PendingTransfer(u)
  PROVE  t = u
BY LenProperties DEF PendingTransfer, RowInv

(* Reading: the checks of a handler are true when they are made.           *)
LEMMA SerialRead ==
  ASSUME SerialInv, NEW s \in Slots, NEW r, StillTrue(r),
         req = [x \in Slots |-> req[x]], req' = [req EXCEPT ![s] = r],
         UNCHANGED <<status, custodian, trail>>
  PROVE  SerialInv'
<1>1. PartiesHoldItem' /\ TrailTellsStatus'
  BY ItemStays
<1>2. ASSUME NEW x \in Slots PROVE StillTrue(req'[x])
  BY DEF SerialInv
<1>3. ASSUME NEW x \in Slots PROVE StillTrue(req[x])'
  <2>1. PICK q : q = req'[x]
    OBVIOUS
  <2>2. StillTrue(q)'
    BY <1>2, <2>1, StillTrueStays
  <2>3. QED
    BY <2>1, <2>2
<1>4. QED
  BY <1>1, <1>3 DEF SerialInv

LEMMA SerialLoaded ==
  ASSUME IInv, SerialInv, NEW s \in Slots, NEW op \in Operations, NEW u, NEW other,
         NEW checked, Loaded(s, op, u, other, checked),
         op = "request" => custodian = u,
         op \in {"accept", "reject"} =>
           \E t \in DOMAIN trail : /\ PendingTransfer(t)
                                   /\ trail[t].from = other /\ trail[t].to = u,
         op \in DOMAIN Target => LegalTransition(status, Target[op])
  PROVE  SerialInv'
<1>1. PICK r : r = [op |-> op, actor |-> u, other |-> other, seen |-> status,
                    checked |-> checked,
                    failed |-> {a \in checked : stored[a] = "replaced"}]
  OBVIOUS
<1>2. StillTrue(r)
  <2>1. r.op = op /\ r.actor = u /\ r.other = other /\ r.seen = status
    BY <1>1
  <2>2. QED
    BY <2>1 DEF StillTrue
<1>3. req' = [req EXCEPT ![s] = r] /\ UNCHANGED <<status, custodian, trail>>
  BY <1>1 DEF Loaded
<1>4. req = [x \in Slots |-> req[x]]
  BY DEF IInv, ReqInv
<1>5. QED
  BY <1>2, <1>3, <1>4, SerialRead

LEMMA SerialLoad ==
  ASSUME IInv, SerialInv, NEW s \in Slots, NEW u \in Users, Load(s, u)
  PROVE  SerialInv'
<1> USE DEF Operations, Target, CustodianMay
<1>1. CASE LoadRegister(s, u)
  BY <1>1, SerialLoaded DEF LoadRegister
<1>2. CASE LoadAddArtifact(s, u)
  BY <1>2, SerialLoaded DEF LoadAddArtifact
<1>3. CASE LoadSeal(s, u)
  BY <1>3, SerialLoaded DEF LoadSeal
<1>4. CASE LoadVerify(s, u)
  BY <1>4, SerialLoaded DEF LoadVerify
<1>5. CASE LoadDownload(s, u)
  BY <1>5, SerialLoaded DEF LoadDownload
<1>6. CASE LoadRequestTransfer(s, u)
  BY <1>6, SerialLoaded DEF LoadRequestTransfer
<1>7. CASE LoadAccept(s, u)
  <2>1. PICK t \in DOMAIN trail : /\ PendingTransfer(t) /\ trail[t].to = u
                                  /\ Loaded(s, "accept", u, trail[t].from, Present)
    BY <1>7 DEF LoadAccept
  <2>2. QED
    BY <2>1, SerialLoaded
<1>8. CASE LoadReject(s, u)
  <2>1. PICK t \in DOMAIN trail : /\ PendingTransfer(t) /\ trail[t].to = u
                                  /\ Loaded(s, "reject", u, trail[t].from, {})
    BY <1>8 DEF LoadReject
  <2>2. QED
    BY <2>1, SerialLoaded
<1>9. CASE LoadStartAnalysis(s, u)
  BY <1>9, SerialLoaded DEF LoadStartAnalysis
<1>10. CASE LoadCompleteAnalysis(s, u)
  BY <1>10, SerialLoaded DEF LoadCompleteAnalysis
<1>11. CASE LoadReturn(s, u)
  BY <1>11, SerialLoaded DEF LoadReturn
<1>12. CASE LoadArchive(s, u)
  BY <1>12, SerialLoaded DEF LoadArchive
<1>13. QED
  BY <1>1, <1>2, <1>3, <1>4, <1>5, <1>6, <1>7, <1>8, <1>9, <1>10, <1>11, <1>12
     DEF Load

(* Committing: no request is left whose checks could have become false.    *)
LEMMA SerialEnd ==
  ASSUME Serial, IInv, NEW s \in Slots, req' = [req EXCEPT ![s] = Idle],
         PartiesHoldItem', TrailTellsStatus'
  PROVE  SerialInv'
<1>1. ASSUME NEW x \in Slots PROVE req'[x] = Idle
  BY DEF Serial, IInv, ReqInv
<1>2. \A x \in Slots : StillTrue(req[x])'
  BY <1>1 DEF StillTrue
<1>3. QED
  BY <1>2 DEF SerialInv

(* What the transaction of a request that read may rely on.                *)
LEMMA SerialServing ==
  ASSUME IInv, SerialInv, NEW s \in Slots, req[s].op \in Operations
  PROVE  LET r == req[s]
         IN /\ r \in RequestRow /\ r.seen = status
            /\ r.op = "request" => custodian = r.actor /\ r.other \in Users
            /\ r.op \in {"accept", "reject"} =>
                 /\ r.other \in Users
                 /\ \E t \in DOMAIN trail :
                      /\ PendingTransfer(t)
                      /\ trail[t].from = r.other /\ trail[t].to = r.actor
            /\ r.op \in DOMAIN Target => LegalTransition(status, Target[r.op])
<1>1. req[s] # Idle
  BY DEF Idle, Operations
<1>2. ReqOk(trail, req[s]) /\ StillTrue(req[s])
  BY DEF IInv, ReqInv, SerialInv
<1>3. QED
  BY <1>1, <1>2 DEF ReqOk, StillTrue

LEMMA SerialMove ==
  ASSUME Serial, IInv, SerialInv, NEW s \in Slots, NEW op \in Operations,
         NEW target \in Statuses,
         NEW action \in {"SEAL", "ANALYZE", "RETURN", "ARCHIVE"},
         NEW state \in {"PENDING", "COMPLETED"},
         Move(s, op, target, action, state),
         target \in StatusAfter(CustodyEvent(action, state, req[s].actor, req[s].actor))
  PROVE  SerialInv'
<1>1. PICK e : e = CustodyEvent(action, state, req[s].actor, req[s].actor)
  OBVIOUS
<1>2. /\ req[s].op = op /\ req' = [req EXCEPT ![s] = Idle] /\ status' = target
      /\ trail' = Append(trail, e) /\ custodian' = custodian
  BY <1>1 DEF Move, Ends, AppendCustody
<1>3. req[s].actor \in Users
  BY <1>2, SerialServing DEF RequestRow
<1>4. e \in CustodyEvents /\ e.action = action /\ e.status = state
  BY <1>1, <1>3 DEF CustodyEvents, CustodyEvent
<1>5. RowInv
  BY DEF IInv
<1>6. TrailTellsStatus'
  <2>1. e.status # "BLOCKED" /\ status' \in StatusAfter(e)
    BY <1>1, <1>2, <1>4
  <2>2. TrailTellsStatus
    BY DEF SerialInv
  <2>3. QED
    BY <1>2, <1>4, <1>5, <2>1, <2>2, TellsAppend
<1>7. PartiesHoldItem'
  <2>1. ~IsRequest(e)
    BY <1>4 DEF IsRequest
  <2>2. \A t \in DOMAIN trail :
          PendingTransfer(t) => custodian' \in {trail[t].from, trail[t].to}
    BY <1>2 DEF SerialInv, PartiesHoldItem
  <2>3. QED
    BY <1>2, <1>4, <1>5, <2>1, <2>2, PartiesAppend
<1>8. QED
  BY <1>2, <1>6, <1>7, SerialEnd

(* An answer puts the item into the hands of one of the two parties of the *)
(* transfer that is the newest, or leaves it where it is.                  *)
LEMMA SerialAnswer ==
  ASSUME Serial, IInv, SerialInv, NEW s \in Slots,
         req[s].op \in {"accept", "reject"}, req' = [req EXCEPT ![s] = Idle],
         NEW state \in {"COMPLETED", "REJECTED", "BLOCKED"},
         trail' = Append(trail, CustodyEvent("RECEIVE", state, req[s].other,
                                             req[s].actor)),
         state = "COMPLETED" => status' = "RECEIVED" /\ custodian' = req[s].actor,
         state = "REJECTED" => status' = "IN_CUSTODY" /\ custodian' = req[s].other,
         state = "BLOCKED" => status' = status /\ custodian' = custodian
  PROVE  SerialInv'
<1>1. PICK e : e = CustodyEvent("RECEIVE", state, req[s].other, req[s].actor)
  OBVIOUS
<1>2. req[s].op \in Operations
  BY DEF Operations
<1>3. /\ req[s].actor \in Users /\ req[s].other \in Users
      /\ \E t \in DOMAIN trail : /\ PendingTransfer(t)
                                 /\ trail[t].from = req[s].other
                                 /\ trail[t].to = req[s].actor
  BY <1>2, SerialServing DEF RequestRow
<1>4. e \in CustodyEvents /\ e.action = "RECEIVE" /\ e.status = state
  BY <1>1, <1>3 DEF CustodyEvents, CustodyEvent
<1>5. RowInv /\ trail' = Append(trail, e)
  BY <1>1 DEF IInv
<1>6. TrailTellsStatus'
  <2>1. e.status # "BLOCKED" => status' \in StatusAfter(e)
    BY <1>4 DEF StatusAfter
  <2>2. e.status = "BLOCKED" => status' = status
    BY <1>4
  <2>3. TrailTellsStatus
    BY DEF SerialInv
  <2>4. QED
    BY <1>4, <1>5, <2>1, <2>2, <2>3, TellsAppend
<1>7. PartiesHoldItem'
  <2>1. ~IsRequest(e)
    BY <1>4 DEF IsRequest
  <2>2. ASSUME NEW t \in DOMAIN trail, PendingTransfer(t)
        PROVE  custodian' \in {trail[t].from, trail[t].to}
    <3>1. trail[t].from = req[s].other /\ trail[t].to = req[s].actor
      BY <1>3, <1>5, <2>2, OnePending
    <3>2. custodian \in {trail[t].from, trail[t].to}
      BY <2>2 DEF SerialInv, PartiesHoldItem
    <3>3. QED
      BY <3>1, <3>2
  <2>3. QED
    BY <1>4, <1>5, <2>1, <2>2, PartiesAppend
<1>8. QED
  BY <1>6, <1>7, SerialEnd

(* Verification: of the statuses, only SEALED is left for IN_CUSTODY, and   *)
(* the item is still as it was when it was read.                           *)
LEMMA SerialVerify ==
  ASSUME Serial, IInv, SerialInv, NEW s \in Slots, CommitVerify(s)
  PROVE  SerialInv'
<1>1. /\ req[s].op = "verify" /\ req' = [req EXCEPT ![s] = Idle]
      /\ UNCHANGED <<custodian, trail>>
      /\ status' = status \/ (status' = "IN_CUSTODY" /\ req[s].seen = "SEALED")
  BY DEF CommitVerify, Ends
<1>2. req[s].seen = status
  BY <1>1, SerialServing DEF Operations
<1>3. PartiesHoldItem'
  BY <1>1 DEF SerialInv, PartiesHoldItem, PendingTransfer
<1>4. TrailTellsStatus'
  <2>1. SUFFICES ASSUME NEW i \in DOMAIN trail, trail[i].status # "BLOCKED",
                        \A j \in DOMAIN trail : j > i => trail[j].status = "BLOCKED"
                 PROVE  status' \in StatusAfter(trail[i])
    BY <1>1 DEF TrailTellsStatus
  <2>2. status \in StatusAfter(trail[i])
    BY <2>1 DEF SerialInv, TrailTellsStatus
  <2>3. CASE status' = status
    BY <2>2, <2>3
  <2>4. CASE status' = "IN_CUSTODY" /\ status = "SEALED"
    <3>1. trail[i].action \in {"REGISTER", "SEAL", "TRANSFER_REQUEST", "RECEIVE",
                               "ANALYZE", "RETURN", "ARCHIVE"}
      <4>1. trail \in Seq(CustodyEvents)
        BY DEF IInv, RowInv
      <4>2. trail[i] \in CustodyEvents
        BY <4>1, LenProperties
      <4>3. QED
        BY <4>2 DEF CustodyEvents
    <3>2. trail[i].action = "SEAL"
      BY <2>2, <2>4, <3>1 DEF StatusAfter
    <3>3. QED
      BY <2>4, <3>2 DEF StatusAfter
  <2>5. QED
    BY <1>1, <1>2, <2>3, <2>4
<1>5. QED
  BY <1>1, <1>3, <1>4, SerialEnd

(* The first event, and a transfer sent by who holds the item.             *)
LEMMA SerialRegister ==
  ASSUME Serial, IInv, SerialInv, NEW s \in Slots, CommitRegister(s)
  PROVE  SerialInv'
<1>1. PICK e : e = CustodyEvent("REGISTER", "COMPLETED", Nobody, req[s].actor)
  OBVIOUS
<1>2. /\ status = "NONE" /\ req[s].op = "register"
      /\ req' = [req EXCEPT ![s] = Idle] /\ status' = "REGISTERED"
      /\ trail' = Append(trail, e)
  BY <1>1 DEF CommitRegister, Ends, AppendCustody
<1>3. req[s].actor \in Users
  BY <1>2, SerialServing DEF RequestRow, Operations
<1>4. e \in CustodyEvents /\ e.action = "REGISTER" /\ e.status = "COMPLETED"
  BY <1>1, <1>3 DEF CustodyEvents, CustodyEvent
<1>5. RowInv /\ TrailTellsStatus /\ DOMAIN trail = {}
  BY <1>2 DEF IInv, StatusInv, SerialInv
<1>6. status' \in StatusAfter(e) /\ ~IsRequest(e)
  BY <1>2, <1>4 DEF StatusAfter, IsRequest
<1>7. TrailTellsStatus' /\ PartiesHoldItem'
  BY <1>2, <1>4, <1>5, <1>6, TellsAppend, PartiesAppend
<1>8. QED
  BY <1>2, <1>7, SerialEnd

LEMMA SerialRequest ==
  ASSUME Serial, IInv, SerialInv, NEW s \in Slots, CommitRequestTransfer(s)
  PROVE  SerialInv'
<1>1. PICK e : e = CustodyEvent("TRANSFER_REQUEST", "PENDING", req[s].actor,
                                req[s].other)
  OBVIOUS
<1>2. /\ req[s].op = "request" /\ req' = [req EXCEPT ![s] = Idle]
      /\ status' = "IN_TRANSIT" /\ custodian' = custodian
      /\ trail' = Append(trail, e)
  BY <1>1 DEF CommitRequestTransfer, Ends, AppendCustody
<1>3. req[s].actor \in Users /\ req[s].other \in Users /\ custodian = req[s].actor
  BY <1>2, SerialServing DEF RequestRow, Operations
<1>4. /\ e \in CustodyEvents /\ e.action = "TRANSFER_REQUEST"
      /\ e.status = "PENDING" /\ e.from = custodian
  BY <1>1, <1>3 DEF CustodyEvents, CustodyEvent
<1>5. RowInv /\ TrailTellsStatus
  BY DEF IInv, SerialInv
<1>6. status' \in StatusAfter(e) /\ IsRequest(e) /\ custodian' \in {e.from, e.to}
  BY <1>2, <1>4 DEF StatusAfter, IsRequest
<1>7. TrailTellsStatus' /\ PartiesHoldItem'
  BY <1>2, <1>4, <1>5, <1>6, TellsAppend, PartiesAppend
<1>8. QED
  BY <1>2, <1>7, SerialEnd

LEMMA SerialCommit ==
  ASSUME Serial, IInv, SerialInv, NEW s \in Slots, Commit(s)
  PROVE  SerialInv'
<1> USE DEF Operations, Statuses
<1>1. CASE CommitAddArtifact(s) \/ CommitDownload(s)
  <2>1. req' = [req EXCEPT ![s] = Idle] /\ UNCHANGED <<status, custodian, trail>>
    BY <1>1 DEF CommitAddArtifact, CommitDownload, Ends
  <2>2. QED
    BY <2>1, ItemStays, SerialEnd
<1>2. CASE CommitAccept(s)
  <2>1. /\ req[s].op = "accept" /\ req' = [req EXCEPT ![s] = Idle]
        /\ status' = "RECEIVED" /\ custodian' = req[s].actor
        /\ trail' = Append(trail, CustodyEvent("RECEIVE", "COMPLETED",
                                              req[s].other, req[s].actor))
    BY <1>2 DEF CommitAccept, Ends, AppendCustody
  <2>2. QED
    BY <2>1, SerialAnswer
<1>3. CASE CommitBlockedAccept(s)
  <2>1. /\ req[s].op = "accept" /\ req' = [req EXCEPT ![s] = Idle]
        /\ status' = status /\ custodian' = custodian
        /\ trail' = Append(trail, CustodyEvent("RECEIVE", "BLOCKED",
                                              req[s].other, req[s].actor))
    BY <1>3 DEF CommitBlockedAccept, Ends, AppendCustody
  <2>2. QED
    BY <2>1, SerialAnswer
<1>4. CASE CommitReject(s)
  <2>1. /\ req[s].op = "reject" /\ req' = [req EXCEPT ![s] = Idle]
        /\ status' = "IN_CUSTODY" /\ custodian' = req[s].other
        /\ trail' = Append(trail, CustodyEvent("RECEIVE", "REJECTED",
                                              req[s].other, req[s].actor))
    BY <1>4 DEF CommitReject, Ends, AppendCustody
  <2>2. QED
    BY <2>1, SerialAnswer
<1>5. CASE CommitSeal(s)
  BY <1>5, SerialMove DEF CommitSeal, StatusAfter, CustodyEvent
<1>6. CASE CommitStartAnalysis(s)
  BY <1>6, SerialMove DEF CommitStartAnalysis, StatusAfter, CustodyEvent
<1>7. CASE CommitCompleteAnalysis(s)
  BY <1>7, SerialMove DEF CommitCompleteAnalysis, StatusAfter, CustodyEvent
<1>8. CASE CommitReturn(s)
  BY <1>8, SerialMove DEF CommitReturn, StatusAfter, CustodyEvent
<1>9. CASE CommitArchive(s)
  BY <1>9, SerialMove DEF CommitArchive, StatusAfter, CustodyEvent
<1>10. QED
  BY <1>1, <1>2, <1>3, <1>4, <1>5, <1>6, <1>7, <1>8, <1>9, SerialVerify,
     SerialRegister, SerialRequest DEF Commit

-----------------------------------------------------------------------------
(* What holds of requests that are served one at a time.                   *)

THEOREM SerialInvariance == ASSUME Serial PROVE Spec => [](IInv /\ SerialInv)
<1>1. Init => SerialInv
  BY DEF Init, SerialInv, PartiesHoldItem, TrailTellsStatus, StillTrue
<1>2. IInv /\ SerialInv /\ [Next]_vars => SerialInv'
  <2> SUFFICES ASSUME IInv, SerialInv, [Next]_vars PROVE SerialInv'
    OBVIOUS
  <2>1. ASSUME NEW s \in Slots, Abort(s) PROVE SerialInv'
    <3>1. StillTrue(Idle)
      BY DEF StillTrue
    <3>2. /\ req = [x \in Slots |-> req[x]] /\ req' = [req EXCEPT ![s] = Idle]
          /\ UNCHANGED <<status, custodian, trail>>
      BY <2>1 DEF Abort, IInv, ReqInv
    <3>3. QED
      BY <3>1, <3>2, SerialRead
  <2>2. CASE UNCHANGED vars \/ \E a \in Artifacts : Alter(a)
    <3>1. UNCHANGED <<status, custodian, trail, req>>
      BY <2>2 DEF vars, Alter
    <3>2. ASSUME NEW x \in Slots PROVE StillTrue(req[x])'
      BY <3>1 DEF SerialInv, StillTrue, PendingTransfer
    <3>3. QED
      BY <3>1, <3>2, ItemStays DEF SerialInv
  <2>3. QED
    BY <2>1, <2>2, SerialLoad, SerialCommit DEF Next
<1>3. QED
  BY <1>1, <1>2, Invariance, PTL DEF Spec

\* requestTransfer, acceptTransfer, rejectTransfer: while a transfer is the
\* newest one, one of its two parties holds the item.
THEOREM PartiesCorrect == ASSUME Serial PROVE Spec => []PartiesHoldItem
<1>1. SerialInv => PartiesHoldItem
  BY DEF SerialInv
<1>2. QED
  BY <1>1, SerialInvariance, PTL

\* evidence.status and the custody trail tell the same story.
THEOREM StatusCorrect == ASSUME Serial PROVE Spec => []TrailTellsStatus
<1>1. SerialInv => TrailTellsStatus
  BY DEF SerialInv
<1>2. QED
  BY <1>1, SerialInvariance, PTL

\* ALLOWED_TRANSITIONS: the only steps that can leave the table are answers to
\* a transfer, the one operation that does not ask it (TransitionsAreLegal is
\* violated by them).
OnlyAnswersLeaveTable ==
  [][\/ status = "NONE"
     \/ LegalTransition(status, status')
     \/ \E s \in Slots : req[s].op \in {"accept", "reject"}]_status

THEOREM TransitionsCorrect == ASSUME Serial PROVE Spec => OnlyAnswersLeaveTable
<1>1. ASSUME IInv, SerialInv, [Next]_vars, status # "NONE",
             \A s \in Slots : req[s].op \notin {"accept", "reject"},
             status' # status
      PROVE  LegalTransition(status, status')
  <2>1. PICK s \in Slots : Commit(s)
    BY <1>1 DEF Next, vars, Abort, Alter, Load, Loaded, LoadRegister,
                LoadAddArtifact, LoadSeal, LoadVerify, LoadDownload,
                LoadRequestTransfer, LoadAccept, LoadReject, LoadStartAnalysis,
                LoadCompleteAnalysis, LoadReturn, LoadArchive
  <2>2. ASSUME NEW op \in DOMAIN Target, req[s].op = op, status' = Target[op]
        PROVE  LegalTransition(status, status')
    <3>1. op \in Operations
      BY DEF Target, Operations
    <3>2. QED
      BY <1>1, <2>2, <3>1, SerialServing
  <2>3. CASE CommitVerify(s)
    <3>1. /\ req[s].op \in Operations /\ req[s].seen = "SEALED"
          /\ status' = "IN_CUSTODY"
      BY <1>1, <2>3 DEF CommitVerify, Ends, Operations
    <3>2. status = "SEALED"
      BY <1>1, <3>1, SerialServing
    <3>3. QED
      BY <3>1, <3>2 DEF LegalTransition, ALLOWED_TRANSITIONS, Statuses
  <2>4. CASE CommitRequestTransfer(s)
    BY <2>2, <2>4 DEF CommitRequestTransfer, Ends, Target
  <2>5. CASE CommitSeal(s) \/ CommitStartAnalysis(s) \/ CommitCompleteAnalysis(s)
             \/ CommitReturn(s) \/ CommitArchive(s)
    BY <2>2, <2>5 DEF CommitSeal, CommitStartAnalysis, CommitCompleteAnalysis,
                      CommitReturn, CommitArchive, Move, Ends, Target
  <2>6. QED
    BY <1>1, <2>1, <2>3, <2>4, <2>5 DEF Commit, CommitRegister, CommitAddArtifact,
       CommitDownload, CommitAccept, CommitBlockedAccept, CommitReject, Ends
<1>2. IInv /\ SerialInv /\ [Next]_vars =>
        [\/ status = "NONE"
         \/ LegalTransition(status, status')
         \/ \E s \in Slots : req[s].op \in {"accept", "reject"}]_status
  BY <1>1
<1>3. QED
  BY <1>2, SerialInvariance, PTL DEF Spec, OnlyAnswersLeaveTable

-----------------------------------------------------------------------------
(* What the page of the item offers, and what the service accepts.         *)

LEMMA AcceptedSteps ==
  ASSUME NEW u
  PROVE  /\ "seal" \in Accepted(u) <=> CustodianMay(u, "SEALED")
         /\ "verify" \in Accepted(u) <=> Present # {} /\ Readable
         /\ "addArtifact" \in Accepted(u) <=> custodian = u
         /\ "download" \in Accepted(u) <=>
              \E a \in Present : stored[a] # "unreadable"
         /\ "verifyChain" \in Accepted(u) <=> status # "NONE"
         /\ "request" \in Accepted(u) <=>
              CustodianMay(u, "IN_TRANSIT") /\ Members \ {u} # {}
         /\ "accept" \in Accepted(u) <=> Receives(u) /\ Readable
         /\ "reject" \in Accepted(u) <=> Receives(u)
         /\ "startAnalysis" \in Accepted(u) <=> CustodianMay(u, "UNDER_ANALYSIS")
         /\ "completeAnalysis" \in Accepted(u) <=> CustodianMay(u, "IN_CUSTODY")
         /\ "return" \in Accepted(u) <=> CustodianMay(u, "RETURNED")
         /\ "archive" \in Accepted(u) <=> LegalTransition(status, "ARCHIVED")
BY DEF Accepted

\* The request takes a free slot with what it has read; nothing else changes.
Arrives(s, op, u, other, checked) ==
  /\ req[s] = Idle
  /\ req' = [req EXCEPT ![s] =
               [op |-> op, actor |-> u, other |-> other, seen |-> status,
                checked |-> checked,
                failed |-> {a \in checked : stored[a] = "replaced"}]]
  /\ UNCHANGED <<status, custodian, integrity, stored, trail, alerted>>

(* Accepted is what the Load actions ask: a request comes past the checks  *)
(* of its handler exactly when its step is accepted.                       *)
LEMMA AcceptedLoads ==
  ASSUME NEW s, NEW u
  PROVE  /\ LoadSeal(s, u) <=>
              "seal" \in Accepted(u) /\ Arrives(s, "seal", u, Nobody, {})
         /\ LoadVerify(s, u) <=>
              "verify" \in Accepted(u) /\ Arrives(s, "verify", u, Nobody, Present)
         /\ LoadAddArtifact(s, u) <=>
              /\ "addArtifact" \in Accepted(u)
              /\ Arrives(s, "addArtifact", u, Nobody, {})
         /\ LoadDownload(s, u) <=>
              /\ "download" \in Accepted(u)
              /\ \E a \in Present : /\ stored[a] # "unreadable"
                                    /\ Arrives(s, "download", u, Nobody, {a})
         /\ LoadRequestTransfer(s, u) <=>
              /\ "request" \in Accepted(u)
              /\ \E to \in Members \ {u} : Arrives(s, "request", u, to, {})
         /\ LoadAccept(s, u) <=>
              /\ "accept" \in Accepted(u)
              /\ \E t \in DOMAIN trail :
                   /\ PendingTransfer(t) /\ trail[t].to = u
                   /\ Arrives(s, "accept", u, trail[t].from, Present)
         /\ LoadReject(s, u) <=>
              /\ "reject" \in Accepted(u)
              /\ \E t \in DOMAIN trail :
                   /\ PendingTransfer(t) /\ trail[t].to = u
                   /\ Arrives(s, "reject", u, trail[t].from, {})
         /\ LoadStartAnalysis(s, u) <=>
              /\ "startAnalysis" \in Accepted(u)
              /\ Arrives(s, "startAnalysis", u, Nobody, {})
         /\ LoadCompleteAnalysis(s, u) <=>
              /\ "completeAnalysis" \in Accepted(u)
              /\ Arrives(s, "completeAnalysis", u, Nobody, {})
         /\ LoadReturn(s, u) <=>
              "return" \in Accepted(u) /\ Arrives(s, "return", u, Nobody, {})
         /\ LoadArchive(s, u) <=>
              "archive" \in Accepted(u) /\ Arrives(s, "archive", u, Nobody, {})
<1>1. ASSUME NEW op, NEW other, NEW checked
      PROVE  Loaded(s, op, u, other, checked) <=>
               /\ \A a \in checked : stored[a] # "unreadable"
               /\ Arrives(s, op, u, other, checked)
  BY DEF Loaded, Arrives
<1>2. ASSUME NEW op, NEW other
      PROVE  Loaded(s, op, u, other, {}) <=> Arrives(s, op, u, other, {})
  BY <1>1
<1>3. ASSUME NEW op, NEW other
      PROVE  Loaded(s, op, u, other, Present) <=>
               Readable /\ Arrives(s, op, u, other, Present)
  BY <1>1 DEF Readable
<1>4. LoadVerify(s, u) <=>
        "verify" \in Accepted(u) /\ Arrives(s, "verify", u, Nobody, Present)
  BY <1>3, AcceptedSteps DEF LoadVerify
<1>9. LoadDownload(s, u) <=>
        /\ "download" \in Accepted(u)
        /\ \E a \in Present : /\ stored[a] # "unreadable"
                              /\ Arrives(s, "download", u, Nobody, {a})
  <2>1. \A a \in Present : Loaded(s, "download", u, Nobody, {a}) <=>
          stored[a] # "unreadable" /\ Arrives(s, "download", u, Nobody, {a})
    BY <1>1
  <2>2. QED
    BY <2>1, AcceptedSteps DEF LoadDownload
<1>5. LoadRequestTransfer(s, u) <=>
        /\ "request" \in Accepted(u)
        /\ \E to \in Members \ {u} : Arrives(s, "request", u, to, {})
  BY <1>2, AcceptedSteps DEF LoadRequestTransfer
<1>6. LoadAccept(s, u) <=>
        /\ "accept" \in Accepted(u)
        /\ \E t \in DOMAIN trail :
             /\ PendingTransfer(t) /\ trail[t].to = u
             /\ Arrives(s, "accept", u, trail[t].from, Present)
  BY <1>3, AcceptedSteps DEF LoadAccept, Receives
<1>7. LoadReject(s, u) <=>
        /\ "reject" \in Accepted(u)
        /\ \E t \in DOMAIN trail :
             /\ PendingTransfer(t) /\ trail[t].to = u
             /\ Arrives(s, "reject", u, trail[t].from, {})
  BY <1>2, AcceptedSteps DEF LoadReject, Receives
<1>8. QED
  BY <1>2, <1>4, <1>5, <1>6, <1>7, <1>9, AcceptedSteps
     DEF LoadSeal, LoadAddArtifact, LoadStartAnalysis, LoadCompleteAnalysis, LoadReturn, LoadArchive

\* A registered item has an artifact.
HasArtifact == status # "NONE" => Present # {}

(* A check marks an artifact and never removes its row.                    *)
LEMMA MarkedStays ==
  ASSUME IInv, NEW r, MarkChecked(r), Present # {}
  PROVE  Present' # {}
<1>1. PICK a \in Artifacts : integrity[a] # "NONE"
  BY DEF Present
<1>2. integrity'[a] # "NONE"
  BY <1>1 DEF MarkChecked
<1>3. QED
  BY <1>1, <1>2 DEF Present

LEMMA ArtifactStep ==
  ASSUME IInv, HasArtifact, [Next]_vars
  PROVE  HasArtifact'
<1>1. CASE UNCHANGED <<status, integrity>>
  BY <1>1 DEF HasArtifact, Present
<1>2. ASSUME NEW s \in Slots, CommitRegister(s) \/ CommitAddArtifact(s)
      PROVE  HasArtifact'
  <2>1. PICK a \in Artifacts : integrity' = [integrity EXCEPT ![a] = "UNKNOWN"]
    BY <1>2 DEF CommitRegister, CommitAddArtifact
  <2>2. integrity'[a] = "UNKNOWN"
    BY <2>1 DEF IInv, RowInv
  <2>3. QED
    BY <2>2 DEF HasArtifact, Present
<1>3. ASSUME NEW s \in Slots, Commit(s), ~CommitRegister(s), ~CommitAddArtifact(s)
      PROVE  HasArtifact'
  <2>1. req[s].op \in Operations \ {"register"}
    BY <1>3 DEF Commit, CommitSeal, CommitVerify, CommitDownload,
       CommitRequestTransfer, CommitAccept, CommitBlockedAccept, CommitReject,
       CommitStartAnalysis, CommitCompleteAnalysis, CommitReturn, CommitArchive,
       Move, Ends, Operations
  <2>2. Present # {}
    BY <2>1, Serving DEF HasArtifact
  <2>3. UNCHANGED integrity \/ MarkChecked(req[s])
    BY <1>3 DEF Commit, CommitSeal, CommitVerify, CommitDownload,
       CommitRequestTransfer, CommitAccept, CommitBlockedAccept, CommitReject,
       CommitStartAnalysis, CommitCompleteAnalysis, CommitReturn, CommitArchive, Move
  <2>4. QED
    BY <2>2, <2>3, MarkedStays DEF HasArtifact, Present
<1>4. ASSUME NEW s \in Slots, NEW u \in Users, Load(s, u)
      PROVE  UNCHANGED <<status, integrity>>
  BY <1>4 DEF Load, Loaded, LoadRegister, LoadAddArtifact, LoadSeal, LoadVerify,
     LoadDownload, LoadRequestTransfer, LoadAccept, LoadReject, LoadStartAnalysis,
     LoadCompleteAnalysis, LoadReturn, LoadArchive
<1>5. QED
  BY <1>1, <1>2, <1>3, <1>4 DEF Next, Abort, Alter, vars

\* An item is in transit as long as its newest event is the request for it, or
\* a receipt that was blocked; verify alone moves an item without an event.  No
\* step leaves an item VERIFIED, a status of the table with a way out only.
TransitInv ==
  /\ status # "VERIFIED"
  /\ (status = "IN_TRANSIT" /\ ~Blocked) =>
       Len(trail) \in DOMAIN trail /\ IsRequest(trail[Len(trail)])

LEMMA TransitStep ==
  ASSUME IInv, TransitInv, [Next]_vars
  PROVE  TransitInv'
<1>1. CASE UNCHANGED trail /\ status' \in {status, "IN_CUSTODY"}
  BY <1>1 DEF TransitInv, Blocked
<1>2. ASSUME NEW s \in Slots, CommitRequestTransfer(s)
      PROVE  TransitInv'
  <2>1. /\ req[s].op = "request"
        /\ AppendCustody("TRANSFER_REQUEST", "PENDING", req[s].actor, req[s].other)
    BY <1>2 DEF CommitRequestTransfer, Ends
  <2>2. req[s] \in RequestRow /\ ReqOk(trail, req[s]) /\ req[s] # Idle
    BY <2>1, Serving DEF Idle, Operations
  <2>3. PICK t, e : /\ t = trail' /\ e = CustodyEvent("TRANSFER_REQUEST", "PENDING",
                                                      req[s].actor, req[s].other)
    OBVIOUS
  <2>4. e \in CustodyEvents /\ IsRequest(e)
    BY <2>1, <2>2, <2>3 DEF CustodyEvent, CustodyEvents, IsRequest, RequestRow, ReqOk
  <2>5. /\ Len(trail) \in Nat /\ DOMAIN t = 1..(Len(trail) + 1)
        /\ t[Len(trail) + 1] = e /\ t \in Seq(CustodyEvents)
    BY <2>1, <2>3, <2>4, Appended DEF IInv, RowInv, AppendCustody
  <2>6. Len(t) = Len(trail) + 1
    BY <2>1, <2>3, <2>4, AppendProperties DEF IInv, RowInv, AppendCustody
  <2>7. Len(t) \in DOMAIN t /\ IsRequest(t[Len(t)])
    BY <2>4, <2>5, <2>6
  <2>8. status' = "IN_TRANSIT"
    BY <1>2 DEF CommitRequestTransfer
  <2>9. QED
    BY <2>3, <2>7, <2>8 DEF TransitInv, IsRequest
<1>3. ASSUME NEW s \in Slots, CommitBlockedAccept(s)
      PROVE  TransitInv'
  <2>1. /\ req[s].op = "accept"
        /\ AppendCustody("RECEIVE", "BLOCKED", req[s].other, req[s].actor)
    BY <1>3 DEF CommitBlockedAccept
  <2>2. req[s] \in RequestRow /\ ReqOk(trail, req[s]) /\ req[s] # Idle
    BY <2>1, Serving DEF Idle, Operations
  <2>3. PICK t, e : /\ t = trail' /\ e = CustodyEvent("RECEIVE", "BLOCKED",
                                                      req[s].other, req[s].actor)
    OBVIOUS
  <2>4. e \in CustodyEvents /\ e.status = "BLOCKED"
    BY <2>1, <2>2, <2>3 DEF CustodyEvent, CustodyEvents, RequestRow, ReqOk
  <2>5. /\ Len(trail) \in Nat /\ DOMAIN t = 1..(Len(trail) + 1)
        /\ t[Len(trail) + 1] = e
    BY <2>1, <2>3, <2>4, Appended DEF IInv, RowInv, AppendCustody
  <2>6. Len(trail) + 1 \in DOMAIN t
    BY <2>5
  <2>7. Blocked'
    BY <2>3, <2>4, <2>5, <2>6 DEF Blocked
  <2>8. status' = status
    BY <1>3 DEF CommitBlockedAccept
  <2>9. QED
    BY <2>7, <2>8 DEF TransitInv
<1>4. ASSUME NEW s \in Slots, Commit(s), ~CommitRequestTransfer(s), ~CommitBlockedAccept(s)
      PROVE  \/ UNCHANGED trail /\ status' \in {status, "IN_CUSTODY"}
             \/ status' \notin {"IN_TRANSIT", "VERIFIED"}
  BY <1>4 DEF Commit, CommitRegister, CommitAddArtifact, CommitSeal, CommitVerify,
     CommitDownload, CommitAccept, CommitReject, CommitStartAnalysis,
     CommitCompleteAnalysis, CommitReturn, CommitArchive, Move
<1>5. ASSUME NEW s \in Slots, NEW u \in Users, Load(s, u)
      PROVE  UNCHANGED <<status, trail>>
  BY <1>5 DEF Load, Loaded, LoadRegister, LoadAddArtifact, LoadSeal, LoadVerify,
     LoadDownload, LoadRequestTransfer, LoadAccept, LoadReject, LoadStartAnalysis,
     LoadCompleteAnalysis, LoadReturn, LoadArchive
<1>6. CASE status' \notin {"IN_TRANSIT", "VERIFIED"}
  BY <1>6 DEF TransitInv
<1>7. QED
  BY <1>1, <1>2, <1>3, <1>4, <1>5, <1>6 DEF Next, Abort, Alter, vars

(* The page offers nothing that the service refuses, but the form to add   *)
(* an artifact to others than the custodian.                               *)
LEMMA OfferedAccepted ==
  ASSUME IInv, HasArtifact, status # "NONE", NEW u \in Users,
         NEW step \in Offered(u), step = "addArtifact" => custodian = u,
         step \notin {"verify", "accept", "download"} \/ Readable
  PROVE  step \in Accepted(u)
<1>1. status \in Statuses
  BY DEF IInv, RowInv
<1>2. CASE step \in forwardButton(u)
  <2>1. PICK a \in forwardAction : a.step = step /\ (custodian = u \/ ~a.requiresCustodian)
    BY <1>2 DEF forwardButton, isCustodian
  <2>2. /\ status \in {"REGISTERED", "SEALED", "RECEIVED", "UNDER_ANALYSIS", "RETURNED"}
        /\ a = ACTION_BY_STATUS[status]
    BY <2>1 DEF forwardAction, ACTION_BY_STATUS
  <2>3. CASE status = "REGISTERED"
    BY <2>1, <2>2, <2>3, AcceptedSteps
       DEF ACTION_BY_STATUS, CustodianMay, LegalTransition, ALLOWED_TRANSITIONS, Statuses
  <2>4. CASE status = "SEALED"
    BY <2>1, <2>2, <2>4, AcceptedSteps DEF ACTION_BY_STATUS, HasArtifact
  <2>5. CASE status = "RECEIVED"
    BY <2>1, <2>2, <2>5, AcceptedSteps
       DEF ACTION_BY_STATUS, CustodianMay, LegalTransition, ALLOWED_TRANSITIONS, Statuses
  <2>6. CASE status = "UNDER_ANALYSIS"
    BY <2>1, <2>2, <2>6, AcceptedSteps
       DEF ACTION_BY_STATUS, CustodianMay, LegalTransition, ALLOWED_TRANSITIONS, Statuses
  <2>7. CASE status = "RETURNED"
    BY <2>1, <2>2, <2>7, AcceptedSteps
       DEF ACTION_BY_STATUS, LegalTransition, ALLOWED_TRANSITIONS, Statuses
  <2>8. QED
    BY <2>2, <2>3, <2>4, <2>5, <2>6, <2>7
<1>3. CASE step \in verifyButton
  BY <1>3, AcceptedSteps DEF verifyButton, HasArtifact
<1>4. CASE step \in returnButton(u) \cup transferForm(u)
  BY <1>4, AcceptedSteps DEF returnButton, transferForm, isCustodian, CustodianMay,
     LegalTransition, ALLOWED_TRANSITIONS, Statuses
<1>5. CASE step \in answerButtons(u)
  <2>1. PICK t \in DOMAIN trail : t = Len(trail) /\ IsRequest(trail[t]) /\ trail[t].to = u
    BY <1>5 DEF answerButtons, pendingTransfer
  <2>2. DOMAIN trail = 1..Len(trail) /\ Len(trail) \in Nat
    BY LenProperties DEF IInv, RowInv
  <2>3. Receives(u)
    BY <2>1, <2>2 DEF Receives, PendingTransfer
  <2>4. step \in {"accept", "reject"}
    BY <1>5 DEF answerButtons
  <2>5. QED
    BY <2>3, <2>4, AcceptedSteps
<1>6. CASE step \in artifactForm \cup downloadButtons \cup chainButton
  BY <1>6, AcceptedSteps DEF artifactForm, downloadButtons, chainButton, Readable
<1>7. QED
  BY <1>2, <1>3, <1>4, <1>5, <1>6 DEF Offered, NextSteps

(* It offers what the service accepts, answers and checks apart.           *)
LEMMA AcceptedOffered ==
  ASSUME NEW u, NEW step \in Accepted(u),
         step \notin {"completeAnalysis", "verify", "accept", "reject"}
  PROVE  step \in Offered(u)
<1> USE DEF CustodianMay, LegalTransition, ALLOWED_TRANSITIONS, Statuses
<1>0. step \in {"seal", "startAnalysis", "request", "return", "archive",
                "addArtifact", "download", "verifyChain"}
  BY DEF Accepted
<1>6. CASE step \in {"addArtifact", "download", "verifyChain"}
  BY <1>6, AcceptedSteps DEF Offered, artifactForm, downloadButtons, chainButton
<1>1. CASE step = "seal"
  <2>1. status = "REGISTERED" /\ custodian = u
    BY <1>1, AcceptedSteps
  <2>2. ACTION_BY_STATUS["REGISTERED"] \in forwardAction
    BY <2>1 DEF forwardAction, ACTION_BY_STATUS
  <2>3. QED
    BY <1>1, <2>1, <2>2 DEF forwardButton, isCustodian, ACTION_BY_STATUS, Offered,
         NextSteps
<1>2. CASE step = "startAnalysis"
  <2>1. status = "RECEIVED" /\ custodian = u
    BY <1>2, AcceptedSteps
  <2>2. ACTION_BY_STATUS["RECEIVED"] \in forwardAction
    BY <2>1 DEF forwardAction, ACTION_BY_STATUS
  <2>3. QED
    BY <1>2, <2>1, <2>2 DEF forwardButton, isCustodian, ACTION_BY_STATUS, Offered,
         NextSteps
<1>3. CASE step = "archive"
  <2>1. status = "RETURNED"
    BY <1>3, AcceptedSteps
  <2>2. ACTION_BY_STATUS["RETURNED"] \in forwardAction
    BY <2>1 DEF forwardAction, ACTION_BY_STATUS
  <2>3. QED
    BY <1>3, <2>1, <2>2 DEF forwardButton, isCustodian, ACTION_BY_STATUS, Offered,
         NextSteps
<1>4. CASE step = "request"
  <2>1. status = "IN_CUSTODY" /\ custodian = u /\ Members \ {u} # {}
    BY <1>4, AcceptedSteps
  <2>2. QED
    BY <1>4, <2>1 DEF transferForm, isCustodian, Offered, NextSteps
<1>5. CASE step = "return"
  <2>1. status = "IN_CUSTODY" /\ custodian = u
    BY <1>5, AcceptedSteps
  <2>2. QED
    BY <1>5, <2>1 DEF returnButton, isCustodian, Offered, NextSteps
<1>7. QED
  BY <1>0, <1>1, <1>2, <1>3, <1>4, <1>5, <1>6

(* Whoever holds the item, or was sent it, is offered the next step.       *)
LEMMA SomebodyGuided ==
  ASSUME IInv, TransitInv, status \notin {"NONE", "ARCHIVED"}, ~Blocked
  PROVE  \E u \in Users : NextSteps(u) # {}
<1>1. custodian \in Users /\ status \in Statuses
  BY DEF IInv, RowInv
<1>2. status \in {"REGISTERED", "SEALED", "IN_CUSTODY", "IN_TRANSIT", "RECEIVED",
                  "UNDER_ANALYSIS", "RETURNED"}
  BY <1>1 DEF Statuses, TransitInv
<1>3. CASE status \in DOMAIN ACTION_BY_STATUS
  <2>1. PICK a : a = ACTION_BY_STATUS[status]
    OBVIOUS
  <2>2. a \in forwardAction
    BY <1>3, <2>1 DEF forwardAction
  <2>3. a.step \in forwardButton(custodian)
    BY <2>2 DEF forwardButton, isCustodian
  <2>4. QED
    BY <1>1, <2>3 DEF NextSteps
<1>4. CASE status = "IN_CUSTODY"
  <2>1. "return" \in NextSteps(custodian)
    BY <1>4 DEF NextSteps, returnButton, isCustodian
  <2>2. QED
    BY <1>1, <2>1
<1>5. CASE status = "IN_TRANSIT"
  <2>1. PICK e : e = trail[Len(trail)]
    OBVIOUS
  <2>2. Len(trail) \in DOMAIN trail /\ IsRequest(e)
    BY <1>5, <2>1 DEF TransitInv
  <2>3. e \in CustodyEvents
    BY <2>1, <2>2, LenProperties, ElementOfSeq DEF IInv, RowInv
  <2>4. e.to \in Users
    BY <2>2, <2>3 DEF IsRequest, CustodyEvents
  <2>5. "accept" \in answerButtons(e.to)
    BY <2>1, <2>2 DEF answerButtons, pendingTransfer
  <2>6. QED
    BY <2>4, <2>5 DEF NextSteps
<1>6. QED
  BY <1>2, <1>3, <1>4, <1>5 DEF ACTION_BY_STATUS

\* Page and service agree, but for the form to add an artifact, which the page
\* offers to everybody and the service takes from the custodian; and as long as the
\* stored bytes are intact and no receipt was blocked, somebody is offered a
\* step that takes the item further until it is archived: however requests
\* overlap.
THEOREM GuideCorrect == Spec => []PageGuidesItem
<1>1. Init => HasArtifact /\ TransitInv
  BY DEF Init, HasArtifact, TransitInv
<1>2. IInv /\ HasArtifact /\ TransitInv => PageGuidesItem
  <2> SUFFICES ASSUME IInv, HasArtifact, TransitInv, status # "NONE"
               PROVE  /\ \A u \in Users :
                           /\ Offered(u) \ Accepted(u) \subseteq
                                (IF custodian = u THEN {} ELSE {"addArtifact"}) \cup
                                (IF Readable THEN {}
                                 ELSE {"verify", "accept", "download"})
                           /\ Accepted(u) \ {"completeAnalysis", "verify", "accept",
                                             "reject"}
                                \subseteq Offered(u)
                      /\ (Intact /\ ~Blocked /\ status # "ARCHIVED") =>
                           \E u \in Users : NextSteps(u) # {}
    BY DEF PageGuidesItem
  <2>1. QED
    BY OfferedAccepted, AcceptedOffered, SomebodyGuided
<1>3. IInv /\ HasArtifact /\ TransitInv /\ [Next]_vars => HasArtifact' /\ TransitInv'
  BY ArtifactStep, TransitStep
<1>4. QED
  BY <1>1, <1>2, <1>3, Invariance, PTL DEF Spec
=============================================================================
