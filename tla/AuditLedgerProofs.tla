------------------------- MODULE AuditLedgerProofs --------------------------
(***************************************************************************)
(* Proofs about AuditLedger for any set of requests, any set of rows and   *)
(* any pool size.                                                          *)
(***************************************************************************)
EXTENDS AuditLedger, TLAPS, SequenceTheorems

-----------------------------------------------------------------------------
(* The inductive invariant.                                                *)

\* The advisory lock has one holder.
LedgerLockInv ==
  \A r, s \in Requests :
    pc[r] \in HasLedgerLock /\ pc[s] \in HasLedgerLock => r = s

\* Every committed id has been drawn from the sequence, and ids have one
\* newest element as long as there is any.
IdInv ==
  /\ \A e \in audit : e.id < nextId
  /\ audit # {} => \E e \in audit : \A f \in audit \ {e} : f.id < e.id

\* While r holds the lock, the tail it read is still the tail and the id it
\* drew is still newer than all committed ones.
LinkInv ==
  \A r \in Requests :
    /\ pc[r] \in {"linked", "inserted"} => prev[r] = TailHash(audit)
    /\ pc[r] = "inserted" => /\ eid[r] < nextId
                             /\ \A e \in audit : e.id < eid[r]

\* Only finished requests have been recorded.
DoneInv ==
  \A i \in 1..Len(TailHash(audit)) : pc[TailHash(audit)[i].req] = "done"

\* No two events share an id, and an event that is not the newest has one
\* that comes right after it.
Follows(e, g) ==
  /\ e.id < g.id
  /\ \A f \in audit : e.id < f.id => g.id <= f.id

OrderInv ==
  /\ \A e, f \in audit : e.id = f.id => e = f
  /\ \A e, f \in audit : e.id < f.id => \E g \in audit : Follows(e, g)

\* What a committed row's hash covers is what its columns hold, but for the
\* spelling of the ids.
OriginInv ==
  \A e \in audit : \E x \in Content :
    /\ e.hash = Append(e.prev, x)
    /\ e.content = Stored(x)
    /\ x.spelt = "column" <=> x.req \notin Respelt

IInv == /\ TypeOK
        /\ LedgerLockInv
        /\ IdInv
        /\ OrderInv
        /\ LinkInv
        /\ DoneInv
        /\ OriginInv
        /\ Linked(audit)
        /\ LedgerExplainsData
        /\ AcknowledgedIsRecorded

-----------------------------------------------------------------------------
(* The newest row decides what SELECT ... ORDER BY id DESC LIMIT 1 finds.  *)
LEMMA TailHashIsNewest ==
  ASSUME NEW rows, NEW e \in rows,
         \A f \in rows : f.id \in Nat,
         \A f \in rows \ {e} : f.id < e.id
  PROVE  TailHash(rows) = e.hash
<1> DEFINE t == CHOOSE g \in rows : \A f \in rows : f.id <= g.id
<1>1. \A f \in rows : f.id <= e.id
  OBVIOUS
<1>2. t \in rows /\ \A f \in rows : f.id <= t.id
  BY <1>1
<1>3. t = e
  BY <1>2
<1>4. QED
  BY <1>3 DEF TailHash

(* The tail's hash is a hash.                                              *)
LEMMA TailHashType ==
  ASSUME TypeOK, IdInv
  PROVE  TailHash(audit) \in Hashes
<1>1. CASE audit = {}
  BY <1>1 DEF TailHash, NoHash, Hashes, Content
<1>2. CASE audit # {}
  <2>1. PICK e \in audit : \A f \in audit \ {e} : f.id < e.id
    BY <1>2 DEF IdInv
  <2>2. \A f \in audit : f.id \in Nat /\ f.hash \in Hashes
    BY DEF TypeOK
  <2>3. TailHash(audit) = e.hash
    BY <2>1, <2>2, TailHashIsNewest
  <2>4. QED
    BY <2>2, <2>3
<1>3. QED
  BY <1>1, <1>2

(* Reading an event back changes nothing but the spelling of its ids.      *)
LEMMA StoredContent ==
  ASSUME NEW x \in Content
  PROVE  /\ Stored(x) \in Content
         /\ Stored(x).req = x.req
         /\ Stored(x).row = x.row
         /\ Stored(x).spelt = "column"
         /\ Stored(x) = x <=> x.spelt = "column"
BY DEF Stored, Content

(* The event r inserts has the type of an event.                           *)
LEMMA EventType ==
  ASSUME TypeOK, NEW r \in Requests
  PROVE  /\ ContentOf(r) \in Content
         /\ EventOf(r) \in [id : Nat, prev : Hashes, hash : Hashes,
                            content : Content]
         /\ EventOf(r).id = eid[r]
         /\ EventOf(r).prev = prev[r]
         /\ EventOf(r).hash = Append(prev[r], ContentOf(r))
         /\ EventOf(r).content = Stored(ContentOf(r))
<1>1. ContentOf(r) \in Content
  BY DEF TypeOK, ContentOf, Content
<1>2. prev[r] \in Seq(Content) /\ eid[r] \in Nat
  BY DEF TypeOK, Hashes
<1>3. Append(prev[r], ContentOf(r)) \in Seq(Content)
  BY <1>1, <1>2, AppendProperties
<1>4. QED
  BY <1>1, <1>2, <1>3, StoredContent DEF EventOf, EventHash, Hashes

(* What COMMIT does to the chain: the committed event becomes the tail.    *)
LEMMA CommitExtendsChain ==
  ASSUME IInv, NEW r \in Requests, Commit(r)
  PROVE  /\ \A e \in audit : e.id < EventOf(r).id
         /\ TailHash(audit') = Append(TailHash(audit), ContentOf(r))
<1>1. pc[r] = "inserted" /\ audit' = audit \cup {EventOf(r)}
  BY DEF Commit, Step
<1>2. /\ \A e \in audit : e.id < EventOf(r).id
      /\ prev[r] = TailHash(audit)
  BY <1>1, EventType DEF IInv, LinkInv
<1>3. \A f \in audit' : f.id \in Nat
  BY <1>1, EventType DEF IInv, TypeOK
<1>4. \A f \in audit' \ {EventOf(r)} : f.id < EventOf(r).id
  BY <1>1, <1>2
<1>5. TailHash(audit') = EventOf(r).hash
  BY <1>1, <1>3, <1>4, TailHashIsNewest
<1>6. QED
  BY <1>2, <1>5, EventType DEF IInv

-----------------------------------------------------------------------------
(* Every variable keeps its type, whatever the requests do.                *)
LEMMA TypeStep == IInv /\ [Next]_vars => TypeOK'
<1> SUFFICES ASSUME IInv, [Next]_vars PROVE TypeOK'
  OBVIOUS
<1> USE DEF IInv
<1>1. ASSUME NEW r \in Requests, ReadTail(r) PROVE TypeOK'
  BY <1>1, TailHashType DEF ReadTail, Step, TypeOK, Phases
<1>2. ASSUME NEW r \in Requests, InsertEvent(r) PROVE TypeOK'
  BY <1>2 DEF InsertEvent, Step, TypeOK, Phases
<1>3. ASSUME NEW r \in Requests, Commit(r) PROVE TypeOK'
  <2>1. audit' \subseteq [id : Nat, prev : Hashes, hash : Hashes,
                          content : Content]
    BY <1>3, EventType DEF Commit, TypeOK
  <2>2. pc' \in [Requests -> Phases] /\ value' \in [Rows -> Requests \cup {Nobody}]
    BY <1>3 DEF Commit, Step, TypeOK, Phases
  <2>3. answer' \in [Requests -> {"none", "ok", "error"}]
    BY <1>3 DEF Commit, TypeOK
  <2>4. QED
    BY <1>3, <2>1, <2>2, <2>3 DEF Commit, TypeOK
<1>4. ASSUME NEW r \in Requests,
             \/ Arrive(r) \/ Connect(r) \/ ConnectTimeout(r) \/ WriteRow(r)
             \/ LockLedger(r) \/ Rollback(r)
      PROVE  TypeOK'
  BY <1>4 DEF Arrive, Connect, ConnectTimeout, WriteRow, LockLedger, Rollback,
              Step, TypeOK, Phases
<1>5. CASE Crash
  BY <1>5 DEF Crash, TypeOK, Phases
<1>6. CASE UNCHANGED vars
  BY <1>6 DEF vars, TypeOK
<1>7. QED
  BY <1>1, <1>2, <1>3, <1>4, <1>5, <1>6 DEF Next, Serve

(* At most one transaction holds the ledger lock.                          *)
LEMMA LockStep == IInv /\ [Next]_vars => LedgerLockInv'
<1> SUFFICES ASSUME IInv, [Next]_vars PROVE LedgerLockInv'
  OBVIOUS
<1> USE DEF IInv, TypeOK, LedgerLockInv, HasLedgerLock
<1>1. ASSUME NEW r \in Requests, LockLedger(r) PROVE LedgerLockInv'
  BY <1>1 DEF LockLedger, Step
<1>2. ASSUME NEW r \in Requests, Arrive(r) \/ Connect(r) \/ ConnectTimeout(r)
             \/ WriteRow(r) \/ ReadTail(r) \/ InsertEvent(r) \/ Commit(r)
      PROVE  LedgerLockInv'
  BY <1>2 DEF Arrive, Connect, ConnectTimeout, WriteRow, ReadTail, InsertEvent,
              Commit, Step
<1>3. ASSUME NEW r \in Requests, Rollback(r) PROVE LedgerLockInv'
  BY <1>3 DEF Rollback
<1>4. CASE Crash
  BY <1>4 DEF Crash
<1>5. CASE UNCHANGED vars
  BY <1>5 DEF vars
<1>6. QED
  BY <1>1, <1>2, <1>3, <1>4, <1>5 DEF Next, Serve

-----------------------------------------------------------------------------
(* Every step but COMMIT leaves the committed data alone.                  *)
LEMMA OnlyCommitWrites ==
  ASSUME [Next]_vars, \A r \in Requests : ~Commit(r)
  PROVE  UNCHANGED <<target, audit, value>>
BY DEF Next, Serve, vars, Arrive, Connect, ConnectTimeout, WriteRow, LockLedger,
       ReadTail, InsertEvent, Rollback, Crash

(* A finished request stays finished.                                      *)
LEMMA DoneIsFinal ==
  ASSUME TypeOK, [Next]_vars, NEW r \in Requests, pc[r] = "done"
  PROVE  pc'[r] = "done"
BY DEF Next, Serve, vars, Arrive, Connect, ConnectTimeout, WriteRow, LockLedger,
       ReadTail, InsertEvent, Commit, Rollback, Crash, Step, TypeOK,
       InTransaction, InFlight

(* Ids are drawn in increasing order.                                      *)
LEMMA IdStep == IInv /\ [Next]_vars => IdInv'
<1> SUFFICES ASSUME IInv, [Next]_vars PROVE IdInv'
  OBVIOUS
<1>1. ASSUME NEW r \in Requests, Commit(r) PROVE IdInv'
  <2>1. audit' = audit \cup {EventOf(r)} /\ nextId' = nextId
    BY <1>1 DEF Commit
  <2>2. EventOf(r).id < nextId /\ \A e \in audit : e.id < EventOf(r).id
    BY <1>1, EventType, CommitExtendsChain DEF IInv, LinkInv, Commit, Step
  <2>3. \A e \in audit : e.id < nextId
    BY DEF IInv, IdInv
  <2>4. QED
    BY <2>1, <2>2, <2>3 DEF IdInv
<1>2. CASE \A r \in Requests : ~Commit(r)
  <2>1. audit' = audit
    BY <1>2, OnlyCommitWrites
  <2>2. nextId' \in {nextId, nextId + 1}
    BY DEF Next, Serve, vars, Arrive, Connect, ConnectTimeout, WriteRow,
           LockLedger, ReadTail, InsertEvent, Commit, Rollback, Crash
  <2>3. \A e \in audit : e.id \in Nat
    BY DEF IInv, TypeOK
  <2>4. QED
    BY <2>1, <2>2, <2>3 DEF IInv, IdInv, TypeOK
<1>3. QED
  BY <1>1, <1>2

(* A new event comes right after the one that was the newest.              *)
LEMMA OrderStep == IInv /\ [Next]_vars => OrderInv'
<1> SUFFICES ASSUME IInv, [Next]_vars PROVE OrderInv'
  OBVIOUS
<1>1. /\ \A e, f \in audit : e.id = f.id => e = f
      /\ \A e, f \in audit : e.id < f.id => \E g \in audit : Follows(e, g)
  BY DEF IInv, OrderInv
<1>2. ASSUME NEW r \in Requests, Commit(r) PROVE OrderInv'
  <2>1. PICK ev : ev = EventOf(r)
    OBVIOUS
  <2>2. audit' = audit \cup {ev} /\ \A e \in audit : e.id < ev.id
    BY <1>2, <2>1, CommitExtendsChain DEF Commit
  <2>3. \A e \in audit' : e.id \in Nat
    BY <2>1, <2>2, EventType DEF IInv, TypeOK
  <2>4. \A e, f \in audit' : e.id = f.id => e = f
    BY <1>1, <2>2, <2>3
  <2>5. ASSUME NEW e \in audit', NEW f \in audit', e.id < f.id
        PROVE  \E g \in audit' : Follows(e, g)'
    <3>1. e \in audit
      BY <2>2, <2>3, <2>5
    <3>2. CASE \E h \in audit : e.id < h.id
      <4>1. PICK g \in audit : Follows(e, g)
        BY <1>1, <3>1, <3>2
      <4>2. Follows(e, g)'
        BY <2>2, <2>3, <4>1 DEF Follows
      <4>3. QED
        BY <2>2, <4>1, <4>2
    <3>3. CASE \A h \in audit : ~(e.id < h.id)
      <4>1. Follows(e, ev)'
        BY <2>2, <2>3, <3>1, <3>3 DEF Follows
      <4>2. QED
        BY <2>2, <4>1
    <3>4. QED
      BY <3>2, <3>3
  <2>6. QED
    BY <2>4, <2>5 DEF OrderInv
<1>3. CASE \A r \in Requests : ~Commit(r)
  <2>1. audit' = audit
    BY <1>3, OnlyCommitWrites
  <2>2. QED
    BY <1>1, <2>1 DEF OrderInv, Follows
<1>4. QED
  BY <1>2, <1>3

(* The lock holder's view of the tail cannot go stale.                     *)
LEMMA LinkStep == IInv /\ [Next]_vars => LinkInv'
<1> SUFFICES ASSUME IInv, [Next]_vars PROVE LinkInv'
  OBVIOUS
<1> USE DEF IInv, LinkInv, TypeOK
<1>1. ASSUME NEW r \in Requests, ReadTail(r) PROVE LinkInv'
  <2>1. audit' = audit /\ nextId' = nextId /\ eid' = eid
    BY <1>1 DEF ReadTail
  <2>2. prev'[r] = TailHash(audit') /\ pc'[r] = "linked"
    BY <1>1 DEF ReadTail, Step
  <2>3. \A q \in Requests \ {r} : prev'[q] = prev[q] /\ pc'[q] = pc[q]
    BY <1>1 DEF ReadTail, Step
  <2>4. QED
    BY <2>1, <2>2, <2>3
<1>2. ASSUME NEW r \in Requests, InsertEvent(r) PROVE LinkInv'
  BY <1>2 DEF InsertEvent, Step, IdInv
<1>3. ASSUME NEW r \in Requests, Commit(r) PROVE LinkInv'
  <2>1. pc[r] = "inserted" /\ pc' = [pc EXCEPT ![r] = "done"]
    BY <1>3 DEF Commit, Step
  <2>2. \A q \in Requests : pc'[q] \notin {"linked", "inserted"}
    BY <2>1 DEF LedgerLockInv, HasLedgerLock
  <2>3. QED
    BY <2>2
<1>4. ASSUME NEW r \in Requests,
             \/ Arrive(r) \/ Connect(r) \/ ConnectTimeout(r) \/ WriteRow(r)
             \/ LockLedger(r) \/ Rollback(r)
      PROVE  LinkInv'
  BY <1>4 DEF Arrive, Connect, ConnectTimeout, WriteRow, LockLedger, Rollback,
              Step
<1>5. CASE Crash
  BY <1>5 DEF Crash
<1>6. CASE UNCHANGED vars
  BY <1>6 DEF vars
<1>7. QED
  BY <1>1, <1>2, <1>3, <1>4, <1>5, <1>6 DEF Next, Serve

(* The hash of the tail covers finished requests only.                     *)
LEMMA DoneStep == IInv /\ [Next]_vars => DoneInv'
<1> SUFFICES ASSUME IInv, [Next]_vars PROVE DoneInv'
  OBVIOUS
<1>1. TailHash(audit) \in Seq(Content)
  BY TailHashType DEF IInv, Hashes
<1>2. \A i \in 1..Len(TailHash(audit)) :
        /\ TailHash(audit)[i].req \in Requests
        /\ pc'[TailHash(audit)[i].req] = "done"
  <2>1. TAKE i \in 1..Len(TailHash(audit))
  <2>2. TailHash(audit)[i] \in Content
    BY <1>1
  <2>3. TailHash(audit)[i].req \in Requests
    BY <2>2 DEF Content
  <2>4. pc[TailHash(audit)[i].req] = "done"
    BY DEF IInv, DoneInv
  <2>5. QED
    BY <2>3, <2>4, DoneIsFinal DEF IInv
<1>3. ASSUME NEW r \in Requests, Commit(r) PROVE DoneInv'
  <2>1. TailHash(audit') = Append(TailHash(audit), ContentOf(r))
    BY <1>3, CommitExtendsChain
  <2>2. ContentOf(r).req = r /\ pc'[r] = "done"
    BY <1>3 DEF ContentOf, Commit, Step, IInv, TypeOK
  <2>3. ContentOf(r) \in Content
    BY EventType DEF IInv
  <2>4. ASSUME NEW i \in 1..Len(TailHash(audit'))
        PROVE  pc'[TailHash(audit')[i].req] = "done"
    <3>1. CASE i \in 1..Len(TailHash(audit))
      BY <1>1, <1>2, <2>1, <2>3, <3>1, AppendProperties
    <3>2. CASE i = Len(TailHash(audit)) + 1
      BY <1>1, <2>1, <2>2, <2>3, <3>2, AppendProperties
    <3>3. QED
      BY <1>1, <2>1, <2>3, <3>1, <3>2, AppendProperties
  <2>5. QED
    BY <2>4 DEF DoneInv
<1>4. CASE \A r \in Requests : ~Commit(r)
  <2>1. TailHash(audit') = TailHash(audit)
    BY <1>4, OnlyCommitWrites
  <2>2. QED
    BY <1>2, <2>1 DEF DoneInv
<1>5. QED
  BY <1>3, <1>4

(* The chain stays linked.                                                 *)
LEMMA ChainStep == IInv /\ [Next]_vars => Linked(audit)'
<1> SUFFICES ASSUME IInv, [Next]_vars PROVE Linked(audit')
  BY DEF Linked
<1>1. ASSUME NEW r \in Requests, Commit(r) PROVE Linked(audit')
  <2> DEFINE ev == EventOf(r)
             Before(rows, e) == {f \in rows : f.id < e.id}
  <2>1. audit' = audit \cup {ev}
    BY <1>1 DEF Commit
  <2>2. \A e \in audit : e.id < ev.id
    BY <1>1, CommitExtendsChain
  <2>3. ev.prev = TailHash(audit)
    BY <1>1, EventType DEF IInv, LinkInv, Commit, Step
  <2>4. \A e \in audit' : e.id \in Nat
    BY <2>1, EventType DEF IInv, TypeOK
  <2>5. Before(audit', ev) = audit
    BY <2>1, <2>2, <2>4
  <2>6. \A e \in audit : Before(audit', e) = Before(audit, e)
    BY <2>1, <2>2, <2>4
  <2>7. \A e \in audit : e.prev = TailHash(Before(audit, e))
    BY DEF IInv, Linked
  <2> HIDE DEF ev
  <2>8. \A e \in audit' : e.prev = TailHash(Before(audit', e))
    BY <2>1, <2>3, <2>5, <2>6, <2>7
  <2>9. QED
    BY <2>8 DEF Linked
<1>2. CASE \A r \in Requests : ~Commit(r)
  BY <1>2, OnlyCommitWrites DEF IInv
<1>3. QED
  BY <1>1, <1>2

(* The event a request commits is the one it passed, read back.            *)
LEMMA OriginStep == IInv /\ [Next]_vars => OriginInv'
<1> SUFFICES ASSUME IInv, [Next]_vars PROVE OriginInv'
  OBVIOUS
<1>1. ASSUME NEW r \in Requests, Commit(r) PROVE OriginInv'
  <2>1. audit' = audit \cup {EventOf(r)}
    BY <1>1 DEF Commit
  <2>2. /\ ContentOf(r) \in Content
        /\ EventOf(r).hash = Append(EventOf(r).prev, ContentOf(r))
        /\ EventOf(r).content = Stored(ContentOf(r))
    BY EventType DEF IInv
  <2>3. ContentOf(r).spelt = "column" <=> ContentOf(r).req \notin Respelt
    BY DEF ContentOf
  <2>4. QED
    BY <2>1, <2>2, <2>3 DEF IInv, OriginInv
<1>2. CASE \A r \in Requests : ~Commit(r)
  BY <1>2, OnlyCommitWrites DEF IInv, OriginInv
<1>3. QED
  BY <1>1, <1>2

(* verifyChain reproduces a row's hash unless its ids were spelt otherwise. *)
LEMMA ReproducedRows ==
  ASSUME IInv, NEW e \in audit
  PROVE  Reproduced(e) <=> e.content.req \notin Respelt
<1>1. PICK x \in Content : /\ e.hash = Append(e.prev, x)
                           /\ e.content = Stored(x)
                           /\ x.spelt = "column" <=> x.req \notin Respelt
  BY DEF IInv, OriginInv
<1>2. e.prev \in Seq(Content) /\ Stored(x) \in Content
  BY StoredContent DEF IInv, TypeOK, Hashes
<1>3. Append(e.prev, x) = Append(e.prev, Stored(x)) <=> x = Stored(x)
  BY <1>2, AppendInjective
<1>4. Reproduced(e) <=> x = Stored(x)
  BY <1>1, <1>3 DEF Reproduced, EventHash
<1>5. Stored(x) = x <=> x.spelt = "column"
  BY StoredContent
<1>6. e.content.req = x.req
  BY <1>1, StoredContent
<1>7. QED
  BY <1>1, <1>4, <1>5, <1>6

(* The ledger keeps explaining the data.                                   *)
LEMMA DataStep == IInv /\ [Next]_vars => LedgerExplainsData'
<1> SUFFICES ASSUME IInv, [Next]_vars PROVE LedgerExplainsData'
  OBVIOUS
<1> DEFINE On(rows, x) == {e \in rows : e.content.row = x}
           Explained(rows, val, x) ==
             \/ val[x] = Nobody /\ On(rows, x) = {}
             \/ \E e \in On(rows, x) : /\ e.content.req = val[x]
                                     /\ \A f \in On(rows, x) : f.id <= e.id
<1>1. \A x \in Rows : Explained(audit, value, x)
  BY DEF IInv, LedgerExplainsData
<1>2. ASSUME NEW r \in Requests, Commit(r), NEW x \in Rows
      PROVE  Explained(audit', value', x)
  <2>1. audit' = audit \cup {EventOf(r)} /\ value' = [value EXCEPT ![target[r]] = r]
    BY <1>2 DEF Commit
  <2>2. /\ EventOf(r).content.row = target[r]
        /\ EventOf(r).content.req = r
        /\ EventOf(r).id \in Nat
    <3>1. /\ EventOf(r).content = Stored(ContentOf(r))
          /\ EventOf(r).id = eid[r]
          /\ ContentOf(r) \in Content
      BY EventType DEF IInv
    <3>2. QED
      BY <3>1, StoredContent DEF ContentOf, IInv, TypeOK
  <2>3. \A e \in audit : e.id \in Nat /\ e.id < EventOf(r).id
    BY <1>2, CommitExtendsChain DEF IInv, TypeOK
  <2>4. CASE x = target[r]
    <3>1. value'[x] = r
      BY <2>1, <2>4 DEF IInv, TypeOK
    <3>2. EventOf(r) \in On(audit', x)
      BY <2>1, <2>2, <2>4
    <3>3. \A f \in On(audit', x) : f.id <= EventOf(r).id
      BY <2>1, <2>2, <2>3
    <3>4. QED
      BY <2>2, <3>1, <3>2, <3>3
  <2>5. CASE x # target[r]
    <3>1. value'[x] = value[x]
      BY <2>1, <2>5 DEF IInv, TypeOK
    <3>2. On(audit', x) = On(audit, x)
      BY <2>1, <2>2, <2>5
    <3>3. QED
      BY <1>1, <3>1, <3>2
  <2>6. QED
    BY <2>4, <2>5
<1>3. ASSUME \A r \in Requests : ~Commit(r), NEW x \in Rows
      PROVE  Explained(audit', value', x)
  BY <1>1, <1>3, OnlyCommitWrites
<1>4. \A x \in Rows : Explained(audit', value', x)
  BY <1>2, <1>3
<1>5. QED
  BY <1>4 DEF LedgerExplainsData

(* Success is only ever reported for a recorded request.                   *)
LEMMA AnswerStep == IInv /\ [Next]_vars => AcknowledgedIsRecorded'
<1> SUFFICES ASSUME IInv, [Next]_vars, NEW s \in Requests, answer'[s] = "ok"
             PROVE  \E e \in audit' : e.content = Stored(ContentOf(s))'
  BY DEF AcknowledgedIsRecorded
<1>1. target' = target /\ Stored(ContentOf(s))' = Stored(ContentOf(s))
  BY DEF Next, Serve, vars, Arrive, Connect, ConnectTimeout, WriteRow,
         LockLedger, ReadTail, InsertEvent, Commit, Rollback, Crash, ContentOf,
         Stored
<1>2. ASSUME NEW r \in Requests, Commit(r)
      PROVE  \E e \in audit' : e.content = Stored(ContentOf(s))
  <2>1. audit' = audit \cup {EventOf(r)}
    BY <1>2 DEF Commit
  <2>2. CASE s = r
    BY <2>1, <2>2, EventType DEF IInv
  <2>3. CASE s # r
    <3>1. answer[s] = "ok"
      BY <1>2, <2>3 DEF Commit, IInv, TypeOK
    <3>2. QED
      BY <2>1, <3>1 DEF IInv, AcknowledgedIsRecorded
  <2>4. QED
    BY <2>2, <2>3
<1>3. CASE \A r \in Requests : ~Commit(r)
  <2>1. answer[s] = "ok"
    BY <1>3 DEF Next, Serve, vars, Arrive, Connect, ConnectTimeout, WriteRow,
       LockLedger, ReadTail, InsertEvent, Rollback, Crash, IInv, TypeOK
  <2>2. audit' = audit
    BY <1>3, OnlyCommitWrites
  <2>3. QED
    BY <1>1, <2>1, <2>2 DEF IInv, AcknowledgedIsRecorded
<1>4. QED
  BY <1>1, <1>2, <1>3

-----------------------------------------------------------------------------
(* What verifyChain finds when a stored row is altered or gone.            *)

(* A row's hash covers its columns.                                        *)
LEMMA AlteredRowIsFound ==
  ASSUME IInv, NEW e \in audit,
         NEW c \in {Stored(d) : d \in Content} \ {e.content}
  PROVE  ~Intact((audit \ {e}) \cup {[e EXCEPT !.content = c]})
<1>1. /\ e.prev \in Seq(Content)
      /\ e \in [id : Nat, prev : Hashes, hash : Hashes, content : Content]
  BY DEF IInv, TypeOK, Hashes
<1>2. PICK x \in Content : /\ e.hash = Append(e.prev, x)
                           /\ e.content = Stored(x)
  BY DEF IInv, OriginInv
<1>3. c \in Content /\ c.spelt = "column" /\ c # Stored(x)
  BY <1>2, StoredContent
<1>4. c # x
  BY <1>3, StoredContent
<1>5. PICK d : d = [e EXCEPT !.content = c]
  OBVIOUS
<1>6. d.prev = e.prev /\ d.hash = e.hash /\ d.content = c
  BY <1>1, <1>5
<1>7. Append(e.prev, c) # Append(e.prev, x)
  BY <1>1, <1>3, <1>4, AppendInjective
<1>8. ~Reproduced(d)
  BY <1>2, <1>6, <1>7 DEF Reproduced, EventHash
<1>9. d \in (audit \ {e}) \cup {[e EXCEPT !.content = c]}
  BY <1>5
<1>10. QED
  BY <1>8, <1>9 DEF Intact

(* The row after a missing one names a hash that no row left before it has. *)
LEMMA MissingRowIsFound ==
  ASSUME IInv, NEW e \in audit, NEW f \in audit, e.id < f.id
  PROVE  ~Intact(audit \ {e})
<1> DEFINE Before(rows, h) == {b \in rows : b.id < h.id}
<1>1. PICK g \in audit : Follows(e, g)
  BY DEF IInv, OrderInv
<1>2. /\ \A b \in audit : b.id \in Nat
      /\ \A b \in audit : b.id = e.id => b = e
      /\ e.prev \in Seq(Content)
  BY DEF IInv, OrderInv, TypeOK, Hashes
<1>3. g.id > e.id /\ g # e
  BY <1>1, <1>2 DEF Follows
<1>4. e \in Before(audit, g) /\ \A b \in Before(audit, g) \ {e} : b.id < e.id
  BY <1>1, <1>2, <1>3 DEF Follows
<1>5. TailHash(Before(audit, g)) = e.hash
  BY <1>2, <1>4, TailHashIsNewest
<1>6. /\ g.prev = TailHash(Before(audit, g))
      /\ e.prev = TailHash(Before(audit, e))
      /\ \E x \in Content : e.hash = Append(e.prev, x)
  BY DEF IInv, Linked, OriginInv
<1>7. Before(audit \ {e}, g) = Before(audit, e)
  <2>1. ASSUME NEW b \in Before(audit \ {e}, g) PROVE b \in Before(audit, e)
    BY <1>4, <2>1
  <2>2. ASSUME NEW b \in Before(audit, e) PROVE b \in Before(audit \ {e}, g)
    BY <1>2, <1>3, <2>2
  <2>3. QED
    BY <2>1, <2>2
<1>8. e.hash # e.prev
  BY <1>2, <1>6, AppendProperties, LenProperties
<1>9. g.prev # TailHash(Before(audit \ {e}, g))
  BY <1>5, <1>6, <1>7, <1>8
<1>10. QED
  BY <1>3, <1>9 DEF Intact, Linked

-----------------------------------------------------------------------------
(* No request has done anything yet.                                       *)
LEMMA InitIInv == Init => IInv
<1> SUFFICES ASSUME Init PROVE IInv
  OBVIOUS
<1>1. TypeOK
  <2>1. NoHash \in Hashes
    BY DEF NoHash, Hashes
  <2>2. QED
    BY <2>1 DEF Init, TypeOK, Phases
<1>2. TailHash(audit) = << >>
  BY DEF Init, TailHash, NoHash
<1>3. LedgerLockInv /\ IdInv /\ OrderInv /\ LinkInv
  BY DEF Init, LedgerLockInv, HasLedgerLock, IdInv, OrderInv, LinkInv
<1>4. DoneInv
  BY <1>2 DEF DoneInv
<1>5. Linked(audit) /\ OriginInv /\ AcknowledgedIsRecorded
  BY DEF Init, Linked, OriginInv, AcknowledgedIsRecorded
<1>6. LedgerExplainsData
  BY DEF Init, LedgerExplainsData
<1>7. QED
  BY <1>1, <1>3, <1>4, <1>5, <1>6 DEF IInv

(* The inductive invariant holds in every reachable state.                 *)
THEOREM Invariance == Spec => []IInv
<1>1. IInv /\ [Next]_vars => IInv'
  BY TypeStep, LockStep, IdStep, OrderStep, LinkStep, DoneStep, OriginStep,
     ChainStep, DataStep, AnswerStep DEF IInv
<1>2. QED
  BY InitIInv, <1>1, PTL DEF Spec

(* Every variable keeps its type.                                          *)
THEOREM TypeCorrect == Spec => []TypeOK
<1>1. IInv => TypeOK
  BY DEF IInv
<1>2. QED
  BY Invariance, <1>1, PTL

(* services/ledger: however many requests race, fail or are cut off, the   *)
(* committed events are linked in id order, and verifyChain reproduces the *)
(* hash of exactly those whose ids were spelt as the uuid columns return   *)
(* them: it reports the chain intact when there are no others.             *)
THEOREM ChainCorrect == Spec => []ChainIntact
<1>1. IInv => ChainIntact
  BY ReproducedRows DEF IInv, ChainIntact, Intact
<1>2. QED
  BY Invariance, <1>1, PTL

(* withTransaction: each row was last written by the request its newest    *)
(* audit event names; no write lacks its event and no event its write.     *)
THEOREM LedgerCorrect == Spec => []LedgerExplainsData
<1>1. IInv => LedgerExplainsData
  BY DEF IInv
<1>2. QED
  BY Invariance, <1>1, PTL

(* withTransaction: a caller told of success is in the ledger for good.    *)
THEOREM AcknowledgementCorrect == Spec => []AcknowledgedIsRecorded
<1>1. IInv => AcknowledgedIsRecorded
  BY DEF IInv
<1>2. QED
  BY Invariance, <1>1, PTL

(* services/ledger, GET /audit/verify: of every ledger the program can have *)
(* written, an altered row and a missing row with a successor are reported. *)
THEOREM AlterationCorrect == Spec => []AlterationDetected
<1>1. IInv => AlterationDetected
  <2> SUFFICES ASSUME IInv PROVE AlterationDetected
    OBVIOUS
  <2>1. ASSUME NEW e \in audit,
               NEW c \in {Stored(d) : d \in Content} \ {e.content}
        PROVE  ~Intact((audit \ {e}) \cup {[e EXCEPT !.content = c]})
    BY AlteredRowIsFound
  <2>2. ASSUME NEW e \in audit, NEW f \in audit, f.id > e.id
        PROVE  ~Intact(audit \ {e})
    <3>1. e.id < f.id
      BY <2>2 DEF IInv, TypeOK
    <3>2. QED
      BY <3>1, MissingRowIsFound
  <2>3. QED
    BY <2>1, <2>2 DEF AlterationDetected
<1>2. QED
  BY Invariance, <1>1, PTL

(* No step removes or rewrites a committed event; ids only grow.           *)
THEOREM AppendOnlyCorrect == Spec => AppendOnly
<1> DEFINE Grows == /\ audit \subseteq audit'
                    /\ \A e, f \in audit' \ audit : e = f
                    /\ \A e \in audit, f \in audit' \ audit : e.id < f.id
<1>1. IInv /\ [Next]_vars => [Grows]_vars
  <2> SUFFICES ASSUME IInv, [Next]_vars PROVE Grows
    OBVIOUS
  <2>1. ASSUME NEW r \in Requests, Commit(r) PROVE Grows
    BY <2>1, CommitExtendsChain DEF Commit
  <2>2. CASE \A r \in Requests : ~Commit(r)
    BY <2>2, OnlyCommitWrites
  <2>3. QED
    BY <2>1, <2>2
<1>2. QED
  BY Invariance, <1>1, PTL DEF Spec, AppendOnly

(* An appended event is one more entry of the log.                         *)
LEMMA EntriesAppend ==
  ASSUME NEW h \in Seq(Content), NEW x \in Content
  PROVE  /\ Entries(h) \in Seq([req : Requests, row : Rows])
         /\ Entries(Append(h, x)) = Append(Entries(h), [req |-> x.req, row |-> x.row])
<1> DEFINE T == [req : Requests, row : Rows]
           y == [req |-> x.req, row |-> x.row]
<1>1. \A i \in 1..Len(h) : h[i] \in Content
  OBVIOUS
<1>2. DOMAIN Entries(h) = 1..Len(h) /\ DOMAIN h = 1..Len(h) /\ Len(h) \in Nat
  BY DEF Entries
<1>3. \A i \in 1..Len(h) : [req |-> h[i].req, row |-> h[i].row] \in T
  BY <1>1 DEF Content
<1>4. Entries(h) \in Seq(T)
  <2>1. Entries(h) = [i \in 1..Len(h) |-> [req |-> h[i].req, row |-> h[i].row]]
    BY <1>2 DEF Entries
  <2>2. Entries(h) \in [1..Len(h) -> T]
    BY <1>3, <2>1
  <2>3. QED
    BY <1>2, <2>2, SeqDef
<1>5. y \in T
  BY DEF Content
<1>6. /\ Append(h, x) \in Seq(Content)
      /\ Len(Append(h, x)) = Len(h) + 1
      /\ \A i \in 1..Len(h) : Append(h, x)[i] = h[i]
      /\ Append(h, x)[Len(h) + 1] = x
  BY AppendProperties
<1>7. Entries(Append(h, x)) = [i \in 1..(Len(h) + 1) |->
         [req |-> Append(h, x)[i].req, row |-> Append(h, x)[i].row]]
  BY <1>6 DEF Entries
<1>8. /\ Len(Entries(h)) = Len(h)
      /\ Append(Entries(h), y) = [i \in 1..(Len(h) + 1) |->
            IF i <= Len(h) THEN Entries(h)[i] ELSE y]
  BY <1>2, <1>4, <1>5
<1>9. ASSUME NEW i \in 1..(Len(h) + 1)
      PROVE  [req |-> Append(h, x)[i].req, row |-> Append(h, x)[i].row]
               = IF i <= Len(h) THEN Entries(h)[i] ELSE y
  <2>1. CASE i \in 1..Len(h)
    BY <1>2, <1>6, <2>1 DEF Entries
  <2>2. CASE i = Len(h) + 1
    BY <1>2, <1>6, <2>2
  <2>3. QED
    BY <1>2, <2>1, <2>2
<1>10. QED
  BY <1>4, <1>7, <1>8, <1>9

(* The ledger implements the abstract log: each COMMIT is one Record step  *)
(* and every other step leaves log and data alone.                         *)
THEOREM Refinement == Spec => ImplementsLog
<1>1. Init => Log!LogInit
  BY DEF Init, Log!LogInit, TailHash, NoHash, Entries
<1>2. IInv /\ [Next]_vars => [Log!LogNext]_(Log!logVars)
  <2> SUFFICES ASSUME IInv, [Next]_vars PROVE [Log!LogNext]_(Log!logVars)
    OBVIOUS
  <2>1. ASSUME NEW r \in Requests, Commit(r) PROVE Log!LogNext
    <3>1. Entries(TailHash(audit'))
            = Append(Entries(TailHash(audit)), [req |-> r, row |-> target[r]])
      <4>1. TailHash(audit') = Append(TailHash(audit), ContentOf(r))
        BY <2>1, CommitExtendsChain
      <4>2. TailHash(audit) \in Seq(Content) /\ ContentOf(r) \in Content
        BY TailHashType, EventType DEF IInv, Hashes
      <4>3. ContentOf(r).req = r /\ ContentOf(r).row = target[r]
        BY DEF ContentOf
      <4>4. QED
        BY <4>1, <4>2, <4>3, EntriesAppend
    <3>2. target[r] \in Rows /\ value' = [value EXCEPT ![target[r]] = r]
      BY <2>1 DEF Commit, IInv, TypeOK
    <3>3. \A i \in 1..Len(Entries(TailHash(audit))) :
            Entries(TailHash(audit))[i].req # r
      <4>1. \A i \in 1..Len(TailHash(audit)) : TailHash(audit)[i].req # r
        BY <2>1 DEF IInv, DoneInv, Commit, Step
      <4>2. TailHash(audit) \in Seq(Content)
        BY TailHashType DEF IInv, Hashes
      <4>3. QED
        BY <4>1, <4>2 DEF Entries
    <3>4. Log!Record(r, target[r])
      BY <3>1, <3>2, <3>3 DEF Log!Record
    <3>5. QED
      BY <3>2, <3>4 DEF Log!LogNext
  <2>2. CASE \A r \in Requests : ~Commit(r)
    BY <2>2, OnlyCommitWrites DEF Log!logVars
  <2>3. QED
    BY <2>1, <2>2
<1>3. QED
  BY Invariance, <1>1, <1>2, PTL DEF Spec, ImplementsLog, Log!LogSpec
=============================================================================
