------------------------ MODULE CustodyLedgerProofs -------------------------
(***************************************************************************)
(* Proofs about CustodyLedger for any set of requests, items, spellings,   *)
(* ids and times.  Types are kept whatever the clock does.  The rest is    *)
(* for a clock of which no two readings are equal or go backwards: without *)
(* one a chain need not verify, as TLC's run of MCCustodyLedgerClock.cfg   *)
(* shows.                                                                  *)
(***************************************************************************)
EXTENDS CustodyLedger, TLAPS, SequenceTheorems

-----------------------------------------------------------------------------
(* The invariant that needs no clock.                                      *)

\* A row that waits for its COMMIT is the one its request inserted.
PendingInv ==
  \A r \in Requests :
    pc[r] = "inserted" => /\ row[r] \in Row
                          /\ row[r].item = item[r]
                          /\ row[r].event = r
                          /\ row[r].hash = EventHash(AsPassed(r), row[r].prev)

\* Every row has an id of its own.
IdInv ==
  /\ \A e, f \in rows : e.id = f.id => e = f
  /\ \A r \in Requests : pc[r] = "inserted" => \A e \in rows : e.id # row[r].id
  /\ \A r, s \in Requests :
       pc[r] = "inserted" /\ pc[s] = "inserted" /\ row[r].id = row[s].id => r = s

\* A chain that has rows has a last one.
LastInv ==
  \A i \in Items :
    ChainOf(i) # {} =>
      \E e \in ChainOf(i) : \A f \in ChainOf(i) \ {e} : Before(f, e)

BaseInv == TypeOK /\ PendingInv /\ IdInv /\ LastInv

-----------------------------------------------------------------------------
(* The invariant under a strict clock.                                     *)

\* Requests that append to one chain at a time have updated different rows
\* and have spelt the item's id differently.
ChainLockInv ==
  \A r, s \in Requests :
    pc[r] \in HasChainLock /\ pc[s] \in HasChainLock /\ item[r] = item[s] /\ r # s
      => Updates[r] \cap Updates[s] = {} /\ EvidenceId[r] # EvidenceId[s]

\* No row is younger than the latest reading of the clock.
ClockInv ==
  /\ \A e \in rows : e.at <= clock
  /\ \A r \in Requests : pc[r] = "inserted" => row[r].at <= clock

\* The hash of a committed row covers its event as it was passed.
HashInv == \A e \in rows : e.hash = EventHash(AsPassed(e.event), e.prev)

\* All events of item i's chain were passed as the database returns them.
Plain(i) == \A e \in ChainOf(i) : e.event \in AsStored

\* In such a chain, the tail that a request of this kind has read is still
\* the tail, and the row it has inserted is younger than all others.
LinkInv ==
  \A r \in AsStored :
    Plain(item[r]) =>
      /\ pc[r] = "linked" => prev[r] = TailHash(ChainOf(item[r]))
      /\ pc[r] = "inserted" =>
           /\ row[r].prev = TailHash(ChainOf(item[r]))
           /\ \A e \in ChainOf(item[r]) : e.at < row[r].at

ChainInv == \A i \in Items : Plain(i) => VerifyChain(ChainOf(i))

\* A transfer that waits for its COMMIT is younger than its item's others.
TransferInv ==
  \A r \in Transfers :
    pc[r] = "inserted" =>
      \A e \in ChainOf(item[r]) : e.event \in Transfers => e.at < row[r].at

IInv == /\ BaseInv
        /\ ChainLockInv
        /\ ClockInv
        /\ HashInv
        /\ LinkInv
        /\ ChainInv
        /\ TransferInv
        /\ NewestTransferFound

-----------------------------------------------------------------------------
(* Rows have natural times and ids and hashes of events.                   *)
LEMMA RowTypes ==
  ASSUME NEW e \in Row
  PROVE  /\ e.at \in Nat /\ e.id \in Nat
         /\ e.item \in Items /\ e.event \in Requests
         /\ e.prev \in Hashes /\ e.hash \in Hashes
BY TimesAssumption, UuidsAssumption DEF Row

(* What a hash covers is an event.                                         *)
LEMMA PassedTypes ==
  ASSUME NEW r \in Requests
  PROVE  /\ AsPassed(r) \in [event : Requests, spelt : {"column", "otherwise"}]
         /\ AsRead(r) \in [event : Requests, spelt : {"column", "otherwise"}]
         /\ AsPassed(r) = AsRead(r) <=> r \in AsStored
BY DEF AsPassed, AsRead

(* The row that comes after all others is the one that                     *)
(* ORDER BY created_at DESC, id DESC LIMIT 1 finds.                        *)
LEMMA TailHashIsLast ==
  ASSUME NEW chain, NEW e \in chain,
         \A f \in chain : f.at \in Nat /\ f.id \in Nat,
         \A f \in chain \ {e} : Before(f, e)
  PROVE  TailHash(chain) = e.hash
<1> DEFINE t == CHOOSE g \in chain : \A f \in chain \ {g} : Before(f, g)
<1>1. t \in chain /\ \A f \in chain \ {t} : Before(f, t)
  OBVIOUS
<1>2. t = e
  <2>1. SUFFICES ASSUME t # e PROVE FALSE
    OBVIOUS
  <2>2. Before(e, t) /\ Before(t, e)
    BY <1>1, <2>1
  <2>3. t.at \in Nat /\ e.at \in Nat /\ t.id \in Nat /\ e.id \in Nat
    BY <1>1
  <2>4. QED
    BY <2>2, <2>3 DEF Before
<1>3. QED
  BY <1>2 DEF TailHash

(* The hash of an item's tail is a hash.                                   *)
LEMMA TailHashType ==
  ASSUME TypeOK, LastInv, NEW i \in Items
  PROVE  TailHash(ChainOf(i)) \in Hashes
<1>1. \A f \in ChainOf(i) : f \in Row
  BY DEF ChainOf, TypeOK
<1>2. CASE ChainOf(i) = {}
  BY <1>2 DEF TailHash, NoHash, Hashes
<1>3. CASE ChainOf(i) # {}
  <2>1. PICK e \in ChainOf(i) : \A f \in ChainOf(i) \ {e} : Before(f, e)
    BY <1>3 DEF LastInv
  <2>2. TailHash(ChainOf(i)) = e.hash
    BY <1>1, <2>1, TailHashIsLast, RowTypes
  <2>3. QED
    BY <1>1, <2>1, <2>2, RowTypes
<1>4. QED
  BY <1>2, <1>3

(* What COMMIT does: one chain grows by the row of the request.            *)
LEMMA CommitExtendsChain ==
  ASSUME BaseInv, NEW r \in Requests, Commit(r)
  PROVE  /\ row[r] \in Row
         /\ row[r].item = item[r]
         /\ row[r].event = r
         /\ rows' = rows \cup {row[r]}
         /\ ChainOf(item[r])' = ChainOf(item[r]) \cup {row[r]}
         /\ \A i \in Items \ {item[r]} : ChainOf(i)' = ChainOf(i)
         /\ item[r] \in Items
<1>1. pc[r] = "inserted" /\ rows' = rows \cup {row[r]} /\ item' = item
  BY DEF Commit, Step
<1>2. row[r] \in Row /\ row[r].item = item[r] /\ row[r].event = r
  BY <1>1 DEF BaseInv, PendingInv
<1>3. item[r] \in Items
  BY DEF BaseInv, TypeOK
<1>4. QED
  BY <1>1, <1>2, <1>3 DEF ChainOf

(* Only COMMIT changes the committed rows and what moves.                  *)
LEMMA OnlyCommitWrites ==
  ASSUME [Next]_vars, ~ \E r \in Requests : Commit(r)
  PROVE  /\ rows' = rows /\ moving' = moving
         /\ \A i \in Items : ChainOf(i)' = ChainOf(i)
BY DEF Next, vars, LockChain, ReadTail, InsertEvent, Rollback, ChainOf

(* What INSERT does: the request's row has a new id and a new reading.     *)
LEMMA InsertMakesRow ==
  ASSUME TypeOK, NEW r \in Requests, InsertEvent(r)
  PROVE  /\ row'[r] \in Row
         /\ row'[r].item = item[r] /\ row'[r].event = r
         /\ row'[r].prev = prev[r]
         /\ row'[r].hash = EventHash(AsPassed(r), prev[r])
         /\ row'[r].at = clock' /\ (StrictClock => clock' > clock)
         /\ clock' \in Times
         /\ \A e \in rows : e.id # row'[r].id
         /\ \A s \in Requests : pc[s] = "inserted" => row[s].id # row'[r].id
         /\ \A s \in Requests \ {r} : row'[s] = row[s]
         /\ row' \in [Requests -> {NoHash} \cup Row]
         /\ pc[r] = "linked" /\ pc' = [pc EXCEPT ![r] = "inserted"]
         /\ UNCHANGED <<item, prev, rows, moving>>
<1>1. PICK t \in Times, u \in Uuids :
        /\ StrictClock => t > clock
        /\ \A e \in rows : e.id # u
        /\ \A s \in Requests : pc[s] = "inserted" => row[s].id # u
        /\ clock' = t
        /\ row' = [row EXCEPT ![r] =
                    [id |-> u, at |-> t, item |-> item[r], event |-> r,
                     prev |-> prev[r], hash |-> EventHash(AsPassed(r), prev[r])]]
  BY DEF InsertEvent
<1>2. prev[r] \in Hashes /\ item[r] \in Items /\ row \in [Requests -> {NoHash} \cup Row]
  BY DEF TypeOK
<1>3. EventHash(AsPassed(r), prev[r]) \in Hashes
  BY <1>2, PassedTypes, AppendProperties DEF EventHash, Hashes
<1>4. [id |-> u, at |-> t, item |-> item[r], event |-> r,
       prev |-> prev[r], hash |-> EventHash(AsPassed(r), prev[r])] \in Row
  BY <1>2, <1>3 DEF Row
<1>5. row'[r] = [id |-> u, at |-> t, item |-> item[r], event |-> r,
                 prev |-> prev[r], hash |-> EventHash(AsPassed(r), prev[r])]
  BY <1>1, <1>2
<1>6. pc[r] = "linked" /\ pc' = [pc EXCEPT ![r] = "inserted"]
      /\ UNCHANGED <<item, prev, rows, moving>>
  BY DEF InsertEvent, Step
<1>7. row' \in [Requests -> {NoHash} \cup Row] /\ \A s \in Requests \ {r} : row'[s] = row[s]
  BY <1>1, <1>2, <1>4
<1>8. QED
  BY <1>1, <1>4, <1>5, <1>6, <1>7

-----------------------------------------------------------------------------
(* The base invariant is inductive.                                        *)

(* Each step keeps every variable's type.                                  *)
LEMMA TypeStep == BaseInv /\ [Next]_vars => TypeOK'
<1> SUFFICES ASSUME BaseInv, [Next]_vars PROVE TypeOK'
  OBVIOUS
<1>0. TypeOK
  BY DEF BaseInv
<1>1. ASSUME NEW r \in Requests, LockChain(r) \/ Rollback(r) PROVE TypeOK'
  BY <1>0, <1>1 DEF LockChain, Rollback, Step, TypeOK
<1>2. ASSUME NEW r \in Requests, ReadTail(r) PROVE TypeOK'
  <2>1. TailHash(ChainOf(item[r])) \in Hashes
    BY <1>0, TailHashType DEF BaseInv, TypeOK
  <2>2. QED
    BY <1>0, <1>2, <2>1 DEF ReadTail, Step, TypeOK
<1>3. ASSUME NEW r \in Requests, InsertEvent(r) PROVE TypeOK'
  BY <1>0, <1>3, InsertMakesRow DEF TypeOK
<1>4. ASSUME NEW r \in Requests, Commit(r) PROVE TypeOK'
  <2>1. row[r] \in Row /\ item[r] \in Items
    BY <1>4, CommitExtendsChain
  <2>2. moving' \in [Items -> SUBSET Transfers]
    BY <1>0, <1>4, <2>1 DEF Commit, TypeOK
  <2>3. QED
    BY <1>0, <1>4, <2>1, <2>2 DEF Commit, Step, TypeOK
<1>5. CASE UNCHANGED vars
  BY <1>0, <1>5 DEF vars, TypeOK
<1>6. QED
  BY <1>1, <1>2, <1>3, <1>4, <1>5 DEF Next

(* A row waits unchanged for its COMMIT.                                   *)
LEMMA PendingStep == BaseInv /\ [Next]_vars => PendingInv'
<1> SUFFICES ASSUME BaseInv, [Next]_vars, NEW s \in Requests, pc'[s] = "inserted"
             PROVE  /\ row'[s] \in Row
                    /\ row'[s].item = item'[s]
                    /\ row'[s].event = s
                    /\ row'[s].hash = EventHash(AsPassed(s), row'[s].prev)
  BY DEF PendingInv
<1> USE DEF BaseInv
<1>1. CASE pc[s] = "inserted" /\ row'[s] = row[s] /\ item' = item
  BY <1>1 DEF PendingInv
<1>2. ASSUME NEW r \in Requests, InsertEvent(r), s = r
      PROVE  /\ row'[s] \in Row
             /\ row'[s].item = item'[s]
             /\ row'[s].event = s
             /\ row'[s].hash = EventHash(AsPassed(s), row'[s].prev)
  BY <1>2, InsertMakesRow
<1>3. ASSUME NEW r \in Requests, InsertEvent(r), s # r
      PROVE  pc[s] = "inserted" /\ row'[s] = row[s] /\ item' = item
  BY <1>3, InsertMakesRow DEF TypeOK
<1>4. ASSUME NEW r \in Requests,
             LockChain(r) \/ ReadTail(r) \/ Commit(r) \/ Rollback(r)
      PROVE  pc[s] = "inserted" /\ row'[s] = row[s] /\ item' = item
  BY <1>4 DEF LockChain, ReadTail, Commit, Rollback, Step, TypeOK
<1>5. CASE UNCHANGED vars
  BY <1>1, <1>5 DEF vars
<1>6. QED
  BY <1>1, <1>2, <1>3, <1>4, <1>5 DEF Next

(* An id is given once.                                                    *)
LEMMA IdStep == BaseInv /\ [Next]_vars => IdInv'
<1> SUFFICES ASSUME BaseInv, [Next]_vars PROVE IdInv'
  OBVIOUS
<1> USE DEF BaseInv
<1>1. ASSUME NEW r \in Requests, InsertEvent(r) PROVE IdInv'
  BY <1>1, InsertMakesRow DEF IdInv, TypeOK
<1>2. ASSUME NEW r \in Requests, Commit(r) PROVE IdInv'
  <2>1. /\ pc[r] = "inserted" /\ pc' = [pc EXCEPT ![r] = "done"]
        /\ row' = row /\ rows' = rows \cup {row[r]}
    BY <1>2 DEF Commit, Step
  <2>2. QED
    BY <2>1 DEF IdInv, TypeOK
<1>3. ASSUME NEW r \in Requests, LockChain(r) \/ ReadTail(r) \/ Rollback(r)
      PROVE  IdInv'
  BY <1>3 DEF LockChain, ReadTail, Rollback, Step, IdInv, TypeOK
<1>4. CASE UNCHANGED vars
  BY <1>4 DEF vars, IdInv
<1>5. QED
  BY <1>1, <1>2, <1>3, <1>4 DEF Next

(* A chain and one more row have a last row, as rows are totally ordered.  *)
LEMMA LastStep == BaseInv /\ [Next]_vars => LastInv'
<1> SUFFICES ASSUME BaseInv, [Next]_vars, NEW i \in Items, ChainOf(i)' # {}
             PROVE  \E e \in ChainOf(i)' : \A f \in ChainOf(i)' \ {e} : Before(f, e)
  BY DEF LastInv, ChainOf, Before
<1>1. ASSUME NEW r \in Requests, Commit(r), i = item[r]
      PROVE  \E e \in ChainOf(i)' : \A f \in ChainOf(i)' \ {e} : Before(f, e)
  <2> DEFINE n == row[r]
  <2>1. item' = item /\ pc[r] = "inserted"
    BY <1>1 DEF Commit, Step
  <2>2. ChainOf(i)' = ChainOf(i) \cup {n} /\ n \in Row
    BY <1>1, <2>1, CommitExtendsChain DEF ChainOf
  <2>3. \A f \in ChainOf(i) : f \in Row /\ f.id # n.id
    BY <2>1 DEF BaseInv, TypeOK, IdInv, ChainOf
  <2>4. /\ n.at \in Nat /\ n.id \in Nat
        /\ \A f \in ChainOf(i) : f.at \in Nat /\ f.id \in Nat
    BY <2>2, <2>3, RowTypes
  <2> HIDE DEF n
  <2>5. CASE ChainOf(i) = {}
    BY <2>2, <2>5
  <2>6. CASE ChainOf(i) # {}
    <3>1. PICK e \in ChainOf(i) : \A f \in ChainOf(i) \ {e} : Before(f, e)
      BY <2>6 DEF BaseInv, LastInv
    <3>2. CASE Before(n, e)
      BY <2>2, <3>1, <3>2
    <3>3. CASE ~Before(n, e)
      <4>1. Before(e, n)
        BY <2>3, <2>4, <3>3 DEF Before
      <4>2. \A f \in ChainOf(i) : Before(f, n)
        BY <2>4, <3>1, <4>1 DEF Before
      <4>3. QED
        BY <2>2, <4>2
    <3>4. QED
      BY <3>2, <3>3
  <2>7. QED
    BY <2>5, <2>6
<1>2. CASE ChainOf(i)' = ChainOf(i)
  BY <1>2 DEF BaseInv, LastInv
<1>3. ASSUME NEW r \in Requests, Commit(r), i # item[r]
      PROVE  ChainOf(i)' = ChainOf(i)
  BY <1>3, CommitExtendsChain
<1>4. CASE ~ \E r \in Requests : Commit(r)
  BY <1>2, <1>4, OnlyCommitWrites
<1>5. QED
  BY <1>1, <1>2, <1>3, <1>4
-----------------------------------------------------------------------------
(* One lemma for each conjunct of the invariant under a strict clock.      *)

(* No two requests append to one chain that the locks keep apart.          *)
LEMMA LockStep == IInv /\ [Next]_vars => ChainLockInv'
<1> SUFFICES ASSUME IInv, [Next]_vars PROVE ChainLockInv'
  OBVIOUS
<1> USE DEF IInv, BaseInv, ChainLockInv, HasChainLock
<1>1. ASSUME NEW r \in Requests, LockChain(r) PROVE ChainLockInv'
  BY <1>1 DEF LockChain, Appending, Step, TypeOK
<1>2. ASSUME NEW r \in Requests,
             ReadTail(r) \/ InsertEvent(r) \/ Commit(r) \/ Rollback(r)
      PROVE  ChainLockInv'
  BY <1>2 DEF ReadTail, InsertEvent, Commit, Rollback, Step, TypeOK
<1>3. CASE UNCHANGED vars
  BY <1>3 DEF vars
<1>4. QED
  BY <1>1, <1>2, <1>3 DEF Next

(* INSERT takes the latest reading, and COMMIT adds a row that has one.    *)
LEMMA ClockStep == IInv /\ StrictClock /\ [Next]_vars => ClockInv'
<1> SUFFICES ASSUME IInv, StrictClock, [Next]_vars PROVE ClockInv'
  OBVIOUS
<1>1. /\ clock \in Nat
      /\ \A e \in rows : e.at \in Nat
      /\ \A s \in Requests : pc[s] = "inserted" => row[s].at \in Nat
  BY TimesAssumption, RowTypes DEF IInv, BaseInv, TypeOK, PendingInv
<1>2. ASSUME NEW r \in Requests, InsertEvent(r) PROVE ClockInv'
  <2>1. /\ clock' \in Nat /\ clock' > clock /\ rows' = rows
        /\ row'[r].at = clock' /\ \A s \in Requests \ {r} : row'[s] = row[s]
        /\ pc' = [pc EXCEPT ![r] = "inserted"]
    BY <1>2, InsertMakesRow, TimesAssumption DEF IInv, BaseInv
  <2>2. \A s \in Requests : pc'[s] = "inserted" => row'[s].at <= clock'
    <3>1. TAKE s \in Requests
    <3>2. CASE s = r
      BY <2>1, <3>2
    <3>3. CASE s # r
      BY <1>1, <2>1, <3>3 DEF IInv, BaseInv, TypeOK, ClockInv
    <3>4. QED
      BY <3>2, <3>3
  <2>3. QED
    BY <1>1, <2>1, <2>2 DEF IInv, ClockInv
<1>3. ASSUME NEW r \in Requests, Commit(r) PROVE ClockInv'
  <2>1. /\ pc[r] = "inserted" /\ pc' = [pc EXCEPT ![r] = "done"]
        /\ clock' = clock /\ row' = row /\ rows' = rows \cup {row[r]}
    BY <1>3 DEF Commit, Step
  <2>2. QED
    BY <2>1 DEF IInv, BaseInv, TypeOK, ClockInv
<1>4. ASSUME NEW r \in Requests, LockChain(r) \/ ReadTail(r) \/ Rollback(r)
      PROVE  ClockInv'
  BY <1>4 DEF LockChain, ReadTail, Rollback, Step, IInv, BaseInv, TypeOK, ClockInv
<1>5. CASE UNCHANGED vars
  BY <1>5 DEF vars, IInv, ClockInv
<1>6. QED
  BY <1>2, <1>3, <1>4, <1>5 DEF Next

(* COMMIT adds a row whose hash covers its event as it was passed.         *)
LEMMA HashStep == IInv /\ [Next]_vars => HashInv'
<1> SUFFICES ASSUME IInv, [Next]_vars PROVE HashInv'
  OBVIOUS
<1>1. ASSUME NEW r \in Requests, Commit(r) PROVE HashInv'
  <2>1. rows' = rows \cup {row[r]} /\ row[r].event = r /\ pc[r] = "inserted"
    BY <1>1, CommitExtendsChain DEF IInv, Commit, Step
  <2>2. row[r].hash = EventHash(AsPassed(row[r].event), row[r].prev)
    BY <2>1 DEF IInv, BaseInv, PendingInv
  <2>3. QED
    BY <2>1, <2>2 DEF IInv, HashInv
<1>2. CASE ~ \E r \in Requests : Commit(r)
  BY <1>2, OnlyCommitWrites DEF IInv, HashInv
<1>3. QED
  BY <1>1, <1>2

(* A row that is committed while another request appends to the chain was  *)
(* passed under an id spelt otherwise, unless that request's was.          *)
LEMMA CommitBetween ==
  ASSUME IInv, NEW r \in Requests, Commit(r),
         NEW s \in AsStored, s # r, pc[s] \in HasChainLock, item[s] = item[r]
  PROVE  r \notin AsStored
<1>1. pc[r] \in HasChainLock
  BY DEF Commit, Step, HasChainLock
<1>2. EvidenceId[r] # EvidenceId[s]
  BY <1>1 DEF IInv, ChainLockInv, AsStored
<1>3. QED
  BY <1>2 DEF AsStored

(* Nothing disturbs the tail that a lock holder has linked to, as long as  *)
(* all events of the chain are passed as the database returns them.        *)
LEMMA LinkStep == IInv /\ StrictClock /\ [Next]_vars => LinkInv'
<1> SUFFICES ASSUME IInv, StrictClock, [Next]_vars PROVE LinkInv'
  OBVIOUS
<1>0. item' = item /\ \A i : ChainOf(i)' = {e \in rows' : e.item = i}
  BY DEF Next, vars, LockChain, ReadTail, InsertEvent, Commit, Rollback, ChainOf
<1> DEFINE Linked(s) ==
      /\ pc'[s] = "linked" => prev'[s] = TailHash(ChainOf(item[s])')
      /\ pc'[s] = "inserted" =>
           /\ row'[s].prev = TailHash(ChainOf(item[s])')
           /\ \A e \in ChainOf(item[s])' : e.at < row'[s].at
<1> SUFFICES ASSUME NEW s \in AsStored,
                    \A e \in ChainOf(item[s])' : e.event \in AsStored
             PROVE  Linked(s)
  BY <1>0 DEF LinkInv, Plain, ChainOf, TailHash, Before
<1>s. s \in Requests /\ item[s] \in Items
  BY DEF AsStored, IInv, BaseInv, TypeOK
<1>1. ASSUME ChainOf(item[s])' = ChainOf(item[s])
      PROVE  /\ pc[s] = "linked" => prev[s] = TailHash(ChainOf(item[s]))
             /\ pc[s] = "inserted" =>
                  /\ row[s].prev = TailHash(ChainOf(item[s]))
                  /\ \A e \in ChainOf(item[s]) : e.at < row[s].at
  BY <1>1 DEF IInv, LinkInv, Plain
<1>2. ASSUME NEW r \in Requests, ReadTail(r) PROVE Linked(s)
  <2>1. /\ ChainOf(item[s])' = ChainOf(item[s]) /\ row' = row
        /\ prev' = [prev EXCEPT ![r] = TailHash(ChainOf(item[r]))]
        /\ pc' = [pc EXCEPT ![r] = "linked"]
    BY <1>2 DEF ReadTail, Step, ChainOf
  <2>2. CASE s = r
    BY <1>s, <2>1, <2>2 DEF IInv, BaseInv, TypeOK
  <2>3. CASE s # r
    <3>1. prev'[s] = prev[s] /\ pc'[s] = pc[s]
      BY <1>s, <2>1, <2>3 DEF IInv, BaseInv, TypeOK
    <3>2. QED
      BY <1>1, <2>1, <3>1
  <2>4. QED
    BY <2>2, <2>3
<1>3. ASSUME NEW r \in Requests, InsertEvent(r) PROVE Linked(s)
  <2>1. ChainOf(item[s])' = ChainOf(item[s]) /\ prev' = prev
    BY <1>3 DEF InsertEvent, ChainOf
  <2>2. /\ row'[r].prev = prev[r] /\ row'[r].at = clock' /\ clock' > clock
        /\ clock' \in Nat /\ pc[r] = "linked"
        /\ pc' = [pc EXCEPT ![r] = "inserted"]
        /\ \A q \in Requests \ {r} : row'[q] = row[q]
    BY <1>3, InsertMakesRow, TimesAssumption DEF IInv, BaseInv
  <2>3. CASE s = r
    <3>1. prev[s] = TailHash(ChainOf(item[s]))
      BY <1>1, <2>1, <2>2, <2>3
    <3>2. \A e \in ChainOf(item[s]) : e.at \in Nat /\ e.at <= clock
      BY RowTypes DEF IInv, BaseInv, TypeOK, ClockInv, ChainOf
    <3>3. clock \in Nat
      BY TimesAssumption DEF IInv, BaseInv, TypeOK
    <3>4. \A e \in ChainOf(item[s]) : e.at < clock'
      BY <2>2, <3>2, <3>3
    <3>5. pc'[s] = "inserted"
      BY <1>s, <2>2, <2>3 DEF IInv, BaseInv, TypeOK
    <3>6. QED
      BY <2>1, <2>2, <2>3, <3>1, <3>4, <3>5
  <2>4. CASE s # r
    <3>1. row'[s] = row[s] /\ pc'[s] = pc[s]
      BY <1>s, <2>2, <2>4 DEF IInv, BaseInv, TypeOK
    <3>2. QED
      BY <1>1, <2>1, <3>1
  <2>5. QED
    BY <2>3, <2>4
<1>4. ASSUME NEW r \in Requests, Commit(r) PROVE Linked(s)
  <2>1. /\ pc' = [pc EXCEPT ![r] = "done"] /\ UNCHANGED <<prev, row>>
        /\ item' = item
    BY <1>4 DEF Commit, Step
  <2>2. CASE s = r
    BY <1>s, <2>1, <2>2 DEF IInv, BaseInv, TypeOK
  <2>3. CASE s # r /\ item[s] # item[r]
    <3>1. ChainOf(item[s])' = ChainOf(item[s])
      BY <1>4, <1>s, <2>1, <2>3, CommitExtendsChain DEF IInv, ChainOf
    <3>2. pc'[s] = pc[s]
      BY <1>s, <2>1, <2>3 DEF IInv, BaseInv, TypeOK
    <3>3. QED
      BY <1>1, <2>1, <3>1, <3>2
  <2>4. CASE s # r /\ item[s] = item[r]
    <3>1. row[r] \in ChainOf(item[s])' /\ row[r].event = r
      BY <1>4, <2>1, <2>4, CommitExtendsChain DEF IInv, ChainOf
    <3>2. r \in AsStored
      BY <3>1
    <3>3. pc[s] \notin HasChainLock
      BY <1>4, <2>4, <3>2, CommitBetween
    <3>4. pc'[s] = pc[s]
      BY <1>s, <2>1, <2>4 DEF IInv, BaseInv, TypeOK
    <3>5. QED
      BY <3>3, <3>4 DEF HasChainLock
  <2>5. QED
    BY <2>2, <2>3, <2>4
<1>5. ASSUME NEW r \in Requests, LockChain(r) \/ Rollback(r) PROVE Linked(s)
  <2>1. /\ ChainOf(item[s])' = ChainOf(item[s]) /\ UNCHANGED <<prev, row>>
        /\ pc'[s] \in {"linked", "inserted"} => pc'[s] = pc[s]
    BY <1>5, <1>s DEF LockChain, Rollback, Step, ChainOf, IInv, BaseInv, TypeOK
  <2>2. QED
    BY <1>1, <2>1
<1>6. CASE UNCHANGED vars
  <2>1. ChainOf(item[s])' = ChainOf(item[s]) /\ UNCHANGED <<pc, prev, row>>
    BY <1>6 DEF vars, ChainOf
  <2>2. QED
    BY <1>1, <2>1
<1>7. QED
  BY <1>2, <1>3, <1>4, <1>5, <1>6 DEF Next

(* A row that follows the tail of a verified chain extends it.             *)
LEMMA VerifyExtends ==
  ASSUME NEW chain, NEW n,
         \A e \in chain : e.at \in Nat,
         n.at \in Nat, n.id \in Nat,
         \A e \in chain : e.at < n.at,
         VerifyChain(chain),
         n.prev = TailHash(chain),
         n.hash = EventHash(AsRead(n.event), n.prev)
  PROVE  VerifyChain(chain \cup {n})
<1> DEFINE longer == chain \cup {n}
<1>1. {f \in longer : Before(f, n)} = chain
  BY DEF Before
<1>2. ASSUME NEW e \in chain
      PROVE  {f \in longer : Before(f, e)} = {f \in chain : Before(f, e)}
  BY DEF Before
<1>3. QED
  BY <1>1, <1>2 DEF VerifyChain

(* COMMIT extends one verified chain and leaves the others alone.          *)
LEMMA ChainStep == IInv /\ [Next]_vars => ChainInv'
<1> SUFFICES ASSUME IInv, [Next]_vars, NEW i \in Items,
                    \A e \in ChainOf(i)' : e.event \in AsStored
             PROVE  VerifyChain(ChainOf(i)')
  BY DEF ChainInv, Plain, VerifyChain, TailHash, ChainOf, Before
<1>1. ASSUME NEW r \in Requests, Commit(r), i = item[r]
      PROVE  VerifyChain(ChainOf(i)')
  <2>1. pc[r] = "inserted" /\ item' = item
    BY <1>1 DEF Commit, Step
  <2>2. /\ ChainOf(i)' = ChainOf(i) \cup {row[r]}
        /\ row[r] \in Row /\ row[r].event = r
    BY <1>1, <2>1, CommitExtendsChain DEF IInv, ChainOf
  <2>3. r \in AsStored /\ Plain(i)
    BY <2>2 DEF Plain
  <2>4. /\ row[r].prev = TailHash(ChainOf(i))
        /\ \A e \in ChainOf(i) : e.at < row[r].at
    BY <1>1, <2>1, <2>3 DEF IInv, LinkInv
  <2>5. row[r].hash = EventHash(AsRead(row[r].event), row[r].prev)
    BY <2>1, <2>2, <2>3, PassedTypes DEF IInv, BaseInv, PendingInv
  <2>6. row[r].at \in Nat /\ row[r].id \in Nat
    BY <2>2, RowTypes
  <2>7. \A e \in ChainOf(i) : e.at \in Nat
    BY RowTypes DEF IInv, BaseInv, TypeOK, ChainOf
  <2>8. VerifyChain(ChainOf(i))
    BY <2>3 DEF IInv, ChainInv
  <2>9. VerifyChain(ChainOf(i) \cup {row[r]})
    BY <2>4, <2>5, <2>6, <2>7, <2>8, VerifyExtends
  <2>10. QED
    BY <2>2, <2>9
<1>2. CASE ChainOf(i)' = ChainOf(i)
  BY <1>2 DEF IInv, ChainInv, Plain
<1>3. ASSUME NEW r \in Requests, Commit(r), i # item[r]
      PROVE  ChainOf(i)' = ChainOf(i)
  BY <1>3, CommitExtendsChain DEF IInv
<1>4. CASE ~ \E r \in Requests : Commit(r)
  BY <1>2, <1>4, OnlyCommitWrites
<1>5. QED
  BY <1>1, <1>2, <1>3, <1>4

(* The evidence row keeps transfers of one item apart.                     *)
LEMMA TransferStep == IInv /\ StrictClock /\ [Next]_vars => TransferInv'
<1> SUFFICES ASSUME IInv, StrictClock, [Next]_vars,
                    NEW s \in Transfers, pc'[s] = "inserted",
                    NEW e \in rows', e.item = item'[s], e.event \in Transfers
             PROVE  e.at < row'[s].at
  BY DEF TransferInv, ChainOf
<1>s. s \in Requests
  BY TransfersAssumption
<1>1. ASSUME pc[s] = "inserted", e \in rows, item' = item, row'[s] = row[s]
      PROVE  e.at < row'[s].at
  BY <1>1 DEF IInv, TransferInv, ChainOf
<1>2. ASSUME NEW r \in Requests, InsertEvent(r) PROVE e.at < row'[s].at
  <2>1. /\ row'[r].at = clock' /\ clock' > clock /\ clock' \in Nat /\ rows' = rows
        /\ item' = item /\ pc' = [pc EXCEPT ![r] = "inserted"]
        /\ \A q \in Requests \ {r} : row'[q] = row[q]
    BY <1>2, InsertMakesRow, TimesAssumption DEF IInv, BaseInv
  <2>2. CASE s = r
    <3>1. e.at \in Nat /\ e.at <= clock /\ clock \in Nat
      BY <2>1, RowTypes, TimesAssumption DEF IInv, BaseInv, TypeOK, ClockInv
    <3>2. QED
      BY <2>1, <2>2, <3>1
  <2>3. CASE s # r
    BY <1>1, <1>s, <2>1, <2>3 DEF IInv, BaseInv, TypeOK
  <2>4. QED
    BY <2>2, <2>3
<1>3. ASSUME NEW r \in Requests, Commit(r) PROVE e.at < row'[s].at
  <2>1. /\ pc[r] = "inserted" /\ pc[s] = "inserted" /\ s # r
        /\ row' = row /\ item' = item
    BY <1>3, <1>s DEF Commit, Step, IInv, BaseInv, TypeOK
  <2>2. e \in rows \/ e = row[r]
    BY <1>3 DEF Commit
  <2>3. ASSUME e = row[r] PROVE FALSE
    <3>1. e.event = r /\ e.item = item[r]
      BY <2>1, <2>3 DEF IInv, BaseInv, PendingInv
    <3>2. Updates[r] \cap Updates[s] = {}
      BY <1>s, <2>1, <3>1 DEF IInv, ChainLockInv, HasChainLock
    <3>3. "evidence" \in Updates[r] /\ "evidence" \in Updates[s]
      BY <3>1, UpdatesAssumption
    <3>4. QED
      BY <3>2, <3>3
  <2>4. QED
    BY <1>1, <2>1, <2>2, <2>3
<1>4. ASSUME NEW r \in Requests, LockChain(r) \/ ReadTail(r) \/ Rollback(r)
      PROVE  e.at < row'[s].at
  <2>1. pc[s] = "inserted" /\ UNCHANGED <<item, row, rows>>
    BY <1>4, <1>s DEF LockChain, ReadTail, Rollback, Step, IInv, BaseInv, TypeOK
  <2>2. QED
    BY <1>1, <2>1
<1>5. CASE UNCHANGED vars
  BY <1>1, <1>5 DEF vars
<1>6. QED
  BY <1>2, <1>3, <1>4, <1>5 DEF Next

(* A transfer that is committed becomes the newest of its item.            *)
LEMMA NewestStep == IInv /\ [Next]_vars => NewestTransferFound'
<1> SUFFICES ASSUME IInv, [Next]_vars, NEW i \in Items
             PROVE  {e.event : e \in LatestTransfers(i)'} = moving'[i]
  BY DEF NewestTransferFound, LatestTransfers, ChainOf
<1>1. {e.event : e \in LatestTransfers(i)} = moving[i]
  BY DEF IInv, NewestTransferFound
<1>2. CASE ChainOf(i)' = ChainOf(i) /\ moving'[i] = moving[i]
  BY <1>1, <1>2 DEF LatestTransfers
<1>3. ASSUME NEW r \in Requests, Commit(r), i # item[r]
      PROVE  ChainOf(i)' = ChainOf(i) /\ moving'[i] = moving[i]
  BY <1>3, CommitExtendsChain DEF IInv, BaseInv, TypeOK, Commit
<1>4. ASSUME NEW r \in Requests, Commit(r), i = item[r]
      PROVE  {e.event : e \in LatestTransfers(i)'} = moving'[i]
  <2>1. pc[r] = "inserted" /\ item' = item
    BY <1>4 DEF Commit, Step
  <2>2. /\ ChainOf(i)' = ChainOf(i) \cup {row[r]}
        /\ row[r] \in Row /\ row[r].event = r
    BY <1>4, <2>1, CommitExtendsChain DEF IInv, ChainOf
  <2>3. /\ row[r].at \in Nat
        /\ \A e \in ChainOf(i) : e.at \in Nat
    BY <2>2, RowTypes DEF IInv, BaseInv, TypeOK, ChainOf
  <2>4. CASE r \in Transfers
    <3>1. \A e \in ChainOf(i) : e.event \in Transfers => e.at < row[r].at
      BY <1>4, <2>1, <2>4 DEF IInv, TransferInv
    <3>2. LatestTransfers(i)' = {row[r]}
      BY <2>2, <2>3, <2>4, <3>1 DEF LatestTransfers
    <3>3. moving'[i] = {r}
      BY <1>4, <2>4 DEF Commit, IInv, BaseInv, TypeOK
    <3>4. QED
      BY <2>2, <3>2, <3>3
  <2>5. CASE r \notin Transfers
    <3>1. LatestTransfers(i)' = LatestTransfers(i)
      BY <2>2, <2>5 DEF LatestTransfers
    <3>2. moving' = moving
      BY <1>4, <2>5 DEF Commit
    <3>3. QED
      BY <1>1, <3>1, <3>2
  <2>6. QED
    BY <2>4, <2>5
<1>5. CASE ~ \E r \in Requests : Commit(r)
  BY <1>2, <1>5, OnlyCommitWrites
<1>6. QED
  BY <1>2, <1>3, <1>4, <1>5

-----------------------------------------------------------------------------
(* The initial state satisfies the invariants.                             *)
LEMMA InitInv == Init => BaseInv /\ IInv
<1> SUFFICES ASSUME Init PROVE BaseInv /\ IInv
  OBVIOUS
<1>1. rows = {} /\ \A i \in Items : ChainOf(i) = {} /\ moving[i] = {}
  BY DEF Init, ChainOf
<1>2. TypeOK
  <2>1. NoHash \in Hashes
    BY DEF NoHash, Hashes
  <2>2. QED
    BY <1>1, <2>1 DEF Init, TypeOK
<1>3. PendingInv /\ ChainLockInv /\ TransferInv
  BY TransfersAssumption
     DEF Init, PendingInv, ChainLockInv, TransferInv, HasChainLock
<1>4. IdInv /\ LastInv /\ ClockInv /\ HashInv
  BY <1>1 DEF Init, IdInv, LastInv, ClockInv, HashInv
<1>5. LinkInv
  <2>1. \A r \in AsStored : pc[r] = "start"
    BY DEF Init, AsStored
  <2>2. QED
    BY <2>1 DEF LinkInv
<1>6. ChainInv /\ NewestTransferFound
  BY <1>1 DEF ChainInv, VerifyChain, NewestTransferFound, LatestTransfers
<1>7. QED
  BY <1>2, <1>3, <1>4, <1>5, <1>6 DEF BaseInv, IInv

(* Whatever the clock does, types, ids and the order of rows hold up.      *)
LEMMA BaseInvariance == Spec => []BaseInv
<1>1. BaseInv /\ [Next]_vars => BaseInv'
  BY TypeStep, PendingStep, IdStep, LastStep DEF BaseInv
<1>2. QED
  BY <1>1, InitInv, PTL DEF Spec

(* With a strict clock, the inductive invariant holds in every reachable   *)
(* state of appendEvent's transactions.                                    *)
THEOREM Invariance == ASSUME StrictClock PROVE Spec => []IInv
<1>1. IInv /\ [Next]_vars => BaseInv'
  BY TypeStep, PendingStep, IdStep, LastStep DEF IInv, BaseInv
<1>2. IInv /\ [Next]_vars => IInv'
  BY <1>1, LockStep, ClockStep, HashStep, LinkStep, ChainStep, TransferStep,
     NewestStep DEF IInv
<1>3. QED
  BY <1>2, InitInv, PTL DEF Spec

(* Every variable keeps its type, for any number of requests and items and *)
(* whatever the clock returns.                                             *)
THEOREM TypeCorrect == Spec => []TypeOK
<1>1. BaseInv => TypeOK
  BY DEF BaseInv
<1>2. QED
  BY <1>1, BaseInvariance, PTL

(* If no two readings of the clock are equal or go backwards, verifyChain  *)
(* finds intact exactly the chains whose events were all passed with the   *)
(* spelling of ids that the database returns.                              *)
THEOREM ChainCorrect == ASSUME StrictClock PROVE Spec => []CustodyChainIntact
<1>1. IInv => CustodyChainIntact
  <2> SUFFICES ASSUME IInv, NEW i \in Items
               PROVE  VerifyChain(ChainOf(i))
                        <=> \A e \in ChainOf(i) : e.event \in AsStored
    BY DEF CustodyChainIntact
  <2>1. ASSUME VerifyChain(ChainOf(i)), NEW e \in ChainOf(i)
        PROVE  e.event \in AsStored
    <3>1. e \in rows /\ e.event \in Requests /\ e.prev \in Hashes
      BY RowTypes DEF ChainOf, IInv, BaseInv, TypeOK
    <3>2. Append(e.prev, AsPassed(e.event)) = Append(e.prev, AsRead(e.event))
      BY <2>1, <3>1 DEF IInv, HashInv, VerifyChain, EventHash
    <3>3. AsPassed(e.event) = AsRead(e.event)
      BY <3>1, <3>2, PassedTypes, AppendInjective DEF Hashes
    <3>4. QED
      BY <3>1, <3>3, PassedTypes
  <2>2. QED
    BY <2>1 DEF IInv, ChainInv, Plain
<1>2. QED
  BY <1>1, Invariance, PTL

(* With such a clock, findLatestPendingTransfer finds the transfer that    *)
(* set the item moving last, whatever was appended beside it.              *)
THEOREM TransferCorrect == ASSUME StrictClock PROVE Spec => []NewestTransferFound
<1>1. IInv => NewestTransferFound
  BY DEF IInv
<1>2. QED
  BY <1>1, Invariance, PTL
=============================================================================
