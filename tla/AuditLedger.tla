---------------------------- MODULE AuditLedger -----------------------------
(***************************************************************************)
(* The golden path of every state-changing request (db/pool.js and         *)
(* services/ledger): a client is taken from the connection pool, BEGIN,    *)
(* the domain row is written, one event is appended to the hash-chained    *)
(* audit ledger under a global advisory lock, COMMIT.  Any error rolls the *)
(* transaction back; the API process may crash at any moment.              *)
(*                                                                         *)
(* PostgreSQL is external: row locks and transaction-scoped advisory locks *)
(* are held until the transaction ends, uncommitted writes are invisible   *)
(* (READ COMMITTED), and a bigserial value is consumed even when the       *)
(* transaction that drew it rolls back.  A lock is therefore not a         *)
(* variable: it is held by the transaction that is in a phase after the    *)
(* one that takes it.                                                      *)
(*                                                                         *)
(* SHA-256 is taken to be injective: the hash of an event is represented   *)
(* by the sequence of event contents it covers, oldest first, so that      *)
(* hash(content, previous) = Append(previous, content).                    *)
(*                                                                         *)
(* An event names its resource and its case by uuid.  appendEvent hashes   *)
(* the ids as the request spells them - validation accepts capitals - but  *)
(* the uuid columns return them in small letters, and verifyChain          *)
(* recomputes the hashes from the columns.                                 *)
(***************************************************************************)
EXTENDS Naturals, Sequences, FiniteSets

CONSTANTS Requests,   \* state-changing requests; each runs one transaction
          Respelt,    \* those that spell an id otherwise than its column does
          Rows,       \* domain rows (a document, a case, an evidence item...)
          Nobody,     \* the writer of a row that no request has written
          PoolSize    \* clients in the pg pool (its default is 10)

ASSUME RespeltAssumption == Respelt \subseteq Requests
ASSUME NobodyAssumption == Nobody \notin Requests
ASSUME PoolAssumption   == PoolSize \in Nat \ {0}

VARIABLES pc,       \* pc[r]: the phase request r is in
          target,   \* target[r]: the row r writes
          prev,     \* prev[r]: previousHash, as appendEvent read it
          eid,      \* eid[r]: the id INSERT drew from the sequence
          nextId,   \* the next value of the bigserial sequence
          audit,    \* the committed rows of audit_events
          value,    \* value[x]: last committed writer of row x
          answer    \* answer[r]: what r's caller was told

vars == <<pc, target, prev, eid, nextId, audit, value, answer>>

-----------------------------------------------------------------------------
Phases == {"new", "queued", "begun", "wrote", "locked", "linked", "inserted",
           "done"}

InTransaction == {"begun", "wrote", "locked", "linked", "inserted"}
HasRowLock    == {"wrote", "locked", "linked", "inserted"}
HasLedgerLock == {"locked", "linked", "inserted"}

\* Mutant: withTransaction has no finally { client.release() }.
ClientsNeverReleased ==
  {r \in Requests : pc[r] \in InTransaction \cup {"done"}}

Clients == {r \in Requests : pc[r] \in InTransaction}

Content == [req : Requests, row : Rows, spelt : {"column", "otherwise"}]
Hashes  == Seq(Content)
NoHash  == << >>                       \* previous_hash of the first event

\* The event as the request passes it to appendEvent.
ContentOf(r) == [req   |-> r,
                 row   |-> target[r],
                 spelt |-> IF r \in Respelt THEN "otherwise" ELSE "column"]

\* The event as it is read back: a uuid column has one spelling.
Stored(content) == [content EXCEPT !.spelt = "column"]

\* Mutant: computeEventHash forgets previousHash.
EventHashUnchained(content, previous) == <<content>>

\* computeEventHash: covers the event and the hash of the event before it.
EventHash(content, previous) == Append(previous, content)

\* SELECT event_hash FROM audit_events ORDER BY id DESC LIMIT 1
TailHash(rows) ==
  IF rows = {} THEN NoHash
  ELSE (CHOOSE e \in rows : \A f \in rows : f.id <= e.id).hash

\* Each row's previous_hash is the hash of the row before it in id order.
Linked(rows) == \A e \in rows : e.prev = TailHash({f \in rows : f.id < e.id})

\* A row's hash is the one recomputed from its columns.
Reproduced(e) == e.hash = EventHash(e.content, e.prev)

\* Mutant: verifyChain compares the links and recomputes no hash.
IntactLinksOnly(rows) == Linked(rows)

\* audit.service.verifyChain, over the rows in id order.
Intact(rows) == Linked(rows) /\ \A e \in rows : Reproduced(e)

\* The row appendEvent inserts for r.
EventOf(r) == [id      |-> eid[r],
               prev    |-> prev[r],
               hash    |-> EventHash(ContentOf(r), prev[r]),
               content |-> Stored(ContentOf(r))]

-----------------------------------------------------------------------------
Init ==
  /\ pc     = [r \in Requests |-> "new"]
  /\ target \in [Requests -> Rows]
  /\ prev   = [r \in Requests |-> NoHash]
  /\ eid    = [r \in Requests |-> 0]
  /\ nextId = 1
  /\ audit  = {}
  /\ value  = [x \in Rows |-> Nobody]
  /\ answer = [r \in Requests |-> "none"]

Step(r, from, to) == /\ pc[r] = from
                     /\ pc' = [pc EXCEPT ![r] = to]

\* A handler calls withTransaction, which asks the pool for a client.
Arrive(r) ==
  /\ Step(r, "new", "queued")
  /\ UNCHANGED <<target, prev, eid, nextId, audit, value, answer>>

\* pool.connect() resolves, then BEGIN.
Connect(r) ==
  /\ Cardinality(Clients) < PoolSize
  /\ Step(r, "queued", "begun")
  /\ UNCHANGED <<target, prev, eid, nextId, audit, value, answer>>

\* connectionTimeoutMillis passes before a client is free: connect() throws
\* before the try block, so there is nothing to roll back or release.
ConnectTimeout(r) ==
  /\ Step(r, "queued", "done")
  /\ answer' = [answer EXCEPT ![r] = "error"]
  /\ UNCHANGED <<target, prev, eid, nextId, audit, value>>

\* fn(client): the domain write, which waits for the row's lock.
WriteRow(r) ==
  /\ \A s \in Requests : pc[s] \in HasRowLock => target[s] # target[r]
  /\ Step(r, "begun", "wrote")
  /\ UNCHANGED <<target, prev, eid, nextId, audit, value, answer>>

\* Mutant: appendEvent does not wait for the advisory lock.
LockLedgerWithoutWaiting(r) ==
  /\ Step(r, "wrote", "locked")
  /\ UNCHANGED <<target, prev, eid, nextId, audit, value, answer>>

\* appendEvent: pg_advisory_xact_lock(LEDGER_LOCK_KEY).
LockLedger(r) ==
  /\ \A s \in Requests : pc[s] \notin HasLedgerLock
  /\ Step(r, "wrote", "locked")
  /\ UNCHANGED <<target, prev, eid, nextId, audit, value, answer>>

\* appendEvent: read the tail of the committed chain.
ReadTail(r) ==
  /\ Step(r, "locked", "linked")
  /\ prev' = [prev EXCEPT ![r] = TailHash(audit)]
  /\ UNCHANGED <<target, eid, nextId, audit, value, answer>>

\* appendEvent: INSERT, which draws the row's id.
InsertEvent(r) ==
  /\ Step(r, "linked", "inserted")
  /\ eid' = [eid EXCEPT ![r] = nextId]
  /\ nextId' = nextId + 1
  /\ UNCHANGED <<target, prev, audit, value, answer>>

\* Mutant: the update's parameters are swapped: the row is given its own key.
CommitSwapsParameters(r) ==
  /\ Step(r, "inserted", "done")
  /\ audit' = audit \cup {EventOf(r)}
  /\ value' = [value EXCEPT ![target[r]] = target[r]]
  /\ answer' = [answer EXCEPT ![r] = "ok"]
  /\ UNCHANGED <<target, prev, eid, nextId>>

\* COMMIT: both writes become visible and every lock is released.  The
\* connection may break before the acknowledgement arrives, and the caller
\* is then told of an error although the transaction is committed.
Commit(r) ==
  /\ Step(r, "inserted", "done")
  /\ audit' = audit \cup {EventOf(r)}
  /\ value' = [value EXCEPT ![target[r]] = r]
  /\ \E a \in {"ok", "error"} : answer' = [answer EXCEPT ![r] = a]
  /\ UNCHANGED <<target, prev, eid, nextId>>

\* Mutant: the event is inserted through the pool, not through the client of
\* the transaction, so that ROLLBACK does not take it back.
RollbackKeepsEvent(r) ==
  /\ pc[r] = "inserted"
  /\ pc' = [pc EXCEPT ![r] = "done"]
  /\ audit' = audit \cup {EventOf(r)}
  /\ answer' = [answer EXCEPT ![r] = "error"]
  /\ UNCHANGED <<target, prev, eid, nextId, value>>

\* Mutant: withTransaction swallows the error instead of rethrowing it.
RollbackSaysOk(r) ==
  /\ pc[r] \in InTransaction
  /\ pc' = [pc EXCEPT ![r] = "done"]
  /\ answer' = [answer EXCEPT ![r] = "ok"]
  /\ UNCHANGED <<target, prev, eid, nextId, audit, value>>

\* Any statement of the transaction throws: ROLLBACK, release, rethrow.
Rollback(r) ==
  /\ pc[r] \in InTransaction
  /\ pc' = [pc EXCEPT ![r] = "done"]
  /\ answer' = [answer EXCEPT ![r] = "error"]
  /\ UNCHANGED <<target, prev, eid, nextId, audit, value>>

\* The API process dies: every request in flight is cut off and PostgreSQL
\* rolls back the transactions whose connections it lost.
InFlight == {r \in Requests : pc[r] \notin {"new", "done"}}

Crash ==
  /\ InFlight # {}
  /\ pc' = [r \in Requests |-> IF r \in InFlight THEN "done" ELSE pc[r]]
  /\ answer' = [r \in Requests |->
                  IF r \in InFlight THEN "error" ELSE answer[r]]
  /\ UNCHANGED <<target, prev, eid, nextId, audit, value>>

Serve(r) ==
  \/ Connect(r)
  \/ ConnectTimeout(r)
  \/ WriteRow(r)
  \/ LockLedger(r)
  \/ ReadTail(r)
  \/ InsertEvent(r)
  \/ Commit(r)
  \/ Rollback(r)

Next == \/ \E r \in Requests : Arrive(r) \/ Serve(r)
        \/ Crash

Spec == Init /\ [][Next]_vars

\* The event loop and PostgreSQL keep running: a statement that can proceed
\* eventually does.  Nothing makes a caller arrive, a connection time out, a
\* statement fail or the process crash.
Advance(r) == \/ Connect(r) \/ WriteRow(r) \/ LockLedger(r)
              \/ ReadTail(r) \/ InsertEvent(r) \/ Commit(r)

FairSpec == Spec /\ \A r \in Requests : WF_vars(Advance(r))

-----------------------------------------------------------------------------
\* Every variable keeps its type.
TypeOK ==
  /\ pc     \in [Requests -> Phases]
  /\ target \in [Requests -> Rows]
  /\ prev   \in [Requests -> Hashes]
  /\ eid    \in [Requests -> Nat]
  /\ nextId \in Nat
  /\ audit  \subseteq [id : Nat, prev : Hashes, hash : Hashes,
                       content : Content]
  /\ value  \in [Rows -> Requests \cup {Nobody}]
  /\ answer \in [Requests -> {"none", "ok", "error"}]

\* services/ledger and GET /audit/verify: whatever requests interleave, roll
\* back or are cut off, the committed events form one unbroken chain in id
\* order - no two events name the same predecessor and none is skipped - and
\* verifyChain reports it intact exactly as long as no request has spelt an
\* id otherwise than its column does; the first that did is the row it names.
ChainIntact ==
  /\ Linked(audit)
  /\ Intact(audit) <=> \A e \in audit : e.content.req \notin Respelt
  /\ \A e \in audit : Reproduced(e) <=> e.content.req \notin Respelt

\* The golden path: the ledger and the data agree.  A row was last written
\* by the request its newest audit event names, and a row without events was
\* never written, so replaying the ledger gives the current data.
LedgerExplainsData ==
  \A x \in Rows :
    LET events == {e \in audit : e.content.row = x}
    IN  \/ value[x] = Nobody /\ events = {}
        \/ \E e \in events : /\ e.content.req = value[x]
                             /\ \A f \in events : f.id <= e.id

\* A caller that was told of success finds its request in the ledger, also
\* after a crash.
AcknowledgedIsRecorded ==
  \A r \in Requests :
    answer[r] = "ok" => \E e \in audit : e.content = Stored(ContentOf(r))

\* "tampering with any past row breaks every hash after it"
\* (services/ledger/index.js): a row whose columns no longer are what was
\* appended, or a missing row that has a successor, makes verifyChain report
\* the chain broken, if it did not do so before.
AlterationDetected ==
  \A e \in audit :
    /\ \A c \in {Stored(d) : d \in Content} \ {e.content} :
         ~Intact((audit \ {e}) \cup {[e EXCEPT !.content = c]})
    /\ (\E f \in audit : f.id > e.id) => ~Intact(audit \ {e})

\* The ledger is append-only: no step removes or rewrites a committed event,
\* and a step adds at most one, after all those already there.
AppendOnly ==
  [][/\ audit \subseteq audit'
     /\ \A e, f \in audit' \ audit : e = f
     /\ \A e \in audit, f \in audit' \ audit : e.id < f.id]_vars

\* No request waits forever on the pool, on a row or on the ledger lock: the
\* three are always taken in that order and all are released at the end.
EveryRequestAnswered ==
  \A r \in Requests : (pc[r] = "queued") ~> (answer[r] # "none")

\* The ledger implements the abstract log.  The hash of the newest event
\* covers exactly the events of the chain, so it stands for the whole log,
\* once the spelling of ids is left out.
Entries(hash) == [i \in DOMAIN hash |-> [req |-> hash[i].req, row |-> hash[i].row]]

Log == INSTANCE AuditLog WITH log <- Entries(TailHash(audit))
ImplementsLog == Log!LogSpec
=============================================================================
