--------------------------- MODULE CustodyLedger ----------------------------
(***************************************************************************)
(* The chain of custody (services/custody-ledger): one hash chain per      *)
(* evidence item, appended to under an advisory lock keyed by the item.    *)
(* Unlike the audit ledger, whose rows are ordered by a database sequence, *)
(* custody_events rows have random UUIDs and are ordered by created_at,    *)
(* which appendEvent takes from the API process's clock.                   *)
(*                                                                         *)
(* As in AuditLedger, a transaction holds its lock until it ends, only     *)
(* committed rows are visible, and a hash is represented by the sequence   *)
(* of the events it covers.  hashtext is taken to be injective: a          *)
(* collision would only make two items share a lock.                       *)
(*                                                                         *)
(* appendEvent is passed the evidence id of the path and the recipient of  *)
(* the body as the request spells them: both go into the hash, and the     *)
(* evidence id into the lock's key.  The uuid columns return them in one   *)
(* spelling, from which verifyChain recomputes the hash.  Requests that    *)
(* spell one item's id differently exclude each other only where they have *)
(* updated the same rows before they append.                               *)
(***************************************************************************)
EXTENDS Naturals, Sequences

CONSTANTS Requests,     \* requests, each appending one custody event
          Transfers,    \* those whose event is a TRANSFER_REQUEST
          Items,        \* evidence items
          Uuids,        \* ids a row can get; their order says nothing
          Times,        \* what new Date() can return, in milliseconds
          StrictClock,  \* TRUE: no two readings are equal or go backwards
          Spellings,    \* of a uuid
          Column,       \* the one a uuid column returns
          EvidenceId,   \* EvidenceId[r]: r's spelling of its item's id
          Respelt,      \* transfers that spell their recipient otherwise
          Updates       \* Updates[r]: the rows r updates before it appends

\* A receipt refused for a changed artifact leaves the evidence row alone.
UpdatedRows == {{"evidence"}, {"artifacts"}, {"evidence", "artifacts"}}

ASSUME TransfersAssumption == /\ Respelt \subseteq Transfers
                              /\ Transfers \subseteq Requests
ASSUME SpellingAssumption  == /\ Column \in Spellings
                              /\ EvidenceId \in [Requests -> Spellings]
ASSUME UpdatesAssumption   == /\ Updates \in [Requests -> UpdatedRows]
                              /\ \A r \in Transfers : "evidence" \in Updates[r]
ASSUME UuidsAssumption     == Uuids \subseteq Nat
ASSUME TimesAssumption     == Times \subseteq Nat
ASSUME ClockAssumption     == StrictClock \in BOOLEAN

VARIABLES pc,       \* pc[r]: the phase of request r's transaction
          item,     \* item[r]: the item r's event is about
          clock,    \* the latest reading of the clock
          prev,     \* prev[r]: previousHash, as appendEvent read it
          row,      \* row[r]: the row r has inserted, not yet committed
          rows,     \* the committed custody_events rows
          moving    \* moving[i]: the transfer that set item i moving last, if
                    \* any (a history variable; no step reads it)

vars == <<pc, item, clock, prev, row, rows, moving>>

-----------------------------------------------------------------------------
HasChainLock == {"locked", "linked", "inserted"}

NoHash == << >>

AsStored == {r \in Requests : EvidenceId[r] = Column} \ Respelt

\* What a hash covers of an event: as it was passed, and as it is read back.
AsPassed(r) ==
  [event |-> r, spelt |-> IF r \in AsStored THEN "column" ELSE "otherwise"]
AsRead(r) == [event |-> r, spelt |-> "column"]

Hashes == Seq([event : Requests, spelt : {"column", "otherwise"}])

EventHash(event, previous) == Append(previous, event)

\* ORDER BY created_at, id
Before(e, f) == e.at < f.at \/ (e.at = f.at /\ e.id < f.id)

ChainOf(i) == {e \in rows : e.item = i}

\* ... ORDER BY created_at DESC, id DESC LIMIT 1
TailHash(chain) ==
  IF chain = {} THEN NoHash
  ELSE (CHOOSE e \in chain : \A f \in chain \ {e} : Before(f, e)).hash

\* verifyChain: walks the rows in ORDER BY created_at ASC, id ASC.
VerifyChain(chain) ==
  \A e \in chain :
    /\ e.prev = TailHash({f \in chain : Before(f, e)})
    /\ e.hash = EventHash(AsRead(e.event), e.prev)

\* Mutant: ORDER BY created_at ASC.
OldestTransfers(i) ==
  {e \in ChainOf(i) :
     /\ e.event \in Transfers
     /\ \A f \in ChainOf(i) : f.event \in Transfers => e.at <= f.at}

\* findLatestPendingTransfer: ORDER BY created_at DESC LIMIT 1.
LatestTransfers(i) ==
  {e \in ChainOf(i) :
     /\ e.event \in Transfers
     /\ \A f \in ChainOf(i) : f.event \in Transfers => f.at <= e.at}

-----------------------------------------------------------------------------
Init ==
  /\ pc = [r \in Requests |-> "start"]
  /\ item \in [Requests -> Items]
  /\ clock = 0
  /\ prev = [r \in Requests |-> NoHash]
  /\ row = [r \in Requests |-> NoHash]
  /\ rows = {}
  /\ moving = [i \in Items |-> {}]

Step(r, from, to) == /\ pc[r] = from
                     /\ pc' = [pc EXCEPT ![r] = to]

\* The requests that append to r's chain right now.
Appending(r) == {s \in Requests : pc[s] \in HasChainLock /\ item[s] = item[r]}

\* Mutant: appendEvent does not wait for the advisory lock.
LockChainWithoutWaiting(r) ==
  /\ \A s \in Appending(r) : Updates[s] \cap Updates[r] = {}
  /\ Step(r, "start", "locked")
  /\ UNCHANGED <<item, clock, prev, row, rows, moving>>

\* The service's UPDATE, which waits for the rows; then
\* pg_advisory_xact_lock(CUSTODY_LOCK_NAMESPACE, hashtext(evidenceId)).
LockChain(r) ==
  /\ \A s \in Appending(r) : /\ Updates[s] \cap Updates[r] = {}
                            /\ EvidenceId[s] # EvidenceId[r]
  /\ Step(r, "start", "locked")
  /\ UNCHANGED <<item, clock, prev, row, rows, moving>>

\* Read the tail.
ReadTail(r) ==
  /\ Step(r, "locked", "linked")
  /\ prev' = [prev EXCEPT ![r] = TailHash(ChainOf(item[r]))]
  /\ UNCHANGED <<item, clock, row, rows, moving>>

\* Read the clock, INSERT.
InsertEvent(r) ==
  /\ Step(r, "linked", "inserted")
  /\ \E t \in Times, u \in Uuids :
       /\ StrictClock => t > clock
       /\ \A e \in rows : e.id # u
       /\ \A s \in Requests : pc[s] = "inserted" => row[s].id # u
       /\ clock' = t
       /\ row' = [row EXCEPT ![r] =
                    [id |-> u, at |-> t, item |-> item[r], event |-> r,
                     prev |-> prev[r], hash |-> EventHash(AsPassed(r), prev[r])]]
  /\ UNCHANGED <<item, prev, rows, moving>>

\* Mutant: a failed INSERT is swallowed and the transaction commits.
CommitWithoutRow(r) ==
  /\ pc[r] \in HasChainLock
  /\ pc' = [pc EXCEPT ![r] = "done"]
  /\ rows' = rows \cup {row[r]}
  /\ UNCHANGED <<item, clock, prev, row, moving>>

\* The row and the update of the item become visible, the locks are released.
Commit(r) ==
  /\ Step(r, "inserted", "done")
  /\ rows' = rows \cup {row[r]}
  /\ moving' = IF r \in Transfers THEN [moving EXCEPT ![item[r]] = {r}] ELSE moving
  /\ UNCHANGED <<item, clock, prev, row>>

\* An error, or the process dies: the row is gone and the locks released.
Rollback(r) ==
  /\ pc[r] \in HasChainLock
  /\ pc' = [pc EXCEPT ![r] = "done"]
  /\ UNCHANGED <<item, clock, prev, row, rows, moving>>

Next == \E r \in Requests : \/ LockChain(r) \/ ReadTail(r) \/ InsertEvent(r)
                            \/ Commit(r) \/ Rollback(r)

Spec == Init /\ [][Next]_vars

-----------------------------------------------------------------------------
Row == [id : Uuids, at : Times, item : Items, event : Requests,
        prev : Hashes, hash : Hashes]

\* Every variable keeps its type.
TypeOK ==
  /\ pc \in [Requests -> {"start", "locked", "linked", "inserted", "done"}]
  /\ item \in [Requests -> Items]
  /\ clock \in Times \cup {0}
  /\ prev \in [Requests -> Hashes]
  /\ row \in [Requests -> {NoHash} \cup Row]
  /\ rows \subseteq Row
  /\ moving \in [Items -> SUBSET Transfers]

\* "tamper-evident custody records": of the chains that only appendEvent
\* wrote, verifyChain finds intact exactly those all of whose events were
\* passed to it with the spelling of ids that the database returns, for every
\* item and every interleaving.
CustodyChainIntact ==
  \A i \in Items :
    VerifyChain(ChainOf(i)) <=> \A e \in ChainOf(i) : e.event \in AsStored

\* findLatestPendingTransfer: accept and reject are checked against the
\* transfer that set the item moving last, and against no other one.
NewestTransferFound ==
  \A i \in Items : {e.event : e \in LatestTransfers(i)} = moving[i]
=============================================================================
