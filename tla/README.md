# Models and proofs of the document management system

TLA+ models of the API server (`src/apps/api`), of the roles it shares with the
web client (`src/packages/shared`), and of the web client itself
(`src/apps/web`): the transactions every state-changing request runs through,
the two hash-chained ledgers, the evidence vault, the life of a document and of
its stored bytes, cases with their members, grants and shares, accounts and
their sessions, and what the pages show while all this goes on. TLC checks each
model on small instances; TLAPS proves every safety property of the passing runs
for instances of any size.

Contents: [the system](#the-system), [hard behaviours](#what-is-hard-about-it),
[modules](#modules), [runs](#runs), [disagreements](#where-the-code-disagrees-with-itself),
[proofs](#proofs), [not modelled](#not-modelled), [plan](#plan).

## The system

A Node.js process (one event loop) serves HTTP requests against PostgreSQL
(READ COMMITTED) and a directory of encrypted files. It keeps no state of its
own between requests: all state is in database rows and files. Requests run
concurrently, interleaved at every `await`; several API processes may share one
database. The web client is a React application whose pages fetch what they
show, and whose tabs share one refresh cookie.

| Component | State | Operations | Talks to |
|---|---|---|---|
| Transactions (`db/pool.js`) | clients in use | connect, BEGIN, fn, COMMIT / ROLLBACK, release | every service |
| Audit ledger (`services/ledger`) | `audit_events` | `appendEvent` | called inside every transaction |
| Audit query (`modules/audit`) | none | `verifyChain`, list, export | reads the ledger; used by the verification portal |
| Custody ledger (`services/custody-ledger`) | `custody_events` | `appendEvent`, `verifyChain` | called by the evidence vault |
| Evidence vault (`modules/evidence`) | `evidence`, `evidence_artifacts` | register, add artifact, seal, verify, download, request / accept / reject transfer, start / complete analysis, return, archive | both ledgers, storage, security events |
| Document vault (`modules/documents`) | `documents`, `document_versions`, comments | upload, new version, restore, download, delete, metadata, comments | storage, ledger, security events |
| Approval (`modules/approval`) | `approval_requests`, `approval_steps`, `documents.status` | submit, decide, finalise | documents, ledger |
| Signatures (`modules/signatures`) | `user_keys`, `document_signatures`, `is_signed`, `documents.status` | rotate key, sign, request, fulfil, decline | documents, crypto, ledger |
| Verification (`modules/verification`) | `verification_records` | four checks | documents, signatures, audit, storage |
| Cases (`modules/cases`) | `cases`, `case_members` | create, update, status, add / remove member | ledger |
| Access (`services/permissions`, `modules/permissions`) | `resource_permissions` | can, grant, revoke | cases, users; in front of every route |
| Sharing (`modules/sharing`) | `document_shares` and a grant each | share, revoke, expiry on read | access |
| Auth (`modules/auth`) | `auth_sessions`, `login_attempts`, failure counter, `users.status`, MFA credentials | login, refresh, logout, MFA | users, security events |
| Users (`modules/users`) | `users`, `user_invitations`, `user_roles`, departments | invite, activate, status, roles | auth, ledger |
| Roles (`packages/shared`) | none (tables) | who creates whom, ceilings, case roles | API and web client |
| Web session (`lib/api-client.js`, `lib/auth-context.js`) | access token in memory, refresh cookie, user shown | call, silent refresh and retry, login, logout, reload | auth |
| Web pages (`app/**/page.js`, `UserPicker`) | parts shown, errors, busy flags | refresh, one handler per button or form | every route |

Components share rows rather than messages: `documents.status` is written by
three services, `evidence.status` by ten handlers, the grants the access engine
reads by two, and every transaction ends in the one audit ledger.

What makes each correct:

- **Transactions and audit ledger**: the events form one unbroken chain, and it
  verifies as long as ids are spelt as the database returns them; data and ledger
  agree after any failure; success is only reported of what is recorded; an
  altered row is noticed; nobody waits for ever.
- **Custody ledger**: a chain that only the program wrote verifies, on the same
  condition and with a clock that moves forward; the transfer found is the one that
  set the item moving last.
- **Evidence**: the trail names the custodian and tells the status; an item is
  only held by someone entitled to it; every bad artifact is reported; the page
  offers what the service accepts, and somebody is always offered the next step.
- **Documents**: version numbers go forward, the current version is the newest.
- **Approval**: one active chain; decisions in order; the review status matches;
  whoever's turn it is finds it.
- **Signatures**: one active key per user; a request is answered once; a
  signature binds the content of its version; FINAL is final.
- **Verification and downloads**: a verdict was true at some moment of its check;
  a version marked MODIFIED was replaced and is reported.
- **Cases**: the stamps tell the status; a case keeps an owner.
- **Access, sharing**: access to a case and its document was given by somebody
  who had a right in force to give it, which goes back to the creator; access to
  evidence and reports by top command; a share's status tells whether it gives
  access.
- **Auth, users**: an account at the threshold is locked, unless an administrator
  has set it INACTIVE or an activation overtook the lock; an accepted invitation
  left a password behind, and nothing else does; MFA is demanded of those who can
  give it.
- **Web client**: a page shows what it was told was saved, but for the mark that a
  download left; a part that is refused takes no other part with it; a call fails
  for want of a session only if there is none; an answer is for the user shown.

## What is hard about it

Four patterns recur, and most hazards in `PROJECT.json` are one of them.

1. *Read, check, then write blindly.* Handlers read rows through the pool, check
   them, await storage, hashing or a password hash, and open a transaction that
   writes without checking again. What was read may be stale. The permission
   check in front of the handler adds two reads of its own.
2. *Order taken from clocks.* `custody_events` are ordered by the API's clock,
   `document_versions` by the start time of the inserting transaction.
3. *Failure between steps.* A statement, COMMIT's acknowledgement, the process,
   or a storage read can fail at any point; a pool of ten clients and a global
   lock sit between requests.
4. *Answers in any order.* Pages start refreshes without awaiting them, and
   calls that meet an expired token each refresh and retry on their own.

## Modules

```
AuditLog          what the audit ledger promises (abstract)
   ^ refined by
AuditLedger   <--- AuditLedgerProofs (TLAPS)
CustodyLedger <--- CustodyLedgerProofs (TLAPS)

Evidence <--- EvidencePage (what the item's page offers) <--- EvidenceProofs (TLAPS)

Documents <--- Approval   <--.
          <--- Signatures <--- Vault <--- DocumentLifecycle <--- DocumentPage
                                          DocumentProofs (TLAPS) ---^

Roles <--- Access <--- Cases, Sharing <--- CaseAccess <--- CaseAccessProofs (TLAPS)
      <--- Accounts <--- AccountsProofs (TLAPS)
      <--- Routes <--- WebPages <--- WebPage <--- Web
                                     WebSession <-' <--- WebSessionProofs (TLAPS)
                                     Web <--- WebPageProofs (TLAPS)
MC*               constants, symmetry and constraints for TLC
```

### AuditLog, AuditLedger (`db/pool.js`, `services/ledger`, `audit.service.verifyChain`)

`AuditLog` has one step: a request changes a row and is recorded, indivisibly
and once. `AuditLedger` is what the code does instead. A request goes through
the phases `queued` (asked the pool), `begun` (BEGIN), `wrote` (domain row
written), `locked` (advisory lock), `linked` (tail read), `inserted`, `done`;
one action each. `Rollback` is the catch block from any phase, `Crash` the death
of the process, `ConnectTimeout` the pool's limit. `Commit` may succeed and
still be reported as an error.

PostgreSQL is external: a lock is held until its transaction ends, uncommitted
writes are invisible, a drawn `bigserial` value is not given back. A hash is
represented by the sequence of event contents it covers, which is what an
injective hash of (content, previous hash) can be told apart by. Each request
writes one row; that is what the ledger properties need, since any row lock is
taken before the ledger lock.

An event is hashed as the request spells its ids (`ContentOf`) and read back as a
`uuid` column returns them (`Stored`); `Respelt` are the requests for which the two
differ. `verifyChain` compares the links (`Linked`) and recomputes each hash from the
columns (`Reproduced`), so `ChainIntact` says that the links always hold and that the
chain is intact if and only if no event was respelt.

### CustodyLedger (`services/custody-ledger`)

`appendEvent` under a lock per item, with the two things that differ from the
audit ledger: rows get a random id, and `created_at` is read from a clock.
Reading the tail and reading the clock are steps of their own. Tail, `verifyChain`
and `findLatestPendingTransfer` are the code's ORDER BY clauses. `StrictClock` says
whether two readings may be equal or go backwards.

The lock's key is the item's id as the request spells it (`EvidenceId`), so requests
with different spellings do not wait for each other there. What still keeps most of
them apart is the UPDATE that comes first: of the `evidence` row, of artifacts, or
both (`Updates`). A receipt refused for changed artifacts leaves the `evidence` row
alone, so a transfer can append beside it. `Respelt` are transfers that spell their
recipient's id otherwise. `moving` is a history variable, the transfer that set an
item moving last; `NewestTransferFound` compares it with the one that is found.

### Evidence, EvidencePage (`modules/evidence`, the evidence item's page)

One item. Each of the twelve operations is a `Load` action (the reads and
checks at the top of the handler, including the storage reads that re-hash
artifacts) and a `Commit` action (the transaction, indivisible by
`AuditLedger`). A *slot* is a request being served; `Abort` is any failure in
between. `Alter` is the environment: stored bytes are replaced, or become
unreadable, in which case the handlers throw before their transaction. The
reads of one handler are taken at one instant; the gap that matters, between
the reads and the writes, is open to every other request. The blocked receipt
is stored by the code as REJECTED with its own reason; the model calls it
BLOCKED so that the two can be told apart.

`EvidencePage` has one operator per button or form of the page, downloads, the form
for a new artifact and the check of the chain among them, next to what the service
accepts (`Accepted`: the checks of the `Load` actions, proved to be theirs by
`AcceptedLoads`): two rules written independently of each other. `NextSteps` are the
offers that take the item further. The page is a fresh one: a transfer form that was
opened stays open after a refresh that ends the status it was offered in.

### Documents, Approval, Signatures, Vault, DocumentLifecycle, DocumentPage

One document, one `status` written by three services. Again `Load` and
`Commit`; version inserts have `BeginVersion` in between, because `created_at`
is the start of the transaction (`began` counts the versions committed before
it, and a tie may go either way). Signing reads the signer's key inside the
transaction (`TakeKey`). `CommitRotate` carries the partial unique index on the
active key; `CommitFulfill` and `CommitDecline` carry `AND status = 'PENDING'`.
A file's content stands for its hash.

`Vault` adds the stored bytes and those who check them while the others write: a download
(comparison, then mark and security event), and a verification, whose reads of signature,
document, bytes and ledger are a step each. `held` is a history variable: the verdicts
that were true at some moment while the request was served. Objects and the ledger are
altered by the environment (`AlterObject`, `AlterLedger`); `ledgerIntact` is what
`verifyChain` would find, so `AlterLedger` also stands for an event that the program
itself appends under an id in capitals. A restored version reuses its original's object,
so objects are named by their content.

`DocumentPage` is the document page, the approval inbox and the signature queue
when freshly loaded: each finds an approver's turn in its own way, and the
service in a fourth.

### Roles, Access, Cases, Sharing, CaseAccess

`Roles` is the hierarchy of levels with its two roles per level, as records: who
creates whom, what a role may at most do, and what a case role allows. `Access`
is the engine and the guard of each route: a request is checked against the
membership, then, if that does not allow it, against the grants (`"grant?"`), and
acts later; nothing is looked at again. `Cases` and `Sharing` are the handlers
behind that guard. Expiry of a grant is a step of time. A row's `at` is the
number of rows that were there before it, and its `through` the rows *in force* that
let its giver through when he was checked (a history that no step reads), so that a
right can be traced to older rows which gave it at that moment, and to those only.
Resources are the case, its document, evidence and reports. Evidence is owned by the
case (`resolveOwningCaseId`), so case roles reach it, but grants on it are given by
another rule: `assertGrantAuthority` tests the type, and leaves evidence and reports
to top command. `raced` is a history variable that says that a removal was decided
on an owner count or a role which had changed before it was written.

### Accounts (`modules/users`, `modules/auth`)

One account: invitation, activation, password, status, roles, failure counter,
MFA credentials, sessions, and one access token. `Serve` is the later half of
each handler. `overtaken` records the two races that the properties have to
except: an activation that overtakes a lock, a verification that overtakes an
enrolment's deletion. Administrators, their roles and the tree of units are
constants; units are created on the way.

### Routes, WebPages, WebPage, WebSession, Web

`Routes` is a table of what each route asks of its caller. `WebPages` describes each page
as data: how its refresh loads it (phases of requests, which part each sets, what a
failure leaves unset) and what its handlers call and do then. `WebPage` runs such a table:
overlapping refreshes whose parts are read at one moment and set at another, handlers that
fail, are acknowledged, refresh or set the answer, and busy flags. `overlapped` is a
history variable: answers raced, because a refresh started beside another, or because a
handler's answer was set beside a refresh or after a newer one (`Outdated`). A part is a
number that grows with every change on the server; `written` is what this page was told
was saved, by whatever call, and `followed` the part of it after which the page refreshes
or sets the answer.

`WebSession` is the access token in memory, the cookie that all tabs share and
calls that meet a 401 with one refresh and one retry; tokens expire, sessions end,
other tabs log in, the page is reloaded, answers get lost. `calm` and `sure` are
history variables that say that nothing happened to a call which would excuse a
refusal, or a different user's answer. `Web` joins the two: a behaviour looks at a
page or at the session.

## Runs

Deadlock is not checked: in every model the system stops when its bounded
requests, rows or versions are used up.

| Run | Instance | Shows |
|---|---|---|
| `audit_ledger` | 3 requests, one of them respelt, 2 rows, pool of 2 | All properties of the ledger, the refinement and liveness |
| `custody_ledger` | 4 appends (a transfer, one in capitals, one with a respelt recipient, a refused receipt), 2 items, 4 ids, 4 times, strict clock | A chain verifies exactly if its ids are spelt as stored; the newest transfer is found |
| `custody_clock` | the same appends, ids spelt as stored, 1 item, 2 times, any clock | *violated*: see below |
| `evidence` | 3 users, 1 artifact, 2 slots, trail of 5 | What survives any overlap of two requests |
| `evidence_serial` | 3 users, 2 artifacts, 1 slot, trail of 8 | What holds along long lives, request after request; the page guides the item through them |
| `evidence_replay` | 2 users, 1 artifact, 1 slot, trail of 5 | *violated*: see below |
| `document_serial` | 3 versions, 2 chains of up to 2 of 3 approvers, 2 users, 1 signature, 1 slot | Version order, review status, order of decisions; everyone finds his turn |
| `signatures` | 2 versions, 2 contents, 2 users, 2 signatures, 2 keys, 2 slots, 1 checker, 1 alteration | Keys, answers, bindings and verdicts under overlap |
| `case_access` | top command and a unit's admin, 2 slots, 3 membership or grant rows, grants on case and evidence that expire, and shares of the document | Stamps, owners, where access comes from, what shares say |
| `accounts` | 2 administrators, 3 units, threshold 2, 2 slots, 2 credentials, 1 session | Lock, invitation and MFA under overlap |
| `web` | 11 pages, 4 kinds of visitor, 2 handlers and 2 refreshes at once; 2 calls, 2 users, 2 sessions, 3 tokens, 2 surprises | What pages show, and for whom calls are answered |
| `final_document` | 1 user, 2 signatures | *violated*: see below |

Why the bounds are enough. Three requests and a pool of two give every
contention pattern of the ledger: one holds the lock, one waits for it holding a
client, one waits for the pool; two rows let one row be written twice and another
once, so a chain entry can be newest without being newest for its row; the respelt
request can come first, last or in between. Of the four custody appends, the first
three exclude each other by the row they update although one takes another lock, and
the one in capitals and the refused receipt exclude each other by nothing: so chains
fork where they can, and a transfer can be inserted between a tail read and its
append. In `Evidence`, three users are the two
parties and a bystander; a trail of five reaches a first transfer with a second
answer, one of eight reaches a second transfer after an analysis, and a return
and archiving. Two slots are every pair of overlapping handlers. Three versions
let a restore name a version that is neither first nor newest; two chains let a
document be resubmitted after a rejection; two keys let a signature be made
with a key that is rotated meanwhile. In `signatures`, alterations and checks run
beside one request at a time on a document with one signature and one key
(`CheckedInSmall`); the proof of `ChecksTellTruth` has no such limit.

Three rows in `case_access` are a chain creator, receiver, receiver's receiver.
Grants on evidence need no row
before them. Grants may expire between the check and the write. Its two users are the
two ends of the table of roles: top command, which needs
no membership, and a unit's admin; an officer, whose ceiling lets him share
nothing, is covered by the proofs, which hold for any roles. A threshold of two lets
a success come between two failures, and a third failure arrive after the lock.
In `web`, two refreshes are what it takes for an old answer to come last, two
calls for one refresh to take the other's token away, three tokens for a retry to
meet a second expiry.

What holds only without overlap is checked and proved only without overlap, and
says so:
`PartiesHoldItem`, `TrailTellsStatus`, `VersionsMoveForward`, `ReviewMatchesChain`,
`ChainsInOrder` and `TurnIsOffered`. (`PageGuidesItem` is checked along long lives
only, but proved for any overlap.) Failures and crashes
between read and commit are in these runs. With two slots each of them is broken
by the first pattern above: for example two uploads that overlap give two
versions one number, and a transfer request read before a receipt and committed
after it leaves the item with someone who is no party of it.

Where a property excepts a race (`OwnerKept`, `LockAtThreshold`, `MfaUsable`,
`ShownIsOwnWrites`, `RefusedOnlyWithoutSession`, `AnswersAreForShownUser`), the
race is in the model and happens in the run; the property says that nothing else
has the same effect. Four exceptions are no races but what the code does to a single
request: ids that are respelt (`ChainIntact`, `CustodyChainIntact`), an account set
INACTIVE (`LockAtThreshold`), the artifact form (`PageGuidesItem`), and the marks that
downloads leave (`ShownIsOwnWrites`, `NotReadAgain`). Without any one of them TLC finds
the property violated. Each is listed under disagreements below.

Symmetry is used over sets of interchangeable model values in runs without
liveness.

### Fairness

Only `audit_ledger` has a liveness property. `FairSpec` is weak fairness of one
request's next statement (`Advance`): the event loop runs every resolved promise
and PostgreSQL executes a statement that has what it waits for. Nothing makes a
caller arrive, a connection time out, a statement fail or the process crash. Weak
fairness is enough although locks and clients are contended, because each
request runs one transaction: an earlier holder can get in front of a waiter only
a bounded number of times. With an unbounded stream of requests, the FIFO queues
of the pool and of PostgreSQL's lock manager would play that part. The other
models have no waiting: their handlers either go on by themselves or fail, and
what people do next is up to them. That something can be done next is stated as
safety (`PageGuidesItem`, `TurnIsOffered`).

## Where the code disagrees with itself

Three runs expect a violation; each quotes the line it contradicts.

- `evidence_replay` / `TransitionsAreLegal`: accepting a transfer does not look at
  the item's status, and a transfer row stays PENDING after it was answered.
  Answered again after an analysis, it moves the item from IN_CUSTODY to
  RECEIVED, a transition the table "enforced exactly" does not have.
- `custody_clock` / `CustodyChainIntact`: two appends in one millisecond, or a
  clock that is set back, and `verifyChain` reports an honest chain as broken.
- `final_document` / `FinalIsTerminal`: signing a FINAL document makes it SIGNED.

What else was met while reading and modelling. It is in the models unless said
otherwise; the passing properties except it or are checked without overlap.

Spelling of ids
- `validate` and zod's `.uuid()` accept ids in capitals, nothing makes them small, and
  both `appendEvent`s hash them as they come, while `verifyChain` recomputes the hashes
  from `uuid` columns. Sealing `/evidence/<ID IN CAPITALS>`, or a transfer to a
  recipient in capitals, leaves an honest chain that is reported as broken from then
  on. `ChainIntact` and `CustodyChainIntact` say exactly when. As the verification
  portal asks for the whole audit chain, it then calls every genuine document TAMPERED.
- The custody lock's key is `hashtext` of the id as spelt, so requests in different
  spellings share no lock; two events can then name one predecessor. It takes a receipt
  that is refused for changed artifacts, because the other handlers wait for each
  other at a row they update.

Documents and evidence
- Two submissions that overlap leave a document with two active chains.
- Two uploads that overlap give two versions one number; the newest row may then
  not be the current one.
- A late decision on an approved step can move a chain's turn back.
- A document that is signed while under review keeps its pending chain, and
  `decideStep` does not look at the document's status: finalized meanwhile, it goes
  from FINAL to APPROVED or DRAFT when the chain is decided. (Met while proving
  `FinalCorrect`, which says that a signature and such a decision are the only ways.)
- A version can be added to, or restored in, a document that was deleted after it
  was looked at (`restoreVersion` does not look).
- A late VERIFIED mark of one download can overwrite another's MODIFIED; the
  security event stays.
- `completeAnalysis` is accepted in every status from which IN_CUSTODY is legal.
- The evidence page (210-212) calls its rule "the same rule the server uses
  (findLatestPendingTransfer)", but looks at the newest custody event: after a
  blocked receipt it no longer offers accept and reject, which the service still
  takes.
- "+ Add artifact" (394-403) is offered to everybody, and `addArtifact`
  (`evidence.service.js` 126) refuses all but the custodian. `PageGuidesItem` names it.

Cases and access
- Two owners who remove each other at the same time leave a case without one
  (`raced`).
- Status changes that overlap can take a case along a transition the table
  forbids, for example an archived case back to an earlier status.
- Roles of `ADMINISTRATION_HQ` are in `TOP_OVERSIGHT`, but their ceiling lacks
  EDIT, so that they never reach the reopening they are allowed.
- A comment (`permissions.service.js` 27-29) speaks of "resource types without an
  owning-case resolver yet (EVIDENCE/REPORT)". Evidence has one; its grants still come
  from top command alone, who need not be a member of the case, so that access to it
  does not go back to the case's creator.
- A DOWNLOAD share is labelled "View + download" (document page 720), but
  `GET /documents/:id` asks for VIEW.

Accounts
- A status change can make an INVITED account ACTIVE, after which its invitation
  is answered 410 although it was not used.
- Login refuses LOCKED accounts only; refresh asks for ACTIVE. An administrator who
  sets a locked account INACTIVE leaves its failure counter at the threshold and opens
  it for logins (`users.service.js` 276 resets the counter for ACTIVE, `auth.service.js`
  32 asks for LOCKED). No race is needed.
- A second activation that read the invitation before the first one was committed
  replaces its password. `InvitationTellsActivation` holds of both and does not tell
  them apart.
- Two replacements of a user's roles that overlap leave their union, although
  `users.service.js` 48-49 says "this system doesn't support dual-hatting".
- A verification of MFA can lose its credential to a concurrent enrolment and
  still switch MFA on (`overtaken`).

Web client
- A member list that is refused (403 for someone who is no member) takes the rest
  of the document page with it: signatures and approvals then read "Not signed
  yet" and "No approval requests yet". `MemberSeesPage` therefore speaks of members.
  The error is displayed only while no document is shown, and so are those of
  restoring a version and adding a comment.
- Refreshes that overlap may end with the older answer; after two rotations of a
  key the page can show the older one. `UserPicker` can show results of an earlier
  query.
- Busy flags are cleared when a second row is acted on.
- Downloads change the mark of a version or an artifact, and neither the document page
  nor the evidence page reads it again; an activation goes on to the login page. These
  are the parts in `NotReadAgain`, of which `ShownIsOwnWrites` asks only that the
  changes which the page follows (`followed`) are shown.
- The login page looks for a role `ADMINISTRATOR` that no longer exists.
- A wrong password typed in a tab with a live session is sent twice, because its
  401 is followed by a refresh and a retry.
- A refused refresh that is answered late clears a newer cookie; a logout that
  fails leaves the cookie, so that a reload signs in again; a refresh of an earlier
  login can put its token under a later one (`sure`).

## Proofs

Theorems hold for every value of the constants that the modules' named
assumptions allow: sets of any size, any number of requests under way at once, and
any bounds. The listed ones are in `PROJECT.json`; the lemmas they rest on are
beside them.

**`AuditLedgerProofs`**: type correctness, `ChainIntact`, `LedgerExplainsData`,
`AcknowledgedIsRecorded`, `AlterationDetected`, `AppendOnly`, and that `AuditLedger`
implements `AuditLog`. Assumptions: `Nobody` is not a request, the pool is not empty, and
`Respelt` is any set of requests.

`ChainIntact` is not inductive: a transaction carries the tail it read from
`ReadTail` to `Commit`, and nothing in `ChainIntact` says that it is still the
tail. The inductive invariant `IInv` adds

- `LedgerLockInv`: at most one transaction is past `LockLedger`;
- `IdInv`: committed ids have been drawn from the sequence, and one of them is the
  newest;
- `LinkInv`: a transaction past `ReadTail` has the hash of the present tail, and
  an inserted row's id is above every committed one, so the new event is last;
- `DoneInv`: an event's request is done, so no request commits twice;
- `OriginInv`: a committed hash covers the event as its request spelt it, so that it is
  reproduced from the columns exactly if they spell it the same (`ReproducedRows`);
- `OrderInv`: an event that is not the newest has a next one. `AlterationDetected`
  needs it: a changed row is noticed at its own hash, a missing one at the event
  that follows it, whose predecessor is then another.

`CommitExtendsChain` is the heart of it: a row with a greater id than all others,
linked to their tail, extends an intact chain, and its hash is the new tail. Each
conjunct has a step lemma (`TypeStep`, `LockStep`, `IdStep`, ...), and
`OnlyCommitWrites` and `DoneIsFinal` do the frame reasoning once.
`AppendOnlyCorrect` and `Refinement` follow from `IInv` and the same lemmas.

**`CustodyLedgerProofs`**: type correctness for any clock, from `BaseInv`
(`BaseInvariance`: ids are unique, an inserted row is its request's, and a chain that is
not empty has a last row, which stands in for induction over finite sets). With a strict
clock (`ASSUME StrictClock`), `CustodyChainIntact` and `NewestTransferFound`; the run
`custody_clock` shows that something of the kind is needed. Here the order of a chain
comes from `created_at`, so the invariant has to say what a sequence gives for free.
`ClockInv`: no row is younger than the last reading. `ChainLockInv`: who appends to one
item at the same time has another spelling and has updated other rows. `LinkInv`: where
all ids are spelt as stored (`Plain`), requests exclude each other, so the row a request
inserted follows the present tail and is younger than all of it. `HashInv`: a hash covers
the event as it was passed, so one respelt event is enough for the chain to be reported.
`TransferInv`: a transfer that waits for its COMMIT is younger than the item's other
transfers, in whatever spelling, because all transfers update the `evidence` row.
`VerifyExtends` is the counterpart of `CommitExtendsChain`.

**`CaseAccessProofs`**: all five properties of the run `case_access`, for any users with
any roles and any resources (`CodesAssumption`, `ExpiriesAssumption`,
`GivenRolesAssumption`, `ShareCodesAssumption`). The properties speak of rows; what is
missing for induction is what a request has in hand between its check and its write.
`ReqInv` says it: a request that got past its check carries the rights that were in force
at that moment, each a row of its user that was there already (`HeldIn`; `RightsAreAges`
and `RightsHold` derive it from the check), or is top command's on evidence or a report;
the row a status change was computed from has consistent stamps, a removal of an owner
counted more than one, and rows named by a request exist. `AgeInv` (rows are older than
the next one) makes "held" imply "held through an older row" once the new row is written,
and `Grown` that no later removal, revocation or expiry undoes that it was held then.
`ShareInv` ties each share to a grant of its own. `OwnerInv` has a witness instead of a
count. With requests served one at a time (below), `OwnerAlways` and `TransitionsCorrect`
drop the exceptions: a case always has an owner, and its status takes the transitions of
the table only.

**`AccountsProofs`**: all four properties of the run `accounts`, for any
administrators, any tree of units, any threshold (`AdminAssumption`,
`ThresholdAssumption`, `RolesAssumption`).
`IInv` adds to the properties the shape of the rows, that an account which was
never invited has no password (`UninvitedInv`), and that a handler in its slow half
is about an account, an invitation and a credential that exist (`ReqInv`). With
requests served one at a time (below), `ExceptionsNeedOverlap` says that neither of
the races of `overtaken` arises - an account at the threshold is LOCKED or was set
INACTIVE, an exception that stays - and `LockKeepsOut` that no session and no token is
given to a locked account.

**`DocumentProofs`**: about `DocumentLifecycle` and `DocumentPage`, for any contents,
approvers and users. For any number of requests and checks under way at once: types,
`SignedFlagTellsSignatures`, `SignatureBoundToVersion`, `OneActiveKey`,
`AnsweredOnce` and `ChecksTellTruth` (`MaxVersionsAssumption`,
`MaxApproversAssumption`). Again it is the requests that make the properties
inductive: `ReqOk` says that the version, chain, row or key which a request read
still exists with the owner and content it had, since rows are only added or change
state (`VersionsKept`, `ChainsKept`, `SignaturesKept`, `KeysKept`; `ReqStays` and
`VaultStays` do this frame reasoning once for all steps that write rows). `CheckOk`
is the argument for `ChecksTellTruth`: what a check found altered stays altered,
and as long as ledger and object are found as they were written, the outcome at the
time when the document was read is among the verdicts that were true (`held`). The
final verdict is then one of them whether the alteration came before, between or
after the reads. `AnsweredCorrect` is an action property; it follows from
`SignaturesKept`, which every step lemma proves along with the invariant.

With requests served one at a time (below), it proves `VersionsMoveForward`,
`ReviewMatchesChain`, `ChainsInOrder` and `TurnIsOffered`, and which actions leave
FINAL. `DocumentInv` states them in an inductive form: numbers are positions and the
newest version is shown (`NumberInv`), only the newest chain can be active, a document
under review has an active one and a document that may be submitted has none
(`ActiveInv`), and a chain's steps fall into approved, decided
and open at its turn (`StepsInv`). `TurnIsOffered` then is a fact about one state: the
page's, the inbox's and the service's way to find a turn agree whenever `StepsInv`
holds.

**`EvidenceProofs`**: types, `TrailNamesCustodian`, `TrailInOrder` and
`ModifiedIsReported`, for any users, members and artifacts, any number of requests
under way at once and trails of any length (`MembersAssumption`,
`NobodyAssumption`). The checks of a handler speak of the item's `status`, the
properties of its trail; `StatusInv` connects them: a status past REGISTERED means
that the trail has a seal, RECEIVED that it has a completed receipt, RETURNED that it
has a return (`Explains`). `ReqInv` carries what a handler read across the gap to its
transaction: the status may have changed by then, but the event that explained it is
still in the trail, because the trail only grows (`ExplainsStays`, `ReqStays`,
`EventStays`). That is why the order of an item's life survives races that its status
does not survive (`TrailTellsStatus` holds of requests served one at a time only).
`QuietStep`, `AppendStep` and `MoveStep` treat the commits that add no event, one event,
and one event of the handlers that only set the next status.

`PageGuidesItem` needs no restriction either. `TransitInv` is what it rests on: an item
in transit has its request as its newest event unless a receipt was blocked by bytes
that do not match, and no item is ever VERIFIED. So the page, which looks at the newest
event only, finds the transfer that the service would accept. Two things it offers can be
refused, and the property names them: the artifact form to those who are not the
custodian, and what reads bytes that cannot be read.

With requests served one at a time (below), it proves `PartiesHoldItem`,
`TrailTellsStatus` and `OnlyAnswersLeaveTable`: nothing but an answer to a transfer
takes an item along a transition that is not in the table, so that what
`evidence_replay` shows is the only kind of its violation.

**One request at a time.** The last parts of `EvidenceProofs`, `DocumentProofs`,
`CaseAccessProofs` and `AccountsProofs` have the hypothesis
`Serial == \A s, t \in Slots : s = t`: one slot, as in the serial runs, with
everything else unbounded, and with failures, crashes, expiry and stored bytes that
change between a request's reads and its write. It is needed: with two slots TLC finds
each of these properties violated, which is the first pattern above. The argument is
the same in all four. `StillTrue(r)` restates what the handler of request `r` checked,
of the *present* rows; it holds after the reads, nothing that is not a request can
undo it, and a commit, whose guards it stands for, leaves no request behind. `SerialInv`
joins it to the properties, and `SerialInvariance` proves it beside `IInv`, whose
step lemmas are used again. So these theorems also say which check of a handler each
property rests on.

**`WebSessionProofs`**: `RefusedOnlyWithoutSession` and `AnswersAreForShownUser` for
any number of calls that refresh and retry at the same time, any users and any bounds;
no assumption is needed. Both properties speak of calls that have ended; the invariant
follows a call through its stages. `CalmOk` says what keeps a calm call from being
refused: a live session behind the cookie, then behind the cookie that its refresh
took along, then a fresh token from the refresh to the end of the retry. `SureOk` says
that while the tab is settled, all calls under way are sure, and every token and cookie
they carry belongs to the user shown; so the token that a *different* call's refresh
leaves in memory does no harm. `GrantOk` and `SettledInv` are the same for what an
answer brings and for what the tab holds. `Follows` states what a step does to the
calls it is not about, and `Step` concludes the invariant from it; `Sending`,
`Moving`, `Granting`, `Ending` and `LeaveStep` treat the kinds of steps.

**`WebPageProofs`**: `ShownIsOwnWrites` and `MemberSeesPage`, for any of the pages, any
visitors and any number of refreshes and handlers under way at once
(`PagesAssumption`, `VisitorsAssumption`). Both speak of a page at rest. Before it is at
rest, a part that is not shown as last written must be on its way: `Ahead(p)` says that
a refresh under way still has to ask for `p` or to set it. `FreshInv` and `SeenInv` are
the two properties with that alternative, and `OneInv` says that without a race there
is one refresh at most, so that "on its way" cannot be overtaken. The tables of
`WebPages` enter through three facts only: a refresh is a row of one to three phases
whose try blocks are runs of it (`RefreshTables`), what a phase catches is among the
parts it asks for (`CaughtParts`), and a part that a phase does not catch is open to
whoever has a role in the case (`OpenRoutes`, `MembersView`, `OpenPasses`). `ReadStep`,
`ApplyStep` and `FailStep` are the steps of a refresh, `AcknowledgeStep`, `ReturnStep`
and `SetStep` the ends of a handler. `FreshInv` is about the changes that the page
follows; `WroteInv`, proved beside it (`WroteStep`), says that outside `NotReadAgain` these
are all that were acknowledged, because a handler that neither refreshes nor sets its
answer changes no other part (`Unfollowed`, from the tables).

**Model-checked only.** `EveryRequestAnswered`, since liveness under fairness is out of
the prover's reach. Every other property of a passing run is stated by a theorem.

## Not modelled

- Cryptography, JWT, MFA codes, mail, HTTP parsing, rate and size limits, input
  validation, and the stubs for search and events: pure functions, I/O, or code
  without behaviour of its own.
- The spelling of ids outside the two ledgers. The other models name users, items and
  rows as the database returns them, although validation lets capitals through; string
  comparisons such as `toUserId === actorUser.id` (`evidence.service.js` 339), the test of
  a `transferId` (506) or the removal of duplicate approvers (`approval.service.js` 42) are
  taken as comparisons of the rows that are meant.
- Storage writes: a file is stored under a fresh name before the transaction, so
  a failure leaves a file that no row refers to, and nothing else.
- The document vault's comments, metadata and duplicate warnings, titles and
  priorities of cases, and numbers drawn from upserted counter rows, which nothing
  else reads.
- Listing, filtering, counting and CSV export of the audit ledger; dashboards,
  settings and static pages of the web client, which read and format.
- The permission check in front of the evidence and document routes: any user may
  call any operation of those models, which allows more behaviours than the routes
  do. The check itself is `Access`, and who is asked for what is `Routes`.
- Several cases, documents, items or accounts at once: their rows do not meet
  except in the audit ledger.

## Plan

All modules of the plan are written: the ledgers, `Evidence`, the document
modules with `Vault`, cases with access and sharing, accounts, and the web client.

What could follow: the guard of `Access` in front of `Evidence` and
`DocumentLifecycle`, once their instances are small enough to be composed.
