# Trax OS: TLA+ verification project

TLA+ models of the Trax OS repository, the TLC runs that check them and the
TLAPS proofs about them. `PROJECT.json` links every definition to the source
lines that it models, every property to a mutant that breaks it, and lists the
hazards that the properties are for.

## 1. The system

| Part | State | Operations | Interacts with |
|---|---|---|---|
| Command unit of work (`command_executor.py`, `command_registry.py`, migration 0002) | command receipts, change sets, change events | `journey.update@1`: authorise, lock the command, replay or decide, audit, commit once | Journey rows, memberships |
| Journey rows (`journey_repository.py`, `schema.py`) | one versioned row per Journey | create, update (only through the executor), delete; `_touch_journey` by every timeline and packing mutation | everything below a Journey |
| Timeline (`journey_repository.py`) | segments with a position and a version | create, update, reorder, delete and compact; cascade from the Journey | Journey row |
| Packing list (`journey_repository.py`) | items with quantity, packed quantity, version | create, update, progress, delete | Journey row |
| Authentication and sessions (`auth.py`) | users, personal workspaces, memberships, sessions | register, login, authenticate, CSRF check, logout | every request |
| API shell (`main.py`, `routes.py`, `errors.py`, `request_id.py`, `database.py`) | none (connection pool) | contract discovery, readiness, error shaping | - |
| Web authentication (`auth.tsx`, `http-auth-repository.ts`) | what a tab shows; the shared cookie jar | open, sign in, sign out, reload | `auth.py` |
| Web Journey client (`http-journey-repository.ts`, `journey-data.tsx`) | the document loaded last, identifiers of pending updates | load, save a difference, retry | API, pages |
| Web Journey domain and pages (`journey-service.ts`, `domain.ts`, the pages, `routes.ts`, `app.tsx`) | route, drafts, the document shown | edit, commit, navigate | Journey client |
| API client (`packages/api-client`) | one cached negotiation | negotiate, choose a version, validate, call | server |
| Contract generation and release (`contracts.mjs`, `generate-api-client.mjs`, the compatibility scripts) | generated files beside their source | generate, check for drift, compare with the release before | API client |
| Module boundaries (`module-boundaries.mjs`) | a registry and the tree it describes | one check | sources of all parts |
| PowerSync spike (`spikes/powersync`) | replicas with epochs, grants, receipts, deletion markers; on the client a queue, overlays, results, a session, a reset file and a quarantine file | register, upload, acknowledge, revoke, retain, reset, quarantine | PostgreSQL, files |

Every API request runs in one PostgreSQL transaction under READ COMMITTED, on
one of many connections. What is hard is between statements: another request
commits, a role changes, a statement or the process fails, the answer is lost
after the commit. Nothing serialises requests except the locks that the code
takes: `FOR SHARE` on the membership, an advisory lock on the command
identifier, `FOR UPDATE` on the Journey and the implicit locks of UPDATE,
DELETE, unique indexes and foreign keys. On the other side of the network a
browser goes on while its requests are under way: they overlap, get lost and
arrive late. In the spike the client's state is spread over stores that cannot
commit together, and the process may stop between any two.

What makes each part correct:

* unit of work: a command is decided once; its event, its receipt and its row
  change appear together; what clients are told is what was decided; nothing
  commits for a member who may no longer write; every request ends;
* Journey rows: no update is lost; the log of before/after states can be
  replayed to the row;
* timeline: no edit is lost; every change moves the Journey's version; the
  order is the requested one; positions have no gaps; nothing outlives the
  Journey;
* packing: the check on an unlocked read is enough; edits and progress do not
  undo each other; waits end;
* sessions: one account per address; a session that was logged out never
  authenticates again; no page waits for ever;
* web client: a save is the edit that was made; a retry is recognised and no
  identifier is used for two contents; nothing unseen is overwritten or deleted;
  a form is saved to what it was filled from; a save asks for its edit and for
  nothing else; what the page shows parses;
* API client: callers share one negotiation and recover from a failed one; a
  negotiated version outlives every release that the checks allow; requests
  mean what the contract says and answers may grow;
* release: no page, of whatever age, loses its server;
* boundaries: what the check accepts keeps the boundaries by what imports really
  resolve to;
* spike: a command is applied at most once, only for an eligible replica and
  only to the incarnation it was meant for; a crash neither locks the client out
  nor loses a command nor lets a quarantined one be carried out.

## 2. Modules

| Module | What it is |
|---|---|
| `JourneyTypes` | constants and their assumptions, rows, receipts, events |
| `JourneyLedger` | abstract specification: atomic steps on committed state |
| `CommandUow` | the write path, one action per SQL statement, failures included; `Ledger` is the ledger under its refinement mapping |
| `Timeline` | segment mutations and `delete_journey`, one action per statement (one per row for bulk statements) |
| `Packing` | item mutations and `delete_journey`, one action per statement, with the deadlock detector |
| `AuthSessions` | `auth.py` composed with the provider and the sign-in screen of several tabs |
| `JourneyDocument` | the web application's document, its edits and `parseJourneyData` |
| `JourneyApi` | the API's Journey operations on the server's document: a reorder in two steps, the others in one |
| `JourneySave` | the difference of two documents that `save` turns into requests |
| `JourneyPages` | the pages over the document, with commits under way and the server they reload from |
| `WebJourneyClient` | `HttpJourneyRepository` and `JourneyDataProvider`, composed with `JourneyApi` and another writer |
| `VersionNegotiation` | ranges, `negotiateContract`, `supportBreakingChanges` |
| `ApiClient` | `TraxApiClient` under upgrades of the server |
| `SchemaContract` | the generator's schema subset and the validator, against what JSON Schema means |
| `ContractRelease` | generation file by file, drift check, release, pages of any age |
| `ModuleBoundaries` | `module-boundaries.mjs`, against what imports resolve to |
| `ReplicaServer` | the spike's command server: what each request does to the database |
| `ReplicaTraffic` | the server under any traffic of its clients |
| `ReplicaClient` | the spike's client composed with the server |
| `JourneyLedgerProofs`, `CommandUowProofs`, `TimelineProofs`, `PackingProofs`, `AuthSessionsProofs` | the proofs about the modules they are named after, see section 4 |
| `ContractProofs`, `WebJourneyProofs`, `ReplicaProofs` | the proofs about `ApiClient`, `ContractRelease` and `ModuleBoundaries`, about `JourneyPages` and `WebJourneyClient`, and about `ReplicaTraffic` and `ReplicaClient` |
| `MC*` | the instances for TLC |

### CommandUow and the code

A request moves through `pc`: `new` (nothing read), `authorize`
(`authenticate` and `require_csrf` passed), `lock`, `receipt`, `row`, `write`,
`audit` (the statements of `CommandExecutor.operation`), `statement` (the plain
mutations), `commit`, `respond`, and `done` or `failed`. `effect` holds the
uncommitted writes, `before` the locked row, `reply` the result. Locks are not
stored: PostgreSQL releases all of them at the end of the transaction, so who
holds which follows from `pc`, `before` and `effect` (`HoldsMembership`,
`HoldsCommand`, `HoldsRow`). A statement that waits is an action that is not
enabled.

`Abort` is every failure between two statements: an exception, a closed
connection, a stopped server. `LoseReply` is a failure after the commit. A
retry or a duplicate is another request with the same command. `SetRole` is an
administrator's statement outside the repository's code; it waits for the
`FOR SHARE` lock.

Abstractions: one workspace (every statement is scoped to it); a payload is a
member of `Data`; the SHA-256 digest is the command itself; a change set and
its only event are one record; `born` (created_at) tells apart the Journeys
that used one identifier; the permission is asked for twice in one transaction
and the second answer cannot differ, so it is one step. The registry's lookup
and the payload validation happen before any database access and have one
outcome for the commands of the model. A packing or timeline mutation is
`TouchJourney`; the `Timeline` module opens it up.

The ledger allows one thing that a reader may not expect: `SELECT ... FOR
UPDATE` locks nothing when it finds no row, so a `resource_not_found` receipt
says that the Journey was absent at some moment before the commit, not at the
commit. `absent` in the ledger is that moment; the refinement mapping reads it
off the requests that carry such a verdict (`FoundNothing`).

### Timeline and the code

One Journey, its segments and requests that create, update, reorder or delete
them or delete the Journey. Statements see committed rows and their own drafts
(`View`). The bulk `position + 100000` takes its snapshot (`Park`) and then
visits its rows one at a time in any order (`ParkRow`), waiting for writers,
re-reading what they committed and skipping what they deleted, as READ
COMMITTED does. The unique index is checked row by row: a position that another
open transaction takes or gives up is waited for (`PositionFree`), a taken one
fails the request (`Taken`). `overtaken` records whether another transaction
has committed since a request began; no guard reads it.

What the model shows beyond the properties: a segment created between the
SELECT and the bulk UPDATE of a reorder is left at 100000 and beyond; with a
second create that had read the maximum earlier, two segments stand exactly
100000 apart, and the bulk UPDATE of the next reorder fails on the unique index
whenever it visits the lower one first. An undisturbed delete repairs both
(`RepairsPositions`).

### Packing and the code

As `Timeline`: statements see committed rows and their own drafts; a statement
that waits for a row is not enabled. Each mutation locks its item and then the
Journey (`_touch_journey`), `delete_journey` the Journey and then its items by
the cascade, so circles of waits are real; `Blockers` says who waits for whom
and `Victim` is the detector. `update_packing_progress` reads the quantity
without a lock (`Read`), compares, and writes under the record version.
`Reused` is the set of identifiers that more than one create may name, after a
deletion or while another create is under way; clients choose identifiers, and
the others are named by one create (`Creatable`). An item that is deleted and
created again between the read and the write has version 1 again, and the check
constraint turns the request into a 500; `UnlockedCheckSuffices` is therefore
about the others.
Two creates that race for one identifier are such a case too: the second waits
for the first and succeeds when the item is deleted in between.

### AuthSessions and the code

A request takes the cookie along when it is sent, is handled in two steps (the
read, and the rest of its transaction) and changes the jar when its answer
arrives. `loggedOut` remembers the tokens whose logout was carried out; no guard
reads it. The unique index on the address makes a second registration wait for
the first. Passwords are right or wrong, and Argon2 is not modelled. What the model
shows beyond the properties: a late answer to a logout deletes the cookie of a
session that another tab has opened meanwhile, and a logout with an expired
session throws and leaves the page signed in until its next request.

### JourneyPages, WebJourneyClient and the code

`JourneyPages` has the user: the route, the mounted component with its draft and
its `busy` flag, and commits under way. A commit sends the requests of its save
in the order of their stages, then reads the server's document, and `Succeed`
shows that document as it is (`setData(persisted)`; `parseJourneyData` has no
caller): with what other commits and devices have done, and older than what is on
the page when another commit read later and ended first. Edits are made on the
document of the page, which may be old. The requests of a commit that fails end
with it and the reads of a load are one step; `WebJourneyClient` opens both up.
It has the network: a task is a load or a save that walks through its reads or
requests one at a time; a request may be lost before or after the server has
carried it out, and a lost one may be carried out late. The server of both is
`JourneyApi`. `reorder_segment` compares the version and makes up the new order
on plain reads (`Checked`) and writes by identifiers (`Applied`), and anything
may be carried out between the two; the other operations are one step, and what
happens inside them is the subject of `CommandUow`, `Timeline` and `Packing`. A
segment that arrives between the reads and the writes of a reorder is left at
100000 and beyond, and one that leaves makes a gap: the instance of the pages
begins with such a timeline. A behaviour of `WebJourneyClient` begins by choosing
one of the `Scenarios` of the instance, kept in `max`: which edits a person makes
and how often anything else may happen.

The provider drops the answer of a load when its page was left, but the
repository below has already replaced its `current` document by then. When a load
or save of the old page ends after the load of the new one, a save of the new page
is therefore compared with a document that its page does not show: it deletes what
only the repository has, and creates again, with version 1, what only the page
has. `WritesOnlyWhatWasSeen` names these two as its exceptions (`own`, `reborn`)
and says that there are no others; the fourth scenario reaches both. A reorder is
held to what was seen when its version is compared and not when it writes, for
that is what the code does (`timeline_reorder_version`). Not errors by any
document either, but worth knowing: an update A whose answer is lost, followed by
another lost update B and then A again, is refused as a conflict with itself; with
two tasks at once, so is an update whose identifier was forgotten by a load that
had done its reads before the update was carried out, which is why the second half
of `RetryIsRecognised` is about one task at a time (`OneAtATime`) and no late
requests; a create that is repeated after a lost answer is a second Journey; the
end of a late commit closes a newer form.

Seven variables are there for the properties and no guard but that of new
identifiers reads them: `authors` (which Journeys are what an update made them),
`attempts` (the updates sent since one with another content), `born` and `reborn`
(objects the server has held, and those created twice), `loader` (whose task gave
the repository its document), `used` and `commands` (identifiers given out; random
in the code, hence never repeated).

### ApiClient, SchemaContract, ContractRelease and the code

`ApiClient` keeps the negotiation (none, pending, failed for those that wait, or
done) and each call's progress; the server is replaced by any advertisement
`supportBreakingChanges` lets through. Its instance lets the client support two
versions of a command, although today's generated client has one, so that the
choice is one. `SchemaContract` has no state: `validateSchema` (generator) and
`validate` (client) are operators over schemas and values, with `Means` as the
reference; `MCApiClient` checks them against each other over the schemas and
values of its instance. `ContractRelease` knows an artifact by the source it
was made from; generation copies file by file and can be interrupted. The
comparing library is external (`Differences`). The exemption that
`contract-compatibility.mjs` makes once, for the legacy security metadata of one
published baseline, is left out: today's baseline is not that one, and without
the exemption the model's comparison only blocks more.

### ModuleBoundaries and the code

The tree is a record of sets that edits change one item at a time. The check is
one operator per function of the script; the properties never use the registry's
rules alone but what imports resolve to (`Landing`). Two things differ from the
script. Every import is taken to be seen, while the script does not collect types
written `import("x").T` (lines 782-860). And a specifier that is neither relative
nor a package name nor an alias, but resolves inside the repository all the same,
is inspected by the script (1091-1119) and is not an edit of the model.

### ReplicaServer, ReplicaTraffic, ReplicaClient and the code

A request of the spike's server is one transaction under locks, hence one step;
a command request has two (rate window, execution) and anything may happen
between them. `ReplicaTraffic` lets every registered client send anything under
any session it was ever given. `ReplicaClient` has the four durable stores, the
gate that serialises the application's calls (`pc`) and the SDK's upload callback
(`up`), which the gate does not serialise; the steps of `performReplicaReset` and
of the recovery in `openSpikeClient` are the same actions, and `mode` says where
a failure leads. A reset that fails gives the gate back and the application may
queue and discard before it repeats it, since neither call asks for an unfinished
reset; `exposed` remembers the commands that are queued then, and the pending
ones beside an entry that is discarded then. No guard but that of new identifiers
reads it. The SDK and the synchronisation service are external: connecting
delivers the server's current resources or fails; when a reset gives up waiting
for them its new database stays open and uploads.

A deletion and its marker are one step here, so that a later sequence number has
a later time. In PostgreSQL the time is read before the trigger waits for the row
of the counter: two deletions at the same moment may have their numbers and times
the other way round, and at the instant between their two times of expiry, ninety
days later, the floor may stand below a marker that is purged. That instant is not
modelled.

## 3. Runs

| Run | Instance | Shows |
|---|---|---|
| `uow` | 1 user, 1 Journey, 3 requests, 3 commands (two share an identifier, the third expects what the first makes); 221,126 states | `ExactlyOnce`, `NoLostUpdate`, `AuditReplays`, `AnswersMatchReceipts`, `NobodyStuck`, `AuthorityAtCommit`, `DecidedOnce`, `ImplementsLedger`, `TypeOK` |
| `timeline` | 3 segments with 2 requests, or 2 with 3, versions named up to 2; 687,775 states | `NoOrphans`, `NoLostEdit`, `EveryChangeTouches`, `RepairsPositions`, `ReorderMovesOne` |
| `timeline_reorder_version` | 2 segments, 2 requests | violation of `ReorderChecksVersion` |
| `packing` | 2 items, one of them created again under its identifier, 3 requests, quantities up to 2; 774,735 states | `UnlockedCheckSuffices`, `OnlyDropsDeadlock`, `EditsKeepProgress` |
| `auth` | 2 tabs, 2 addresses, 5 requests, a loss, an expiry, a reload; 325,560 states | `OneAccountPerEmail`, `LoggedOutStaysOut`, `PagesSettle` |
| `web` | four scenarios: every kind of edit, 3 in a row; 2 tasks at a time with a loss, a late request and another writer, reorders in two steps; repeated attempts with 2 losses, 2 mounts and an expiry; 2 tasks that outlive their page, over 2 mounts, with another writer; 1,449,019 states | `SavedAsAsked`, `RetryIsRecognised`, `WritesOnlyWhatWasSeen` |
| `pages` | a Journey with 2 segments that are not dense and an item, a second Journey, a third segment and a second item to create; 2 commits under way, 2 edits here or on another device; 499,030 states | `DraftKeepsItsTarget`, `DocumentStaysValid`, `AsksOnlyForTheEdit`, `EditsStayInTheirJourney` |
| `client` | 2 callers, 2 failures, 2 upgrades, 3 attempts; some 10,600 pairs of a schema and a value; 318,400 states | `NeverStranded`, `NoStaleFailure`, `CallsEnd`, `ValidatorMeansTheContract` |
| `gates` | 2 edits, 2 releases of contracts; and, beside it, 4 edits of a tree in the repository's shape, or every combination of the edits of its Python side; 514,020 states | `OldClientsKeepWorking`, `ImportsKeepBoundaries`, `PythonLayersHold` |
| `replica_server` | 1 replica, 1 resource with 2 incarnations, 2 sends, 2 reset requests, epochs up to 2, time up to 3; 1,311,728 states | `DeletionsStick`, `AppliedOnce`, `AppliesOnlyWhileEligible` |
| `replica_client` | capacity for 2 commands, 2 sends, 2 crashes, a loss, a revocation, one reset, an application that may queue and discard at any time; 501,902 states | `ReopensAfterCrash`, `NoIntentLost`, `ResetFinishes` |
| `replica_overlays` | the same instance | violation of `EveryOverlayIsQuarantined` |

Bounds. Three requests are what a duplicate needs next to a third party
(retry + original + deletion, re-creation or role change); the theorems remove
the bound for the write path. Three segments tell moving from swapping; the
races need three requests on a row that is deleted and created again, for which
two segments suffice; the constraint of `MCTimeline` leaves out only three of
both. `MaxVersion` bounds only the versions that clients name. Five requests of
two tabs let a registration or login race with another, with a logout and with a
request that was sent before it. The scenarios of the web client divide the
dimensions (kinds of edits, retries, overlapping tasks, overlapping pages),
because their product is too large; each property holds over all of them and each
has a part that it is about. On the pages two edits, both here or one elsewhere,
are what it takes for a commit to be overtaken at any of its steps; the theorems
remove that bound. Two edits and two releases are what a client of the release before last needs. One replica is
enough for the server's properties, which are each about one replica and one
resource; two epochs and two incarnations make an older and a newer session and
resource, and time up to 3 passes both the support and the retention period of 2.
Two crashes, at any steps, and a lost answer make every combination of the
client's stores that a single reset and its repetition can leave; `MaxEpoch = 1`
allows that one reset.

Requests, edits and sends are bounded, so every behaviour ends, and each
configuration says `CHECK_DEADLOCK FALSE`; that nobody waits for ever is stated
as properties instead (`NobodyStuck`, `OnlyDropsDeadlock`, `CallsEnd`). Symmetry is used for requests, segments and Journeys in runs without a
liveness property.

Fairness. Nothing is assumed of failures, of new requests, of users or of an
administrator.

* `AuthSessions`: weak fairness of serving, answering or losing each request: a
  `fetch` ends, with an answer or an error.
* `ApiClient`: weak fairness of the bootstrap request and of what follows an
  `await`.
* `ReplicaClient`: weak fairness of opening, of the reset's steps, of uploads
  and of answers: the SDK retries uploads and the process is started again after
  a crash. Strong fairness of the application's call of a reset: it repeats one
  that failed, between other calls that it may make. What tells it to is the
  exception that the failed call throws; `resetRequired` is false again as soon
  as the acknowledgement was accepted.

`CommandUow` needs none: `NobodyStuck` says that while any request is in a
transaction, some request's statement can run. A request has finitely many
statements and none is repeated, so the requests under way come to an end if the
server keeps running what it has begun and the administrator leaves the roles
alone. It is checked as an invariant, over
`ENABLED`.

### What the violations show

`timeline_reorder_version`. `reorder_segment` compares the record version on a
plain read and writes without comparing it again; an update or reorder of the
same segment that commits in between goes unnoticed.
`docs/development/SERVER_BACKED_WEB.md` line 17 lists "Optimistic record
versions", and `docs/architecture/AGENTIC_CORE.md` line 288 says "Conflicts are
explicit outcomes, not silent last-write-wins behaviour." No content is lost
(`NoLostEdit`) and the segment stands where the last reorder put it
(`ReorderMovesOne`).

`replica_overlays`. A reset that fails after the quarantine was written gives the
gate back; `queueCommands` (`client.ts` 1150-1179) accepts commands from then on,
and the repetition, which takes no second snapshot, clears them with the SDK's
queue, although the comment at line 1322 says that "Every application overlay,
including a crash orphan with no SDK CRUD entry, is already represented in the
persisted pending quarantine". They were accepted, are in no store and were never
sent. `NoIntentLost` says that these, and the pending commands of a reset during
which the application discards another entry, are the only ones that can be lost.

Three more statements of the repository are definitions in the modules that no
run checks, because the code does not keep them; adding one as an invariant of
the run named shows how.

* `ActiveInOneStateOnly` (`replica_client`). A crash between a result and the
  completion of the SDK's transaction, and a reset later, put a command with a
  result into quarantine; `openSpikeClient` refuses such files for ever.
  `ReopensAfterCrash` says that this and a crash between the quarantine file and
  the reset file are the only situations in which the client refuses its own
  files.
* `SupportedIsEnforced` (`client`). Keywords beside `anyOf` pass the generator
  and are not enforced; ADR-017 line 17 says "Generation fails on unsupported
  constructs". No schema of today's contract has them.
* `LayersHoldForEveryName` (`gates`). Layers are not compared for imports by
  package name, the package's own included: a root may export an adapter and a
  feature import it by that name, and a generated file may import the maintained
  runtime of its package, against `MODULE_AND_PACKAGE_BOUNDARIES.md` lines 80 and
  85. `ImportsKeepBoundaries` keeps adapters hidden from relative and configured
  imports only.

## 4. Proofs

The theorems hold for every value of the constants: any number of users,
requests, Journeys, segments, items, tabs, tasks, calls, releases, replicas,
resources, losses and crashes, without the bounds of section 3. What they assume of the constants
are the ASSUMEs of the modules, which TLC evaluates in every run:

* the marks for absence (`None`, `Keep`) are not values of the tables
  (`NoneAssumption`, `KeepAssumption`, `AbsenceAssumption` in `Timeline`,
  `Packing` and `ReplicaTraffic`, `PresenceAssumption` in `ReplicaClient`);
* commands are records of identifiers, positive versions and data; a quantity
  bound is positive; `Segments` is finite; contents of the spike's commands name
  resources, incarnations and versions and, for its client, are finitely many
  (`ContentsAssumption`, `CapacityAssumption`); the retention period is a number;
* a form of a segment has one of the two kinds (`InputsAssumption`), and so have
  the edits of another device, which are such as a page offers
  (`ElsewhereAssumption`); the server begins with tables whose identifiers are
  keys (`FirstDocumentAssumption`), for the pages with a document that parses
  (`FirstPageAssumption`); there are at most 100000 identifiers of segments, so
  that the positions a reorder gives stay below those of parked segments
  (`SegmentIdsAssumption`); the web client's scenarios name tasks and kinds of
  edits that exist (`ScenariosAssumption`); names of Python modules are sequences of
  names (`TreeAssumption`);
* versions in advertisements and sources are whole numbers, as
  `Number.isSafeInteger` demands of them (`AdvertisedAssumption`,
  `SourcesAssumption`), and what a client supports is one valid range per
  command, as the generator makes it (`SupportAssumption`).

Each proof has the same shape: an inductive invariant, one lemma per action (or
per kind of action) that says how it is preserved, and theorems that follow. The
invariants were checked by TLC on the instances of the runs before they were
proved.

* **The ledger** (`JourneyLedgerProofs`). `NoForkedVersion` and `ChainUnbroken`
  are not inductive: that a new event extends its Journey's log needs the log
  related to the current row (`RowAhead`, `LogExplainsRow`), and that a command
  has one event needs it related to the receipts (`AppliedIffEvent`).
  `LedgerInv` is their conjunction. Theorems `LedgerCorrect`,
  `LedgerDecidesOnce`.
* **The transactions** (`CommandUowProofs`). `UowInv` says what a request
  carries at each statement (`Carries`), that what it has read is still so
  (`StillAuthorized`, `StillLocked`, `StillUndecided`) and why: one holder per
  command and per row (`OneHolderPerCommand`, `OneHolderPerRow`); `BirthsDiffer`
  keeps successive Journeys with one identifier apart. Theorems `UowInvariant`,
  `UowTypeCorrect`, `UowAuthority`. `AnswersInv` adds what a reply says while it
  is under way; a receipt is never changed, so a reply that was read from one
  stays true. Theorem `UowAnswersMatchReceipts`.
* **The refinement** (`CommandUowProofs`, second half). Steps before the commit
  are the ledger's `Notice` or leave it alone; the commit is one of its other
  steps, because `UowInv` says that what the transaction read still holds.
  Theorem `UowImplementsLedger`. The ledger's theorems, instantiated by the
  refinement mapping, give `UowExactlyOnce`, `UowNoLostUpdate`,
  `UowAuditReplays` and `UowDecidesOnce`.
* **The packing list** (`PackingProofs`). `PackingInv`: a written row was made
  from the committed one, which is still there (`Written`), because a row has one
  writer (`OneWriter`). For `UnlockedCheckSuffices`: an identifier that is not
  used again has one create (`CreatedOnce`), so its versions only grow
  (`NewestShown`), and the version a client names is met again only while the row
  is the one that was compared (`ReadStillHolds`). Theorems `PackingInvariant`,
  `PackingTypeCorrect`, `PackingCheckSuffices`, `PackingEditsKeepProgress`.
  `PackingOnlyDropsDeadlock` needs an argument of its own: a request that has
  written nothing blocks nobody, and one that waits for the Journey waits for a
  request that only has to commit, so no set of requests without a
  `delete_journey` can wait only for itself.
* **The timeline** (`TimelineProofs`). `TimelineInv`: `Written` and `OneWriter` as
  above; `OneToucher` and `Touching` for the Journey row; `KeyHolds`, that an
  INSERT keeps the Journey from being deleted until it commits; `Cascading`, that
  the segments a deletion has yet to visit are all that remain. A bulk statement
  is many steps, so `Makes` is about single rows. `ReadMax` is a maximum over a
  finite set, whose existence is proved by the least counterexample among the
  subsets (`FiniteSetTheorems`), not by induction. Theorems `TimelineInvariant`,
  `TimelineNoOrphans`, `TimelineNoLostEdit`, `TimelineEveryChangeTouches`.
* **The order of the segments** (`TimelineProofs`, second half). `OrderInv`, on top
  of `TimelineInv`: no two rows have one position, among the committed rows, as
  any transaction sees them and between the drafts of two transactions
  (`CommittedApart`, `SeenApart`, `DraftsApart`; the last is what a commit needs to
  leave the others' view in order). So the list a request reads is the one list
  in the order of the positions (`SortedList`, by a least counterexample, and
  `ListedRows`). `Planned` says that what a request has yet to renumber is the rest
  of that list, after `Moved` for a reorder (`MovedOrder`), and that what it has
  renumbered stands where the list has it; it holds until another transaction
  commits. `Aimed` is the part of it that holds even then. Theorems
  `TimelineOrder`, `TimelineRepairsPositions`, `TimelineReorderMovesOne`.
* **Accounts and sessions** (`AuthSessionsProofs`). `AuthInv`: an open
  registration is the only one for its address, which has no account (`Alone`);
  tokens are numbers of rows, each used once (`Tokens`). The new token is one more
  than the number of sessions, so that freshness needs the cardinality to grow
  with each login and to stay when a session ends, which is a replacement of one
  row by another. A token whose logout was carried out is of an ended session and in
  no answer that is still to arrive, which is what keeps the browser from getting
  its cookie back. Theorems `AuthInvariant`, `AuthOneAccountPerEmail`,
  `AuthLoggedOutStaysOut`.
* **The API client** (`ContractProofs`). `ClientInv`: a call that waits began
  before the negotiation under way could end (`InTime`), and what was negotiated
  is within the ranges of every later server (`Good`), so that the version a
  command has taken is the one it goes out with (`Agreed`). The lemmas
  `RangesAgree` and `ContractNegotiated` say that `negotiateContract` succeeds
  exactly when all ranges overlap, with the highest common versions. Theorems
  `ClientInvariant`, `ClientNoStaleFailure`, `ClientNeverStranded`.
* **The releases** (`ContractProofs`, second half). `ReleaseInv`: the versions a client
  was made with lie within the ranges of the current server (`Supported`), and
  each operation it knows is still the same one (`Known`). The first survives a
  release because `supportBreakingChanges` only lets ranges widen, the second
  because the comparison blocks every change but an optional parameter more,
  which the generator refuses. Theorems `ReleaseInvariant`,
  `ReleaseOldClientsKeepWorking`.
* **The module boundaries** (`ContractProofs`, last part). `GateInv`: a verdict of
  the check is about the tree as it is. Theorem `GatePythonLayersHold`: the module
  an import really arrives at is found among the files, the check looks among the
  classified modules, and `ModulesClassified` makes them the same. Theorem
  `GateGuardsRoots` is the part of `ImportsKeepBoundaries` that holds for every
  tree: an import into another root arrives at a file that this root exports, over
  a declared dependency and along an edge of the registry. It needs that the
  packages of the workspace have internal names, which the check does not demand
  (`PackagesInternal`).
* **The pages** (`WebJourneyProofs`, second half). `PagesInv`: the server's
  document, the page's and every one that was read but not shown yet parse, with
  keys for identifiers (`Document`); a form belongs to what it was filled from
  (`Local`); the requests a commit has yet to send are `Sound`, with content that
  was checked and, past the reads of a reorder, with distinct places below those
  of parked segments, and `About` its edit. A page is shown documents of the past,
  so the property of the page is one of the server, and the server gets requests
  that were made on other documents than its own. `AppliedKeeps`: a sound request
  that succeeds leads from a document that parses to one that does, and changes
  the records of its own Journey only. For a reorder this is the argument about
  places and parking; an index in the sorted list is a cardinality, so the lemmas
  count (`IndexGrows`, `IndexApart`), and none of them needs dense positions.
  `RequestsOfEdit`: the difference between a document and an edit of it is sound
  and about the edit, which needs what each of the twelve edits leaves alone
  (`Touches`) and that a timeline in the same order has nothing moved
  (`NothingMoved`). `CheckedSound`: the order a reorder makes up from its reads is
  sound, so it can be written later. Theorems `PagesInvariant`,
  `PagesDraftKeepsItsTarget`, `PagesDocumentStaysValid`,
  `PagesAsksOnlyForTheEdit`, `PagesEditsStayInTheirJourney`.
* **The web client** (`WebJourneyProofs`). `SeenInv`: every row that
  the repository, the page, a load or a request holds is an earlier state of the
  server's row of that identifier, if there still is one (`RowsSeen`): a version
  that is met again means a row that has not changed. This survives a new row
  because an object is asked for by requests that nobody has read the result of
  (`RequestsHeld`), or is one that was there before (`reborn`), and it reaches the
  deletions because a page shows what the repository compares with as long as the
  document there is from a task of its own mount (`Settled`). A reorder past its
  reads has no claim any more. The lemmas `AppliedEvolves` (every operation of the
  API makes the rows it keeps later ones and adds at most the row it creates) and
  `DifferenceNames` (what the requests of a save name) carry the argument. Theorem
  `ClientWritesOnlyWhatWasSeen`.
  `OneContent`: every place that knows a command's identifier, on either side of
  the network, knows the same content for it. That is the first half of
  `RetryIsRecognised`. The second needs `RetryInv`: the repository's pending
  identifiers are among the attempts, and an update that was carried out and whose
  Journey is still what it made is either the pending one or has been read since,
  so that the next request names a later version and cannot be the same update
  (`Superseded`). Theorem `ClientRetryIsRecognised`. An earlier form of the second
  half, without `OneAtATime`, was not inductive; TLC found the overlapping load
  that section 2 describes.
* **The command server of the spike** (`ReplicaProofs`). `TrafficInv`:
  deletion markers are numbered in the order of their deletions and every number
  from the floor on has its marker (`MarkersInOrder`), so a purged marker lies
  below the floor and a replica that has not acknowledged it must reset; a session
  that was ever given is the current one, the one that an unconfirmed rotation
  replaced, or worthless (`Worth`, `Rotation`); receipts and changes are each
  other's record (`Recorded`) and the changes of an incarnation have no gap
  (`Numbered`). Theorems `TrafficInvariant`, `TrafficDeletionsStick`,
  `TrafficAppliedOnce`, `TrafficAppliesOnlyWhileEligible`.
* **The client of the spike** (`ReplicaProofs`, second half). Four invariants, each
  on top of the one before. `SessionInv`: in every phase of the reset file, a
  session that the client has on disk is the one the server knows, or the server
  will repeat the answer that holds it; a crash can come between any two writes,
  so each phase says which. `StoresInv`: every queued command has an overlay or a
  result, an upload under way is about the head of the queue, what is in quarantine
  was copied before it was cleared, and the reserved bytes fit, with sums over sets
  of commands. `AnswersInv`: a receipt is never withdrawn, so an answer on the wire
  or in the client's results is what the server has decided, or a failure that it
  has not contradicted. `IntentInv`: an accepted command is in the queue, in a
  result or in the quarantine at every step of a reset, and what was never sent has
  no receipt; the commands in `exposed` are left out from the moment the
  application puts them at risk, and every other one is followed through a
  repeated reset. Theorems `ClientSessionsHeld`, `ClientStoresHold`,
  `ClientReopensAfterCrash`, `ClientResultsAreTrue` and `ClientNoIntentLost`; none
  assumes anything of the application.

Only model-checked:

* `PagesSettle`, `CallsEnd` and `ResetFinishes` (liveness under fairness) and
  `NobodyStuck` (over `ENABLED`) are out of the prover's reach;
* `ValidatorMeansTheContract`: `SchemaContract` walks recursive data with RECURSIVE
  operators, which the prover does not take;
* two parts of `ImportsKeepBoundaries`: that the depth-first search of
  `assertAcyclic` finds every cycle (induction over data), and that features do not
  reach adapters, which is a fact about the layers of this repository's registry;
* `SavedAsAsked`: that the requests of a save add up to its edit. It needs, for
  each of the twelve edits, that its one or two requests, in the order of their
  stages, turn the old document into the new one, renumbering included, and an
  invariant that says so for a save that is half done. Nothing in it is out of
  reach in principle; `AppliedEvolves`, `AppliedKeeps`, `RequestsOfEdit` and the
  lemmas about indices are what it would start from.

## 5. What is left

All components with behaviour of their own are modelled, and every safety property
of a run is proved except those above. What a later revision could add:

1. a proof of `SavedAsAsked` as just described;
2. `SchemaContract` with recursive functions in place of RECURSIVE operators, for
   lemmas about single keywords; what the validator says of every value would
   remain with TLC, for want of induction over data;
3. waits of the timeline, with the detector of `Packing`.

## 6. Not modelled

* Contract discovery, error shaping, request identifiers, settings and wiring:
  nothing changes state.
* Row level security policies and migration steps: the statements are scoped to
  one workspace already.
* Static pages, layout, styling and translations.
* Generated code (`schema.ts`, `client.ts` under `generated/`): its generation is
  modelled instead.
* `architecture-decisions.mjs` and `check-threat-model.mjs`: linting of Markdown
  tables, without state or algorithm beyond parsing.
* In the spike: the token service, which only signs; the migration of an older
  sidecar schema and opening without a network in the client; fault injection
  and the clearing of old payloads in the server.
* In the release scripts: the exemption for legacy security metadata, and the
  library that compares contracts (external).
* Deadlocks of the timeline: a victim is an `Abort` there; circles of waits are
  modelled for the packing list, where the order of locks is the same but for
  the compaction.
* A schema that refers to itself through `$ref` alone: the validator would not
  end, which an operator cannot express; the contract has none.
