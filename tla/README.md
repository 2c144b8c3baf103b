# A verification project for LicenseDb

LicenseDb is a REST server (gin, gorm, PostgreSQL) that keeps a catalogue of
licences and of the obligations they impose, with an audit trail of every
change. Its code has no shared memory to speak of: every request is a goroutine
of its own, and the requests meet in the database. What is hard about it is
therefore what happens between the SQL statements of one handler when another
handler runs, and what is left when a statement or a `COMMIT` fails. The
modules here model the handlers statement by statement, TLC explores their
interleavings, and TLAPS proves the main results for any number of requests,
licences and obligations.

## 1. Inventory of the system

| Part | State it keeps | Operations | What is hard |
|---|---|---|---|
| Licence endpoints, `pkg/api/licenses.go` | `license_dbs` | create, update, read, search, export | read before lock, audit against what was read, answer before commit |
| Obligation endpoints, `pkg/api/obligations.go` | `obligations` | create, update, delete (deactivate), read, export | delete writes a stale record back, reads outside the transaction |
| Associations, `utils.Perform*MapActions` | `obligation_licenses` | replace the associations of a licence or an obligation | both kinds of request change the same pairs; lock order, deadlocks |
| Audits, `utils.AddChangelogs*`, `pkg/api/audit.go` | `audits`, `change_logs` | written by every change, read by `/audits` | completeness and order of the history |
| Types, classifications, categories, `pkg/api/obligation{Types,Classifications,Categories}.go` | one table each, with a unique name | create or reactivate, deactivate when unreferenced, implicit creation by the obligation hooks | check then act, toggles of stale values |
| Imports, `ImportLicenses`, `ImportObligations` | the same tables | one transaction per record of a file, one summary | tolerated errors, dropped errors, nil fields, audits against a record read in part |
| Email, `pkg/email` | a channel of 200, five workers | queue, send with retries, stop | full queue, dropped mails, closing beside sending |
| Users and tokens, `pkg/auth`, `pkg/middleware` | `users` | create, update, delete, login, refresh | stale writes, accounts that are deactivated while in use |
| OIDC clients, `pkg/api/oidc_clients.go` | `oidc_clients` | add, revoke | race with the deletion of their user |
| Pagination, `pkg/middleware`, `models.PaginationInput`, `utils.PreparePaginateResponse` | none | page, limit, links | boundaries, wrap-around, pages of a table that changes |
| Similarity search, `SetSimilarityThreshold` | a parameter of one database session | set, query | the session of the query may be another one |
| Dashboard | none | six counts | no common snapshot |
| Populating the database, `cmd/laas/main.go` | the same tables | create what a file lists | runs once, before the server |
| Router, migrations, logging, docs | static | - | - |

The parts interact through the database (shared tables, row locks), through
function calls inside one request (handler, map action, change log, hook), and,
for mails only, through a Go channel. `PROJECT.json` lists every part with its
status, and under `hazards` every place of the code where one of these
difficulties bites.

## 2. The modules

| Module | What it is |
|---|---|
| `Records` | Rows, partial updates (the PATCH bodies), pairs of the join table, change logs: pure operators. |
| `Store` | The tables, the state of a request, visibility and locks, and the steps both kinds of handler share: replacing associations, writing the change log, commit, rollback. |
| `LicenseHandlers` | `CreateLicense` and `UpdateLicense`, one action per statement, and their properties. |
| `ObligationHandlers` | `CreateObligation`, `UpdateObligation`, `DeleteObligation`. |
| `Catalogue` | Both over one database, with PostgreSQL's deadlock detector. |
| `ImportHandlers`, `ImportProofs` | `ImportLicenses` and `ImportObligations` beside the handlers of `Catalogue`, with the summary each import gives; theorems. |
| `LicenseRegistry` | What the licence endpoints promise: each request happens at once or not at all. |
| `LicenseInvariant`, `LicenseHandlersProofs` | The inductive invariant of the licence endpoints, and their theorems. |
| `CatalogueInvariant`, `CatalogueProofs` | The same for licence and obligation endpoints together. |
| `FieldVocabulary`, `FieldProofs` | The types an obligation may have (and, by the same code, classifications and categories): created, reactivated and deactivated beside the obligations that use them; theorems. |
| `EmailService`, `EmailProofs` | The mail queue, its enqueueing goroutines, its workers, `Stop`; theorems. |
| `Accounts`, `AccountsProofs` | Users, their tokens and OIDC clients, and the locks of the unique names and e-mail addresses; theorems. |
| `Paging` | The arithmetic of pages with Go's integers: parameters, offset, number of pages, link. |
| `Listing`, `ListingProofs` | A client that walks a list along its links while the table changes; theorems. |
| `SimilaritySessions`, `SimilarityProofs` | The connection pool, the sessions' thresholds, and similarity requests beside others; theorems. |
| `MC*` | Small instances for TLC. |

`Records` <- `Store` <- `LicenseHandlers`, `ObligationHandlers` <- `Catalogue`
<- `ImportHandlers` is one chain of EXTENDS, `Paging` <- `Listing` another;
`LicenseHandlers` has `LicenseRegistry` as an INSTANCE with the refinement
mapping. `FieldVocabulary`, `EmailService`, `Accounts`, `Listing` and
`SimilaritySessions` do not share variables with the first chain. What an obligation
request does to the types table is in `FieldVocabulary`, with the references to it;
the first chain keeps of it what makes one obligation request wait for another, the
values which no table lists and somebody saves (`vocabulary`, `entered`). A mail
leaves a handler through `enqueueAsync` without coming back; the other handlers take from a user nothing but the id and the role that the
middleware read; a list only reads tables, so what the others do to it is any
insertion or update; and of the other handlers `SimilaritySessions` needs only
that they take a connection and give it back.

## 3. How state and actions correspond to the code

**Statements are steps.** A handler is a sequence of SQL statements with Go code
between them that touches nothing shared. One action is one statement together
with the Go code up to the next one; `pc` names the statement that runs next.
`seen`, `linked` are the handler's `oldLicense`/`oldObligation` and its preloaded
associations; `image` is the row version its transaction has written, which is
also its row lock; `ins` and `del` are the join rows it has inserted and deleted;
`note` is the audit it will commit; `reply` is the status it has given to
`c.JSON`, which the client gets when the handler returns.

| Action | Code |
|---|---|
| `InsertLicense` | `tx.Omit("Obligations").Create(&lic)` in `CreateLicense` |
| `FindLicense`, `PreloadObligations` | `Preload("Obligations").First(&oldLicense)`, two queries, and the text guard after them |
| `MergeLicenseRef` | the `UpdateColumn("external_ref", ...)`, first UPDATE of the transaction: takes the row lock |
| `WriteLicense`, `RefuseLicense` | `Updates(&newLicense)` and its `BeforeUpdate` hook |
| `FindRelated`, `UpsertRelated`, `InsertLinks`, `DeleteLinks` | `PerformLicenseMapActions`, `PerformObligationMapActions` and the three statements of gorm's `Association.Replace` |
| `ReloadLicense` | reading the row again, `AddChangelogsForLicense`, and the answer |
| `CommitLicense`, `RejectLicense`, `LicenseCommitFails`, `LicenseStatementFails` | the four ways `db.DB.Transaction` ends |
| `FindObligation` ... `ObligationStatementFails` | the same for obligations: the first read is outside the transaction and `UpdateObligation` answers after COMMIT |
| `SaveAssociations`, `ImportSaveAssociations` | gorm's `INSERT ... ON CONFLICT DO NOTHING` of the body's type, classification and category, in this order, before the obligation itself |
| `RefuseInsertion` | the foreign key of a type, classification or category that was neither found nor saved |
| `DeactivateObligation` | `db.DB.Updates(&obligation)` in `DeleteObligation`: every column, in a transaction of its own |
| `FindType`, `InsertType`, `CountReferences`, `ToggleType` | `CreateObType`, `DeleteObligationType`, `ToggleObligationTypeActiveStatus` |
| `LockObligation`, `ResolveType`, `SaveType`, `StoreObligation` | the hooks `BeforeCreate`/`BeforeUpdate`, and gorm's save of the belongs-to association before the obligation itself |
| `Notify`, `Enqueue`, `Drop`, `Panic` | `NotifyLicense*`, and the goroutine of `enqueueAsync` with its 3 s deadline |
| `Take`, `Send`, `Retry`, `Quit` | `worker`, `processWithRetries`, `doSend` |
| `CloseQueue`, `StopReturns` | `Stop` |
| `AdminRequest`, `OwnRequest`, `OpenRequest` | the routes, with `AuthenticationMiddleware` (`Admitted`) and `RoleBasedAccessMiddleware` |
| `LookUpName`, `InsertUser` | the two statements of `FirstOrCreate` in `CreateUser` and `CreateOidcUser` |
| `FindUser`, `UpdateUserRow`, `IndexName`, `IndexEmail`, `PurgeClients`, `AuditUser`, `CommitUser` | `UpdateUser`, `UpdateProfile`, `DeleteUser`; the first four also `Login` with `EncryptUserPassword`. `Written` is what each of them gives to `Updates` |
| `VerifyPassword`, `RefreshTokens`, `Expire` | the rest of `Login`, `VerifyRefreshToken`, and the lifespans of `generateToken` |
| `FindClient`, `InsertClient`, `RevokeClient` | `AddOidcClient` and `RevokeClient` |
| `ReceiveFile`, `RefuseInvalid`, `TakeRecord`, `SendSummary` | the loop of `ImportLicenses`, `ImportObligations` over the records of a file, and its answer |
| `ImportFindLicense`, `ImportPreloadObligations`, `ImportCreateLicense`, `ImportWriteLicense`, `ImportReloadLicense`, `ImportRefuseLicense`, `ImportLicenseWithoutText` | `InsertOrUpdateLicenseOnImport`, statement by statement; the last is the nil pointer at `*newLicense.Text` |
| `ImportFindObligation`, `ImportCreateObligation`, `ImportWriteObligation`, `ImportReloadObligation`, `ImportRefuseObligation`, `ImportObligationWithoutTopic` | the transaction callback in `ImportObligations`; the last is the nil pointer at `*ob.Topic` |
| `ImportAssociations`, `ImportReject`, `ImportCommit` and the actions `Import...Fails` | the map actions, which report an unknown id and go on; the ways a record ends |
| `Ask`, `Count`, `ReadPage`, `FindEntities`, `Answer` | `PaginationMiddleware` before the handler, the two queries of a list, `GetAuditEntity`, `PaginationMiddleware` after it and the client that follows `next` |
| `BeginSet`, `SetThreshold`, `SetFails`, `BeginQuery`, `EndQuery` | `SetSimilarityThreshold` and the query after it, each on a connection of `database/sql`'s pool |

**The database** is modelled from how the code uses it and is external:
PostgreSQL at READ COMMITTED (the code sets no other level), where a query sees
what is committed when it starts plus its own transaction's writes, an UPDATE
waits for the writer of its row and then works on the newest version, and
`INSERT ... ON CONFLICT DO NOTHING` waits for an unfinished writer of the row it
conflicts with, by its key or by a unique column. `Store!Blocks` collects these waits, `Catalogue!AbortDeadlock` is
the deadlock detector. COMMIT is atomic and may fail, in which case nothing is
stored.

**Abstractions.** A row has four columns: the name (patched, never audited), the
text (frozen unless `text_updatable`), `text_updatable`, and `active`, which
stands for all columns that are patched and audited without a rule of their own.
`external_ref` is kept as the UPDATE that takes the lock; its merged value is not.
A body is a partial record: a nil pointer is an absent field. A new id is fresh
(a uuid). Looking several related ids up is one step: no row is ever removed, so
the answers can only differ in an id that is created meanwhile. The INSERT of the
audit is part of the step that computes it: nobody but its own commit shows it.
Requests that fail to bind or to validate run no statement and are left out.

The type, classification and category of a body are given only where no table
lists them (`Words`): a listed one is looked up and saved without effect, and
nobody waits for it. An unlisted one is inserted on a unique name, and the
insertion waits for another request that inserted the same name and has not
committed; an UpdateObligation does so while it holds its row. Two classifications
meet whatever their names are, since gorm saves them without a colour and the
colour is unique (`Meets`). Values that were committed stay in `vocabulary`. Which of
them the hook of a creation found depends on when it looked, so that both answers
are allowed (`MayResolve`, `MayNotResolve`). The endpoints of the three tables stay
in `FieldVocabulary`: such a request writes one row of its table, waits for nothing
after that, and touches no obligation, so that it can lengthen a wait and close no
circle.

In `FieldVocabulary` an obligation is only the type it refers to. The check in
the hook that the type is listed (`o.Type.Id.String() == ""`) is never true,
because the zero uuid prints as zeros; what happens to an unlisted type is
decided by gorm's save of the association, and is modelled as that.

In `Accounts` a user has a name, an e-mail address, a display name, a level, a flag
and a password that is in clear, hashed or absent. `subscribed` is left out, and a token is only known by its user and whether it is
live or can be refreshed: signatures, key sets and claims decide who is admitted
and change nothing. The OIDC provider may issue a token for any name in `External`
and for any registered client at any time. An UPDATE that
changes the name or the address is a step for the row and one for each of the two
unique indexes that it enters, because PostgreSQL locks the row first, and waits at
an index for whoever has entered the same value; and it takes a stronger row lock,
which conflicts with the foreign key checks of audits and clients. That is where the
deadlocks of this module come from. Only
the audit committed last is kept, and answers are not kept, since no property
speaks of more. `Preload("User")` is one step with the client's query: a user is
never removed.

In `ImportHandlers` a record of a file is an id or none and a partial record, as
for PATCH. A missing column of a new row gets the default of the table.
What the log says is left out; what an answer in the summary says is kept as one
of four statuses.

In `Listing` a row is a sort key and whether the filter takes it, which is all
that the five lists (`LicenseList` ... `UserList`) tell apart; the word of Go's
`int64` is a constant, so that the wrap-around of `(page - 1) * limit` happens
with small numbers. A new audit may come anywhere in the list of audits, which is
sorted by time: the time is taken before COMMIT, so that an audit which appears later
may be the older one. In `SimilaritySessions` a threshold is one of the values that
can be told apart: the configured one, the default of the code, the default of
PostgreSQL.

In `EmailService` a mail is a pair of a notification and its addressee. A send
may reach the SMTP server or not, and may report an error although it did.


## 4. What the runs check

| Run | Instance | What it shows |
|---|---|---|
| `license_concurrent` | 2 goroutines, 3 requests, 1 failure; 2 licence ids, 3 obligation ids (one unknown), 7 bodies | The handlers implement `LicenseRegistry` (`RefinesRegistry`), hold no stale version (`NoStaleVersion`), an audit tells what its commit stores (`AuditTellsOutcome`), a change escapes the audits only after a stale read (`OnlyStaleReadsEscapeAudit`), and every request ends. |
| `license_text_race` | 2 goroutines, 2 requests, no failure | A frozen text changes (`TextNeedsPermission` is violated). |
| `license_ack` | 2 requests, 1 failure | A request that was answered with success stores nothing (`AcknowledgedIsStored` is violated). |
| `catalogue` | 2 goroutines, 3 requests, 1 failure; licences and obligations, 2 unlisted values | Licence requests alone, or obligation requests alone, never wait in a circle, although an UpdateObligation that holds its row waits for others to save the same new type (`DeadlockNeedsBothKinds`); obligations are not written back stale by a PATCH, a deactivated one returns only by a PATCH that says so, and every request ends in spite of deadlocks. |
| `catalogue_delete` | the same | A DELETE undoes a PATCH (`DeleteOnlyDeactivates` is violated). |
| `imports` | 2 goroutines, 2 requests of which one or both are imports, 1 failure; 4 licence and 4 obligation ids, 7 files, 1 unlisted value | Beside other requests, an import deadlocks only with requests of the other kind, or when the obligation it is about to create has been created meanwhile (`ImportDeadlockNeedsBothKinds`); its summary tells what became of each record (`SummaryTellsOutcome`), it changes a text only if it read the licence as updatable, or to take back a change to the text it read (`TextNeedsReadPermission`), and it ends. |
| `imports_audit` | 1 import, no failure | The change log of an import lists associations that did not change (`ChangeLogListsChanges` is violated). |
| `fields` | 2 goroutines, 4 requests, 1 failure; 3 types, 2 obligations | An inactive type comes into use only in a race with its DELETE (`InactiveUseNeedsRace`), every change of a type is audited but for the types an obligation creates (`UnauditedOnlyBySave`), and every request ends. |
| `accounts` | 2 goroutines, 3 requests, 1 failure or expiry; 3 users, one to be created, 3 names, 3 e-mail addresses, 1 client and the empty client id | A user is changed beyond what a request asks for only by a DELETE or a login that writes back an overtaken copy (`OverwritesAreOvertaken`), becomes active again only by a PATCH that says so or by such a login (`ReactivationIsAsked`), keeps no client through a DELETE (`ClientsGoWithUser`), gets no tokens when inactive but for a login that found the user active (`TokensNeedActiveUser`); audits tell the change that is committed (`AuditTellsTheChange`), requests deadlock only when one of them changes the name or the e-mail address of a user there is (`DeadlockNeedsKeyChange`), and every request ends all the same. |
| `email` | 4 mails, channel of 1, 2 workers, 2 attempts, `Stop` at any time | No mail is lost between channel and workers, a graceful stop leaves none, deliveries are bounded by attempts, and every mail settles if the server answers. |
| `listing` | 3 rows, 3 keys, words of 4 bits, default limit 1, 2 changes, 1 failure; the lists of licences, audits and users | Count, page and link agree if nothing happened between the two queries (`PageAsCounted`); a walk over a sorted list skips a row that is there throughout, or gives it twice, only if another row has the same key or the table changed in one of the ways they name (`SkippedOnlyByChange`, `RepeatedOnlyByChange`); the walk ends (`WalkEnds`). |
| `similarity` | 3 goroutines, 4 connections, 2 of them idle at most | A query runs under another threshold than the configured one only if its own SET failed, the server closed the connection it ran on while that was free, or another request used the pool in between (`WrongThresholdNeedsDisturbance`); nobody waits for a connection for ever (deadlock is checked). |

A circle of requests that wait for each other (`WaitInCircle`) is a smallest set in
which everybody waits for a member. Every property of a passing run has a mutant in `PROJECT.json`: a plausible bug
in one definition with which TLC refutes the property.

**Bounds.** `Requests` (goroutines) is 2 where requests race for rows: each race
of this code is between a reader that later writes and one other committer. It is
3 for the pool, where one request can take the connection that a second one has
just returned while a third holds another. `MaxRequests` is 3 or 4, so that a
request can meet the outcome of one that has ended besides the one that is
running; an import is itself a sequence of transactions, so that 2 are enough
there. `MaxFailures` is 1, so that a failure meets requests that succeed. The
bodies and files in the MC modules cover the cases the code tells apart: text
changed, text frozen, text missing, empty text, associations given, emptied, not
given, and with an unknown id; a new type in two requests, classifications of two
names; a record that is new, known, invalid, and unknown
by its id. For the mails, a channel of one place and two workers are the least for
which the channel is full while a mail waits, both workers are busy, and one of
them fails for good. For the lists, page and limit parameters lie below, in and
above what three rows fill, and large enough for the offset to wrap around; two
changes move rows both ways across the page that is read next.

Deadlock checking is off where the instance may stop: `MaxRequests` bounds the
requests served, a walk ends, and the mail service stops when there is nothing to
send, after `Stop`, or when a panic has ended the program. The similarity run
goes on for ever and checks it.

**Fairness.** `WF` of each request's own steps: the Go scheduler runs every
goroutine that can run, PostgreSQL grants a lock that is free, and its detector
ends a deadlock. Nothing is assumed of clients (`Receive*`) and failures. An
import needs it twice, for its own steps and for those it shares with the
endpoints. In `EmailService`, `WF` of each enqueueing goroutine (its timer fires)
and of each worker, but not of `Send`: after the connection is made the SMTP
dialogue has no deadline, so `EveryMailSettles` has "the server answers" as a
hypothesis. In `Listing`, `WF` of the walk says that the server answers and the
client follows every link it is given; that the walk ends also rests on
`MaxChanges`, since a table that grows as fast as it is read has no last page.
`SimilaritySessions` assumes no fairness.

## 5. What the runs found

The violation runs show real disagreements between the code and what its own
documentation, messages or comments say; `PROJECT.json` quotes them.

1. The text guard of `UpdateLicense` looks at a row that was read before the
   lock (`license_text_race`).
2. `CreateLicense` and `UpdateLicense` have decided on success before COMMIT and
   drop its error (`license_ack`).
3. `DeleteObligation` writes the whole record it read back (`catalogue_delete`).
4. `ImportObligations` compares the stored obligation with one that it read
   without its licences, so its change log reports an association as new that
   was there before (`imports_audit`).

Some properties of the passing runs hold only with an exception that they name,
and the exceptions are real:

- `OnlyStaleReadsEscapeAudit`: a change log compares with a row that was read
  before the lock, so concurrent updates leave gaps in the history.
- `InactiveUseNeedsRace`, `UnauditedOnlyBySave`: a type can be deactivated between
  the count of its references and the toggle while an obligation comes to use
  it; an obligation with an unlisted type creates the type, unaudited.
- `OverwritesAreOvertaken`, `ReactivationIsAsked`: a first login
  (`EncryptUserPassword`) and a DELETE save every column of the user they read, so
  they can undo what was committed since, a deactivation included. A client added
  after the DELETE statement of `DeleteUser` stays with the inactive user.
- `SummaryTellsOutcome`: a record whose COMMIT fails is summarised as a success,
  and one with an unknown id among its associations is reported as such and stored
  all the same. An import record without a text or a topic ends in a nil pointer, after
  which there is no summary at all; the records before it stay.
- `TextNeedsReadPermission`: a PATCH or an import that repeats the text it read is
  let through although the text is frozen, and if that text was changed in
  between it puts the old one back; a DELETE does so without asking.
- `SkippedOnlyByChange`, `RepeatedOnlyByChange`, `PageAsCounted`: a walk along the
  links skips or repeats rows when the table changes, and also when nothing
  changes, since no list is sorted by a unique key; the list of users counts rows
  it does not show and has no order at all.
- `WrongThresholdNeedsDisturbance`: the threshold is set on the connection that the
  pool happens to give, and the query runs on the next one it gives, which is
  another one if somebody else used the pool or the server closed the first.
- `DeadlockNeedsBothKinds`, `ImportDeadlockNeedsBothKinds`: a licence and an
  obligation request that replace each other's associations deadlock. So does an
  import that has saved the new type of an obligation it is about to create under
  the id of its file, when another import has created that obligation and a request
  that changes it waits for the type.
- `DeadlockNeedsKeyChange`: two administrators who change each other's name or e-mail
  address deadlock through the audits, two users who swap them at the index.

## 6. What is proved

TLAPS proves, for all values of the constants under the named assumptions:

| Module | Theorem | Statement |
|---|---|---|
| `LicenseHandlersProofs` | `InvariantHolds` | `LicenseSpec => []IInv` |
| | `TypeCorrect`, `NeverStale` | `[]` of `LicenseTypeOK`, `NoStaleVersion` |
| | `AuditsTellOutcome`, `OnlyStaleReads` | `AuditTellsOutcome`, `OnlyStaleReadsEscapeAudit` |
| | `Refinement` | `LicenseSpec => RefinesRegistry` |
| | `LicensesProceed` | `[]SomebodyProceeds` |
| `CatalogueProofs` | `CatalogueInvariantHolds` | `CatalogueSpec => []CatInv` |
| | `CatalogueTypeCorrect`, `JoinTableConsistent`, `NeverStaleObligation` | `[]` of `CatalogueTypeOK`, `NoDanglingLinks`, `NoStaleObligation` |
| | `OnlyUpdatesReactivate` | `ReactivatedOnlyByUpdate` |
| | `DeadlocksAreAcross` | `[]DeadlockNeedsBothKinds` |
| `ImportProofs` | `ImportInvariantHolds` | `ImportSpec => []ImportInv` |
| | `ImportTypeCorrect`, `ImportKeepsJoinTable` | `[]` of `ImportTypeOK`, `NoDanglingLinks` |
| | `SummariesAreTrue`, `TextsNeedPermission` | `SummaryTellsOutcome`, `TextNeedsReadPermission` |
| | `ImportDeadlocksAreAcross` | `[]ImportDeadlockNeedsBothKinds` |
| `FieldProofs` | `FieldsTypeCorrect`, `InactiveUseIsARace`, `TypeChangesAreAudited` | `[]FieldsTypeOK`; `InactiveUseNeedsRace`, `UnauditedOnlyBySave` |
| | `FieldsProceed` | `[]SomebodyProceeds` |
| `AccountsProofs` | `AccountsInvariant`, `AccountsTypeCorrect` | `[]` of `AccountsInv`, `AccountsTypeOK` |
| | `OverwritesOnlyOvertaken`, `ReactivationOnlyAsked`, `ClientsGo`, `AuditsTell`, `TokensNeedActive` | `OverwritesAreOvertaken`, `ReactivationIsAsked`, `ClientsGoWithUser`, `AuditTellsTheChange`, `TokensNeedActiveUser` |
| | `DeadlocksNeedKeyChange` | `[]DeadlockNeedsKeyChange` |
| `EmailProofs` | `ServiceInvariant` | `Spec => []Inv` |
| | `EmailTypeCorrect`, `MailsAreKept`, `StopIsGraceful`, `DeliveriesAreBounded` | `[]` of `EmailTypeOK`, `MailInOnePlace`, `GracefulStop`, `DeliveriesBounded` |
| `ListingProofs` | `ListingTypeCorrect`, `PageIsAsCounted` | `[]` of `ListingTypeOK`, `PageAsCounted` |
| | `NoRowSkipped`, `NoRowRepeated` | `[]` of `SkippedOnlyByChange`, `RepeatedOnlyByChange` |
| `SimilarityProofs` | `SessionsTypeCorrect`, `WrongThresholdIsExplained` | `[]` of `SessionsTypeOK`, `WrongThresholdNeedsDisturbance` |

**Licences.** None of the properties is inductive: that a commit writes the
newest version with only the body's fields changed depends on what the request
did several statements before. `LicenseInvariant!IInv` says, for each statement,
which request can be at it and what it has read (`Control`), that it holds its row
lock from its first write to its end (`Locking`), that a licence being created is
in no table and one being updated stays there (`Existence`), what the version it
wrote is in terms of the *current* row (`Written`), what it did to the join table
in terms of the *current* join table (`Linking`), and that no two requests write
or create one licence (`Exclusion`). The proof has one lemma for the step of a
request (`OwnInv`), one for what that does to the others (`OtherInv`,
`ExclusionStep`), and one for a commit, the only step that changes what the
others' invariants speak of (`CommitInv`); `PairsApart` (two licences share no
pair of the join table) is what makes the last one go through. The refinement
then has one interesting step: `CommitRefines` shows that a commit is `Create` or
`Update` of the registry, with `ReplaceIsRelink` for the join rows and
`SameRecords` for the ids found several statements earlier; every other step is a
stutter. For the audits the invariant also says that the change log a request is
about to commit compares what it read with what it wrote and with the *newest*
join table (`NoteRight`): `AssociationsKept` shows that another licence's commit
leaves that comparison alone.

**Licences and obligations.** Once obligations write the same join rows,
`Linking` no longer holds: two requests may delete and insert the same pair.
`CatInv` keeps what is left of it (`CatLinking`: what is inserted was looked up,
and no row ever goes away) and takes `NoDanglingLinks` itself into the invariant.
`WriterAlone` shows that the request which commits a row is the only one that has
a version of it, which is what keeps `CatWritten`, in terms of the current row,
through the commits of the others; the statement in which a DELETE writes its copy
back is the delicate case, since it needs no version to be held by anybody.

**Imports.** `CatInv` does not carry over: whether a request creates its row can
no longer be told by its operation, since a record with an unknown id is looked
up before it is created. `ImportInv` tells it by the blank row the request read,
and says where a request is in its file and that it works on that record
(`ImportProgress`), what it has read (`ImportControl`), that it holds its row lock
from its first write (`ImportLocking`), what its version is in terms of the
*current* row (`ImportWritten`), and that an update goes on only with a text it
may write (`ImportPermitted`); `CatLinking` is taken over. Every step is sorted
into four kinds: a statement, the beginning of a request or a record, the end of
one without effect on the tables, and the end of one that changes them. Only the
last kind disturbs the others (`EndingBeside`): the row it writes is locked by
nobody else, and the rows and pairs the others have looked up stay.
`SummaryWritten` finds the steps that add an answer; that a success is the truth
is then `ImportWritten` at the commit.

**Types.** `FieldInv` says what a request has found (`Knows`), what it wrote with
which audit (`Wrote`), that an obligation chose an active type or one of its own
making (`Chose`), and that whatever refers to a type under deletion came after the
count (`Counted`), which is the race the property names; `TypeLocks` keeps two
requests from writing one type.

**Accounts.** Names stay unique although they are looked up and entered in
different statements: `Indexing` says that the name a request has entered in the
index is in nobody's row, `Apart` that no two requests have entered one name or
written one user. `Writing` gives the version of a request in terms of the current
row, `Reading` what a DELETE and a login found before, `Auditing` ties the audit
to both, and `Purging` says that the clients which a deletion began with are still
its user's or among those it purged.

**Mails.** `EmailProofs!Inv` ties the place of each mail to the channel
(`Channel`) and to the workers (`Hands`), says what a closed channel and an ended
worker imply (`Ending`), and bounds deliveries by the attempt the worker is at
(`Deliveries`). Actions that only move mails outside the channel share one lemma,
those that end a mail a second, those that keep it a third.

**Lists.** `Counted` follows the count through the second query; the lemmas
below it are about the arithmetic of `Paging` (that a wrapped product of
numbers that fit stays what it is, when there is a next page) and about the
length of the part of an ordered table that a page shows, for every size of a
word. What a whole walk has shown needs no induction over its pages.
`Position(x)` is the number of matching rows with a lower key, and
`PlaceInOrder` shows that a row which shares its key with no other comes right
after them in every order that PostgreSQL may choose. `WalkInv` compares that
place with the number of rows which the pages so far have passed: a row not
shown yet is still to come unless something before it went away (`OnItsWay`,
`StillToCome`), and one that was shown is behind the walk unless something came
in before it (`Onwards`, `LeftBehind`). A page moves the number it has passed
by its limit (`PassedGrows`), and a change of the table moves the places only
in the direction which it records (the lemmas after `SamePlaces`).

**Deadlocks.** That every request ends is liveness and stays with TLC; its
safety half is proved: who can wait for whom. The licence requests alone hold
one row each and wait, when they do, before they hold anything, so that whoever
holds a row can go on (`HoldersGo`, `LicensesProceed`). A request that stores
an obligation locks its row first and then the type it creates, and who writes a
type waits for nothing more, so these two never wait in a circle either
(`FieldsProceed`). With both kinds
in one database the pairs of the join table come in: `CatPairs` says that the
pairs a request has inserted or deleted are its own record's, whose row it
holds, so that two requests of one kind share none (`PairsOfOneKind`) and one
that replaces associations waits only for the other kind (`WaitsAcross`). Within one
kind that leaves the saves of new types, classifications and categories: `CatWords`
says that what a request has saved comes before what it is about to save in
the one order of the Go struct. In a smallest circle of waiting requests everybody
keeps somebody waiting (`CircleMembers`), so that in a circle of one kind
everybody would save a field and wait for somebody who saves a later one
(`CircleOfOneKind`): there is none, because there are finitely many fields. So each
circle goes through both kinds, and a fix of the deadlocks has to order the locks
of these two handlers, not those of one. Imports are part of the same argument
(`ImportCircleOfOneKind`), but for the one race of a creation which the property
names: an import creates obligations under ids that others know, and so its INSERT
may wait for a row while it has saved a type. Among users each request in a
circle has written a row too (`BlockersHold`). It waits for an index, because it
enters another name or address there (`KeyChanging`), or for the actor of its audit,
whose name or address another one changes; or it is a creation that has entered its
name and waits for its address, but creations enter both in the same order, so that
somebody in the circle is no creation: a deadlock needs a change of a unique column.

**Similarity.** `SessionsInv` says that a request which nobody disturbed has left
its connection on top of the pool (`OnTop`, with `Room` for it to be kept) with
the threshold set, and so gets it again (`Right`). A connection that the server
closes leaves its request without one of its own (`own`), which is the third case
of the property.

**Assumptions.** `IdsAssumption`, `NoneAssumption` (ids of the two tables are
apart; `None` and the empty string are not values), `StoreAssumption`,
`LicenseInputAssumption`, `ObligationInputAssumption`, `CatalogueAssumption` (the
initial tables and the bodies are well-formed, the initial join table has no
dangling pair), `ImportAssumption` (a file is a non-empty list of well-formed
records, of licences or of obligations), `VocabularyAssumption`, `AccountsAssumption` (unique names at the
start, clients and tokens only of users there are), `EmailAssumption` (there is a
worker, a place in the channel, an attempt), `PagingAssumption`,
`ListingAssumption` (a finite
table with fewer rows than a word counts, a default limit that fits in a word),
`SessionsAssumption`. They are evaluated by TLC on every run of their modules.

**Model-checked only.** Liveness (`EveryRequestEnds`, `EveryImportEnds`,
`FieldRequestEnds`, `AccountRequestEnds`, `EveryMailSettles`, `WalkEnds`),
since it is out of the prover's reach under fairness. Every other property of
the passing runs is proved. Induction over sequences is out of the prover's
reach as well, so nothing is proved of a history as a whole; what is proved of
a file is said of each of its records.

**Proved only.** `SomebodyProceeds` (of `LicenseHandlers` and of
`FieldVocabulary`) and `NoDanglingLinks` (both sides of an association exist, which
the foreign keys of the join table enforce as well) are in no run: they follow from
invariants that the runs check or that are proved with them. They hold on the
instances of `license_concurrent`, `fields`, `catalogue` and `imports` when
they are added to these configurations.

## 7. What is not modelled, and the plan

Not modelled, and why:

- Reads of one query, exports and previews: they change no state and have nothing
  to race with. The lists and the similarity search, which take two statements,
  are modelled.
- The dashboard: six counting queries without a promise that relates them. One of
  them looks for a spelling of the audits' type that nothing writes.
- Populating the database: it runs before the server with the functions of the
  import. The records of its file have no ids, so that a second run stores them
  again; one request cannot show that.
- Migrations: they run once. The constraints they leave (primary keys, unique
  names, foreign keys) are built into the modules.
- Routing, health, the API collection, logging, validators and generated docs
  keep no state. The admission of a request by the middlewares is in `Accounts`.
- The mails' templates and addresses, and the order of a mail and its COMMIT: a
  mail is queued inside the transaction, and `EmailService` does not know what
  became of it.

Further work, in this order: a composition of `LicenseHandlers` with
`EmailService` for mails that announce what was not committed; an abstract mail
service, in which a mail is either delivered a bounded number of times or
dropped, implemented by `EmailService`.
