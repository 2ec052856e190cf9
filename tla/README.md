# A verification project for the Thiên Đức website backend

The backend (NestJS, Prisma, PostgreSQL) serves a public corporate site and the
CMS in which its staff write it. This directory holds TLA+ models of the parts
of it that are hard to test, the TLC configurations that check them on small
instances, and proofs, checked by TLAPS, that the main properties hold for
every value of the constants.

## 1. Inventory

| Component | State it keeps | Operations | What is hard |
|---|---|---|---|
| Content records: News, Projects, Pages, Cooperation | `status`/`content_status`, `scheduled_at`, `published_at`, `deleted_at` of every row | create, update, updateStatus, schedulePublication, cancelScheduledPublication, remove; the public reads | read, check, then write by id with nothing compared: any other command, the trash, the reconciler and the clock come in between |
| Publication schedulers | a re-entry flag per process | `handleCron` every five minutes, `publish-scheduled` on demand | several processes, runs that fail, restarts |
| CMS trash | `deleted_at`, and what it resets of each kind of row | trash, restore, purge, `bulkDelete` | SERIALIZABLE transactions against services that use none; rights read before the transaction; a loop of transactions that stops half way |
| Authentication | `users` (hash, `token_version`, `is_active`), `refresh_tokens`, `password_reset_tokens`, `password_change_codes` | login, refresh, logout, forgot, reset, code, change; acceptance of access tokens | bcrypt between the read and the write; row claims; statements with no common transaction; crashes between them |
| Login lock | `failed_login_attempts`, `locked_until` | a wrong or a right password | a count read and written back |
| Staff accounts | role, lock, address, delete permission, of every account | update, remove, updateDeletePermissions, trash of accounts | the last Super Admin: a count and a write apart |
| Invitations | `account_invitations`, `setup_completed_at` | create, resend, revoke, accept | two live invitations of one account |
| Profile requests | `profile_change_requests` | submit, review, trash | one pending request per member; two reviewers |
| Ordered collections | `order` of projects, their items and images, posts, banners, cooperation projects, positions | `reorderContent` (SERIALIZABLE), `reorder`, `reorderGallery` (checked before a READ COMMITTED transaction), insertion, edits of one order | two lists at once; rows that come between check and write; an order number read before the insert |
| Project items and galleries | `project_items`, `project_gallery` | add, update, remove of items and images | the right depends on the stage of the project, read before the write; children outlive parents |
| News categories, search | `news_categories`; none | create, update, remove; lists, counts, two-query search | lists and counts from two snapshots; `isActive` of a category in the trash |
| Banners | `starts_at`, `ends_at`, `is_active` | create, update, remove | windows merged from a stale row |
| Recruitment, job applications, contact | positions with a deadline, `contact_submissions` | create, update, remove, apply, handle | a position that closes while someone applies; drafts published while an editor's update is under way |
| Settings | one row each of branding and contact details | `updateBranding`, `updateCompanyContact` | one JSON value read and written back; a merge that keeps nothing |
| Media | `media_assets`, files in an external store | upload, create, update, remove | a store that no transaction covers |
| Backup scripts | files in a directory and at a remote | `backup.sh`, `prune.sh` | a machine that goes down between encryption and removal of the plain text; pruning that goes by names |
| Backfill scripts | JSON columns of a project and its items | one run per script | rows written by staff between read and update; a run that dies and is repeated |
| Mail, HTTP foundation, validation, Prisma, test support, seeds | none that the others rely on | | |

The components meet in the database only. There is no queue and no cache:
every interaction is one request's statements falling between another's. The
staff routes authorise a request once, from the database, when it comes in
(`JwtStrategy.validate`, `RolesGuard`); services load a row, check it, compute,
and write `update({ where: { id } })`. Isolation is READ COMMITTED unless a
transaction asks for SERIALIZABLE, which the trash, `reorderContent` and
`requestPasswordChangeCode` do.

What makes each component correct:

- Content: nothing is public without a standing decision of an administrator;
  `published_at` remains the mark of the first publication; what is public is
  what was reviewed; the reconciler never changes what visitors see; a due
  record is settled in the end.
- Authentication: a session, a link, an access token and a challenge all end
  with the password they belong to (the comment on `changePassword` excepts the
  access token, which the code does not: see section 3); a locked account holds no session; each
  password change is paid for by one proof, once.
- Staff: an active Super Admin remains. Invitations: an account is set up once.
  Profile requests: one pending request; what is approved is what was read.
- Collections: the order is one list that somebody sent, short of no more rows than
  came to life while it was on its way.
  Items and images: an editor changes nothing that is public. Categories: a page
  in the trash is closed. Lists and search: wrong only about what changed
  meanwhile. Banners: windows are never empty. Positions: an editor leaves open
  ones alone, applications are for open ones only. Banners, backfill: what a
  request does not contain it leaves alone.
- Trash: the report of a bulk deletion is true. Media: a file belongs to one row.
  Backups: once there is a whole one, there always is.

`PROJECT.json` lists the hazards behind these, each at its line.

## 2. Modules

| Module | Contents |
|---|---|
| `PublicationRules` | the pure rules of `src/common/`: visibility, editing, transitions, the columns each command writes |
| `Publication` | the content records, staff commands in two halves, trash, reconciler, clock; its properties and inductive invariant |
| `PublicSite` | what visitors are promised, with no table and no reconciler; `Publication` implements it |
| `MCPublication` | symmetry for TLC |
| `PublicationProofs` | the theorems about them |
| `Sessions` | one account, its refresh tokens, reset links and challenge, and the requests in flight |
| `MCSessions` | symmetry for TLC |
| `SessionsProofs` | the theorems about it |
| `Staff` | several accounts, the requests of the staff routes and of the trash as they authorise, check, count and write |
| `MCStaff` | symmetry for TLC, and the updates it tries |
| `StaffProofs` | the theorems about it |
| `Onboarding` | one account until and when it logs in: its invitations, the transaction that accepts one, the count of wrong passwords and the lock |
| `MCAccounts` | composes `Staff` and `Onboarding` for TLC, with symmetry and a bound on a history counter |
| `OnboardingProofs` | the theorems about it, and about `MCAccounts` |
| `ProfileRequests` | the profile of one member, his requests to change it, their review, the trash |
| `MCProfileRequests` | symmetry for TLC |
| `ProfileProofs` | the theorems about it |
| `ContentOrder` | the order numbers of one collection, in the three ways the services reorder |
| `AtomicOrder` | what a collection promises its readers, with no transaction and no row lock; `ContentOrder` implements it |
| `ProjectTree` | the items and images of one project, who may change them, what the trash does to them |
| `MCCollections` | composes the two for TLC |
| `CollectionsProofs` | the theorems about the two and about their composition |
| `NewsLists` | news categories, the lists and counts of posts, the search |
| `Banners` | the windows of time in which banners are shown |
| `Recruitment` | positions, applications, the inbox of letters |
| `SiteSettings` | branding and contact details |
| `MediaLibrary` | rows of images and the external store |
| `BulkDelete` | the loop of one bulk deletion, with refusals, outages and lost commits |
| `Backups` | `backup.sh` and `prune.sh` |
| `Backfill` | the scripts that add English to JSON columns |
| `MCSite` | composes the last eight for TLC |
| `SiteProofs` | the theorems about `Banners`, `Recruitment`, `SiteSettings` and `NewsLists`, and about `MCSite` |
| `BatchProofs` | the theorems about `MediaLibrary`, `Backfill`, `Backups` and `BulkDelete` |

### How Publication corresponds to the code

`row[r]` is one row of any of the four tables; `status` is `status` for News and
Pages, `contentStatus` for the others. `now` is both the clock of the
application and of the database. The four services differ in one rule only,
the constant `RescheduleDrafts` (Projects let a draft that has been public be
scheduled again).

A staff command is a `ReadFor...` action (load, check, compute the columns) that
puts its planned UPDATE in a slot, and `Commit`, which writes it, or `Abandon`
(row gone, database refusal, crash). `Trash`, `Restore`, `Purge` are
SERIALIZABLE transactions, one step each; a conflict with a plain UPDATE makes
one of them abort, which is a step that does not happen. The reconciler is one
UPDATE. `Tick` moves the clock: a schedule that falls due publishes with no
write, which is how the visibility rule works.

History variables record the mark at first publication (`shown`), the standing
decision (`granted`), the review (`reviewed`) and whether a command wrote over a
row that had changed since it read it (`raced`); they guard nothing. Properties
with `~raced` say what the rules guarantee when no command raced; the ones
without hold whatever happens.

### How Sessions corresponds to the code

`account` is the row of `users`; `hash` counts the passwords it has had, so that
two are equal exactly when no change lies between. `token`, `link` and `code`
are the rows of the three tables. A request is a slot that holds what it read,
what it will write and the kind of its next statement (`op`): "issue" creates a
session, "rotate" revokes the presented token first, "revoke" revokes all,
"update" is the administrator's UPDATE, "forgot" and "link" are the two
statements of `issuePasswordReset`, "reset" is a claimed link, "code" and "mail"
the two halves of `requestPasswordChangeCode`, "wrong" and "change" the two
outcomes of `changePassword`. `Abandon` ends a request anywhere: refusals,
failures and crashes.

Why a READ COMMITTED transaction is one step here: `resetPassword` and
`changePassword` hold the lock on the claimed row and on the account's row until
they commit. A login that read the old account waits at its own UPDATE of that
row, and a refresh at the row of the token it presents, so their writes come
after; a read that saw the old account commutes to before the step. A refresh
past its rotation is in a slot, and is overtaken. `issuePasswordReset` locks no
row that a second one would wait for when no link is live, so it is two steps.
`resetPassword` reads the account before it writes by id, so that is two steps
as well.

`Accepted` is `JwtStrategy.validate`: the account can be used, and the token carries
its `tokenVersion`. `changePassword` and `resetPassword` raise the version, so that no
access token outlives the password it was issued under (`AccessTokenFresh`). Neither
the lock nor the trash raises it: an access token that has not expired is refused while
the account is locked or in the trash, and works again afterwards. No property says
otherwise. `Claimable` guards the count of wrong codes and the claim alike; the code also
counts a wrong code for a challenge that has expired, which nothing can claim any more.

`proof[t]` is the password that the login behind token `t` proved; `stray` marks
a request that a password change, a lock or the trash overtook, `strays` the rows
such a request wrote; `unrevoked` that a revocation which was due never ran.

### How Staff corresponds to the code

`user[a]` is a row of `users`, as far as it decides who may do what. A request
goes through three steps: `Begin...` is what the guards or `authorize()` read,
once; `Check...` is what the service reads of its target, with the count of the
other Super Admins; `Write...` and `Commit...` are the write. `createInvitation`
reads nothing, and `restore` one row only, so both are two steps.

The routes of `UsersService` are plain statements, so any write may come between
the count and the UPDATE. The trash is SERIALIZABLE. That is modelled by what
PostgreSQL refuses to commit: `moved` says that the target was written since the
check (a concurrent UPDATE of the row aborts the transaction, whoever made it),
`skewed` that another transaction of the trash took a Super Admin which the
count saw (a write skew of two SERIALIZABLE transactions; a plain UPDATE is not
part of that protection, and does not set it). `Serializable` is the guard of
`CommitTaking`.

`lost`, `raced` and `usurped` are history. `raced` becomes true when a Super
Admin is taken by a request whose check was outdated, `usurped` when one who
administers is taken by somebody who no longer does, or by himself on an
outdated check. `LastSuperAdminKept` and `SomebodyAdministers` thus say exactly
which overlaps the rules do not cover. They are two properties because the count
takes an invited account, active and never set up, for a Super Admin: that
somebody who can log in is left does not rest on the count at all, but on the
rules that nobody demotes, locks or removes himself.

`Accept` abstracts the invitation: the row may be set up while it is live and
active and has not been. Whether an invitation is still good is the subject of
`Onboarding`.

### How Onboarding corresponds to the code

`account` is one row of `users`, which `createInvitation` has just made;
`invite[i]` is a row of `account_invitations` ("dead" is revoked or deleted,
"unused" not created yet). `acceptInvitation` is a READ COMMITTED transaction,
and here its statements do not commute with anything else, so it is modelled
one by one: `Claim` locks the invitation, `CheckAccount` reads the account,
`WriteAccount` locks it, `ListOthers` is the scan of the last `updateMany`, and
`FinishAccept` is its update and the commit, possible once no listed row is
locked by another acceptance. What a transaction has written is not visible to
others before that, so the variables change in `FinishAccept` only. Two
acceptances can wait for each other, one for the invitation and one for the
account; the database aborts one, which is `HangUp`. `now`, against which the
expiry is compared, is taken together with the claim. A resend and a revocation
scan first and write later in the same way; the resend commits its new row with
its revocations.

`login` is a read and a write. The write carries the count that was read, so one
that overlapped another login writes an old count: `stale` marks such a request
and `miscounted` such a write. `late` marks the one invitation that an acceptance
cannot revoke, created by a resend after the acceptance's last statement has
looked. `setBy` and `guesses` record which invitations set the password and how
many wrong passwords came since the last lock or success. `SetUpOnce`,
`GuessesCounted` and `LockStands` say what holds apart from these overlaps.

The accounts that invited it may be purged, which deletes the invitations they
sent (`Disinvite`); the account itself may be locked, trashed, restored and
purged at any time.

`MCAccounts` starts as `Staff` or as `Onboarding` and stays it: what the two share,
`isActive` and the trash, each of them moves whenever it likes.

### How ProfileRequests corresponds to the code

`profile` are the editable columns of the member's row of `users`, `row` the
table `profile_change_requests` as far as it is his, `owner` whether the account
is live, in the trash or gone. A route in flight is a slot with the kind of its
next statement: "find", "create" and "overwrite" are `submitProfileChange` of an
editor, "write" and "log" the same route for an administrator, who changes his
own profile and records it; "apply" and "mark" are the two statements of
`reviewProfileRequest`, "restore" the SERIALIZABLE transaction of the trash with
its check and its commit. `Difference` is what the service keeps of a body.

No route of `UsersService` is a transaction. `outdated` marks a slot whose row, or
whose search, was overtaken; `broken` one that PostgreSQL will not let commit, because a row of
`profile_change_requests` that it read has been written (the UPDATE of `users` that
applies a payload is not such a write).
`applied`, `muddled` and `doubled` are history; `muddled` and `doubled` name
exactly what the properties leave out: a row that an outdated route wrote or
whose review was cut short between its two statements, and a second pending
request made by a route that had found none. Neither excuses what the routes do
when they are not overtaken.

### How ContentOrder and ProjectTree correspond to the code

`ContentOrder` has the rows of one collection. There are three ways to reorder:
`reorderContent` checks the list in the snapshot of its own SERIALIZABLE
transaction ("content": projects, items, posts, positions); banners and
cooperation projects count, then look for the ids, then write ("listed");
`reorderGallery` compares the length only ("gallery"). The updates are made one
by one (`WriteNext`), and hold their row locks until the commit; `Committed` is
what others read of a row meanwhile, `saved` what a roll back restores. A
SERIALIZABLE transaction aborts at a row written since its snapshot (`outrun`),
but an insertion does not disturb it. Waiting for a lock is a step that is not
possible yet; two transactions that wait for each other are ended by `GiveUp`.
`ReadLastOrder` and `InsertLast` are `nextGalleryOrder` and the insert.
`newcomers` are rows that came to life after the list that was committed had been
checked (in the "listed" form: since its count), `edited` those whose own number was
written since; nothing in the code keeps either out.

`NobodyLeftOut` says of a committed list how many rows it may leave out: no more than
came to life since its check. In the two forms that check in one statement it also says
which: only such rows. In the "listed" form that would be false. Banners and cooperation
projects count in one statement and look the ids up in another, so that a row restored
in between makes up for one that was live at both and is missing from the list; it keeps
its old number. The comment on `reorder` says that this cannot be, and the run
`banners_left_out` shows that it can (`EveryRowPlaced`).

`ProjectTree` has one project with its items and images. The project's own life
is abstracted to three stages: an editor may change it ("open"), visitors see it
("public"), neither ("sealed"); `Publication` says when each is the case, and the
stage changes here whenever it likes. The commands are those on items and images,
`reorderGallery` included (`CheckSort`, `SortImages`), which an editor may call under the
same rule; here it is any change to a set of images, and `ContentOrder` says which. A command is a `Check...` (project and child
are read, `assertChildEditAllowed`) and a write by id; `overtaken` marks that the
project changed its stage in between. `PublicParts` and `PublicImages` are the
`where` of the public reads. Foreign keys refuse a write that names a row that is
gone (`Refers`), purging a project takes its children along, and purging an item
leaves its images in the gallery.

`MCCollections` starts as one of the two and stays it: they share no column.

### How the other services correspond to the code

Each of these modules has the rows of one service and the requests in flight as
slots that hold what they read. `late`, `overlapped` and `changed` are history in
all of them: what such a request read was written since.

`NewsLists`: an answer under way holds the results of its first and its second
query. `findAllPaginated` counts and lists; a transaction of two statements is not
one snapshot under READ COMMITTED, so they are two steps. `countPostsByCategory`
runs two queries at once, so either may be first. `searchNews` finds ids of public
posts, then loads by id. `FindCategory` and `UpdateCategory` are the two halves of
`updateCategory` and of `removeCategory`, which is an update to inactive.

`Banners`: `ReadBanner` reads the row, merges the bounds that the PATCH contains
(`mergeDisplayWindow`), checks the result; `WriteBanner` writes both bounds.
`FindBanner` is `remove`, which writes `isActive` only. Instants are few and
ordered, and `OnHomePage` is asked at each of them.

`Recruitment`: positions with their status and their deadline, which is a day in
Viet Nam; `Midnight` is the end of one. `CheckUpdate` and `WriteUpdate` are the
halves of `update`, `LookUp` and `SaveApplication` those of an application, which
names its position without a foreign key. Every change of a position makes the
requests that read it late.

`SiteSettings`: `ReadBranding` and `SaveBranding` are the read and the upsert of
`updateBranding`. `Received` is what `ValidationPipe` (`transform: true`) makes of the
body: an instance of `UpdateBrandingSettingsDto`. With `target: ES2023` its three fields
are defined on every instance, as undefined if they were not sent, and
`hasOwnProperty` in `nextValue` finds them. An update of one field therefore stores null
over the other two, although `nextValue` has a branch that would keep them. Contact
details are replaced whole, in one statement. Nothing but their types is checked of
the settings: the last update wins, whole.

`MediaLibrary`: `UploadFile` puts a file into the store, `RecordUpload` inserts
the row, `LoseUpload` is a failure between them. Nothing takes a file out of the
store again. `MediaTypeOK` also says that the file of a row is there and that no
other row has it.

`BulkDelete`: one request goes through its ids; for each, `Authorize` reads the
right again, then the deletion commits (`Delete`), is refused (`NotFound`,
`Conflict`), fails (`Outage`), or commits without the answer arriving
(`LostCommit`). The rest of the answer is put together as `bulkDelete` does.

`Backups`: a file is absent, cut short or whole. The dump has its final name only
once it is whole, because it is renamed; the encrypted file is written under its
final name, so that a machine that goes down leaves a cut one (`AbortBackup`).
`prune.sh` may run at the same time and goes by names, order and age. The scripts
accept any number of files to keep: that a whole backup survives needs two
(`BackupsAssumption`), for a cut file may be the newest one, and the default is 7.

`Backfill`: both scripts as one. A run selects rows, works out what they will hold
and updates those that change one by one; staff may write in between, and a run may
die and be started again.

`MCSite` starts as one of the eight services and stays it: they share no table,
so that a behaviour of all of them together is nothing but a shuffle of theirs.

## 3. Runs

| Run | Question | Bounds |
|---|---|---|
| `publication` | does every safety property, and the refinement of `PublicSite`, survive all interleavings? | one row, two commands in flight, one process, times 0 to 2, lead 1, horizon 2 |
| `publication_live` | is a due record settled, across failing runs? | one row, one command, two processes |
| `sessions` | do sessions end with the password, the lock and the trash? | three tokens, one link, two requests, one password change |
| `session_passwords` | is each password change paid for, once? | two links, two challenges, two changes, two addresses, two requests |
| `accounts` | who is left to administer, and who may touch a Super Admin? is a password set once, are wrong ones counted, does a lock last? | two accounts, two requests in flight, every route, updates of one column; three invitations, three requests in flight, a lock after two wrong passwords, three guesses |
| `staff_last` | does one active Super Admin always remain? *No* | two accounts, two requests, updates and invitations |
| `profiles` | does one request wait, and is what was decided what happened? | one field of three values, two rows, two routes in flight |
| `collections` | is the order one that somebody sent? does an editor leave a public project alone? | two rows, two requests, order numbers 0 to 2; one item, one image, two commands |
| `site` | what does each of eight small services promise when its requests overlap? | per service: one or two rows, two requests (one answer, one edit of a category, one batch of three ids, one backfill at a time), two instants, two days, three backups |
| `banners_overlap` | is writing an unchanged bound back harmless? *No* | one banner, two PATCHes, two instants |
| `banners_left_out` | does the order of banners place every banner there was? *No* | two banners, one reorder |
| `access_tokens` | does an access token outlive a change of password, as a comment says? *No, it ends with it* | one request, one token, one challenge |

One row is enough for Publication because no action relates two rows; two
commands in flight give every pair of a stale write with a fresh one, and the
trash, the reconciler and the clock come in between as steps of their own.
Times 0 to 2 with a lead of 1 hold a schedule before, at and after its hour.
Three tokens give a login, its rotation and a racing session; two links and two
challenges an old and a new one. `MaxWrong` is 1 for the code's 5: the
properties only tell a challenge that can still be claimed from one that is
dead.

Two accounts are the fewest that can take each other, and two requests the
fewest that can overlap; a third account adds only a Super Admin who is not
involved. The proofs do not depend on either number.

Three invitations and three requests let two overlapping resends leave two
invitations alive and a third request follow them while one is being accepted;
they also let two logins overlap with an acceptance. The lock comes after two
wrong passwords instead of five (`MaxFailed`): the properties tell a count that
is too low from one that is right, and the proofs are for any threshold. The
history counter `guesses` is not bounded by the code when logins overlap, so
the run does not go past three (`MaxGuesses`), one more than it takes to lock.

Two routes on two requests give `profiles` every pair of submission, review and
restoration on the same row and on different ones; one field with a blank and two
other values tells a payload from an older one. Two rows and two lists give
`collections` every mixture of two orders, and a newcomer beside a list of one;
numbers up to 2 leave room for one insertion after them. One item and one image
hold every relation of parent and child, and two commands one that is overtaken
beside one that is not. In `site` two requests of one kind are the fewest that
overlap. One answer at a time is enough, because answers only read; one edit of
a category against the trash, which is a step of its own, is the pair that
`BinnedCategoryClosed` is about; a batch of three ids has a first, a middle and a
last one; three backups are a whole one, one cut short and one after it; one
backfill against edits by staff is what `BackfillAddsOnly` speaks of.

The runs of Sessions, of the accounts and the later ones let TLC accept a deadlock where the
system may really stop: a purged account with no request left is over, and so
are accounts of which nobody can log in, and tables whose few rows are all
purged. In every other run the cron job, or a new request,
is always possible.

The runs expected to fail each show a disagreement between the code and a
sentence of its comments or documentation, quoted in `PROJECT.json`. Two of them
are races that the comment overlooks (`banners_overlap`, `banners_left_out`), one is a
rule that two requests together get round (`staff_last`). In `access_tokens` the code
does better than the comment, which is out of date: it says that there is no
`tokenVersion` and that an issued access token works until it expires, but the schema
has the column, both changes of password raise it, and a test expects old tokens to be
refused.

Other disagreements of the same kind came up and have no run of their own. Most of them
are where the history variables stand in the properties:

- an editor's update that was read before an administrator scheduled the row still
  changes its text after that (src/src/common/content-editing.ts:17; `raced` in
  `Publication`); `remove` of a cooperation project leaves the mark of a
  publication that was only planned, which then lies in the past
  (src/src/common/publication-schedule.ts:31); Projects let the first mark be replaced
  (src/prisma/schema.prisma:204; `RescheduleDrafts`);
- `removeCategory` sets a category to inactive without looking at its posts
  (src/src/news/news.service.ts:591), where two comments have it refuse while there
  are any (src/src/news/news.service.ts:578, src/src/news/news.controller.ts:142);
- the role of a caller is read from the database with every request
  (src/src/auth/strategies/jwt.strategy.ts:28), where a comment has the old access token
  carry the old role until it expires (src/src/users/users.service.ts:382);
- a login that had read the account before a password change creates a session
  after it (src/src/auth/auth.controller.ts:138; `stray`), and two overlapping requests
  for a reset link leave two that work (src/src/auth/auth.service.ts:351);
- `findAllPaginated` calls its two statements one snapshot
  (src/src/news/news.service.ts:126), which READ COMMITTED does not give
  (`changed` in `NewsLists`).

**Fairness.** `FairSpec` assumes weak fairness of the cron firing in some process
(the scheduler fires every five minutes as long as a process is up) and strong
fairness of its UPDATE: runs may fail, for as long as they like, but the
database does not refuse every one of them for ever. Nothing is assumed of
staff. The property that the error path clears the re-entry flag is what makes
`DueIsSettled` true.

## 4. Proofs

| Theorem | Establishes |
|---|---|
| `TypeCorrect`, `InductiveInvariant` | `TypeOK` and `IInv` of Publication |
| `GrantTheorem`, `MarkTheorem`, `FirstMarkTheorem`, `ApprovalTheorem` | its four safety properties |
| `ReconcilerTheorem`, `EditorTheorem` | its two action properties |
| `RefinementTheorem` | `Spec => Site!SiteSpec` |
| `SessionsTyped`, `SessionsInvariant` | `TypeOK` and `SessionsInv` of Sessions |
| `NothingOutlivesPasswordAlways`, `AccessTokenFreshAlways`, `LockedHoldsNoSessionAlways` | its three safety properties |
| `ChangesArePaidFor` | its action property |
| `StaffTyped`, `StaffInvariant` | `TypeOK` and `StaffInv` of Staff |
| `LastSuperAdminKeptAlways`, `SomebodyAdministersAlways` | its two safety properties |
| `MembersSpareSuperAdminsAlways` | its action property |
| `OnboardingTyped`, `OnboardingSafe` | `OnboardingTypeOK` and `OnboardingInv` of Onboarding |
| `AccountsAreBoth` | `MCAccounts` behaves as `Staff` and as `Onboarding` |
| `SetUpOnceAlways`, `GuessesCountedAlways` | its two safety properties |
| `LockStandsAlways` | its action property |
| `ProfilesTyped`, `ProfilesInvariant` | `ProfilesTypeOK` and `ProfilesInv` of ProfileRequests |
| `OnePendingRequestAlways`, `DecisionsHoldAlways` | its two safety properties |
| `SubmissionWaitsAlways` | its action property |
| `OrderInvariant`, `TreeInvariant` | the inductive invariants of ContentOrder and ProjectTree |
| `OrderIsAtomic` | `OrderSpec => Atomic!ShelfSpec`, the refinement of `AtomicOrder` |
| `OrderIsOneListAlways`, `NobodyLeftOutAlways` | the two safety properties of the order |
| `NewComesLastAlways`, `EditorsSparePublicAlways` | the action properties of the order and of the tree |
| `CollectionsAreBoth`, `CollectionsTyped` | `MCCollections` behaves as either module, and `CollectionsTypeOK` |
| `BannersInvariant`, `RecruitmentInvariant`, `NewsInvariant` | the inductive invariants of the three modules |
| `SettingsTyped` | `SettingsTypeOK` |
| `EveryBannerShowableAlways`, `AnswersHoldAlways` | safety of banners and of the lists |
| `BinnedCategoryClosedAlways`, `EditorsSpareOpeningsAlways`, `ApplicationsWereOpenAlways` | the properties of categories, positions and applications |
| `BannerPatchKeepsRestAlways`, `BackfillAddsOnlyAlways` | the two parts of `PatchesKeepTheRest`, each for its service |
| `UploadedFilesStay` | `MediaTypeOK`, the files of rows included |
| `BackfillInvariant`, `BackupsInvariant`, `BulkInvariant` | the inductive invariants of the scripts and of bulk deletion |
| `AWholeBackupAlways`, `BulkDeletionAlways` | their safety properties |
| `SiteIsItsServices` | `MCSite` behaves as each of its eight services |
| `SiteTyped`, `PatchesKeepTheRestAlways` | `SiteTypeOK` and `PatchesKeepTheRest`, of all services together |

They hold for any number of rows, slots, processes, tokens, links, addresses,
accounts, invitations, profile requests, ordered rows, items, images, lists of ids,
backups and any bounds, from the named assumptions:
`RulesAssumption`, `PublicationAssumption` and `IdleAssumption` (model values are
distinct from data, the lead is positive), `SessionsAssumption`, `StaffAssumption`
and `OnboardingAssumption` (the same; the last also that some number of wrong
passwords locks), `NewsAssumption`, `BannersAssumption`, `RecruitmentAssumption`,
`SettingsAssumption`, `MediaAssumption`, `BackfillAssumption`, `BulkAssumption`,
`ProfilesAssumption` and `TreeAssumption` (the same), `OrderAssumption` (the same;
also that there are finitely many rows, and order numbers for all of them), and `BackupsAssumption`, which asks for a `KEEP_MIN` of two or more: an
encryption that was cut short leaves one file that is newer than the last whole
one. `FirstMarkTheorem`
also assumes `~RescheduleDrafts`, the rule of three of the four services: under
the rule of Projects a draft gives its first mark up when it is scheduled again.

*Publication.* The safety properties are not inductive: they speak of the row,
and a command in flight carries a write that was computed from an older one.
`IInv` adds, for every slot, the shape of its write (`PlanShape`), that a plan
whose row has not moved may still do what it checked (`PlanCurrent`), and that
its computed mark is still the right one (`PlanFresh`); and for every row, that
scheduled or published is the same as granted (`RowGranted`), which makes
`PublicOnlyIfGranted` inductive although the clock alone can make a row public.
The refinement uses `GrantInv`: a step of the table either leaves the mapped
state alone, or is one `Release`, `Promise`, `Withdraw` or `Advance`.

*Sessions.* `SessionsInv` adds that a request nothing overtook still knows the
truth about the account (`RequestsInv`), that the trash leaves no session
(`TrashInv`), which a refresh relies on because it does not look at
`deleted_at`, and that the version of an access token, of a request and of the
account tells their passwords apart (`VersionsInv`), which holds even for
requests that were overtaken: this is why an access token is fresh without any
exception while a refresh token is not. `ChangesArePaidFor` rests on a second
invariant, `ChallengeInv`: a change in flight saw the challenge that carries its
id, and ids are never used twice.

*Staff.* The two properties of the table are not inductive: a request in flight
writes on what it checked. `ChecksInv` adds what a check still guarantees while
nothing has outdated it (`CheckHolds`): another Super Admin is there, the actor
is not his own target, and a Super Admin's target was his to take. Each write is
then shown to be `Sanctioned` (it takes a Super Admin only after such a check),
and one lemma for each property covers all the writes at once.

*Onboarding.* That the password is set once rests on locks, not on checks: the
account is read before it is locked, so two acceptances may both find it not set
up. `LocksInv` says who holds what, and that nobody revokes a claimed row;
`OnceInv` that an acceptance at its last statement has listed every invitation
that could be claimed, and that nobody is past the check of an account that is
set up. The step that commits (`FinishKeeps`) uses both: another acceptance
would hold a listed row, for which this one would still be waiting. `CountInv`
says that a login which nothing overtook has read the count that stands, and no
lock; `GuessesCounted` and `LockStands` follow from it.

*ProfileRequests.* What the table says was decided is not what a route in flight
may rely on: it has read a row, and writes it by id later. `ProfilesInv` says of
every route what its reads still give whoever acted since (`RouteHolds`), and what
they give as long as nobody wrote the row it is about, or made another request
wait (`StillHolds`): that the row waits, that what was applied is its payload, that
no other request waits. One lemma (`TouchKeeps`) covers every write of a row, from
what it does to the row and to its own route; the two statements of a review are
then each a case of it.

*ContentOrder.* The order others see is not in the table while a reorder is under
way. `Visible` is what they see; a transaction that has written a row is the only
one (`OneHolder`), so each update leaves `Visible` alone and a roll back puts back
just that. `OrderInv` says of a reorder which rows it has written, each with the
number of its last place so far (`Shaped`, `InPlace`), so that at the commit the whole
list is in place; of a checked list what it can have missed (`NothingMissed`): there is
a set of rows that was counted, as many as the list names, and every row that is there
or named was counted or has come to life since (`Explained`). From that follows the
number in `NobodyLeftOut` (a row that was counted and is missing is matched by one that
is named and was not counted, which is then a newcomer). Where one statement checks the
list, the rows that were counted are those it names, and what it misses came later; and of a number read for a new row that it is
above all others until one of them is written (`Above`). The number itself is one
more than a maximum, whose existence is `MaxMember`.

The refinement of `AtomicOrder` maps each row to its life and to the order others see
(`Shelf`). Checks, single updates and roll backs leave that alone (`UnseenKeeps`); the
commit moves all rows of the list to their places at once, which needs `InPlace` for
the places and for rows that nobody has purged meanwhile (`CommitKeeps`); every other
write is one step on one row (`WriteItemKeeps`). It is a theorem only: no run checks
it, as the run `collections` checks what staff and visitors notice of it
(`OrderIsOneList`).

*ProjectTree.* `TreeInv` adds that a command by an editor which nothing overtook
speaks of a project that is still open; any other is senior or overtaken, which
`EditorsSparePublic` allows.

*Compositions.* A step of `MCCollections`, `MCAccounts` or `MCSite` is a step of one part and leaves
the variables of the others as they were. Each composition thus implies the
specification of every part, and what is proved of a part is true of the whole.

*Banners, Recruitment, Backfill.* Each writes by id what it worked out
from a row it had read. The invariant says, of every request that nobody has
overlapped, that this still agrees with the row (`PatchFresh`, `DraftStill` and
`OpenStill`, `PlanFresh`); of the windows in flight also that
they are in order, overlapped or not, which is why `EveryBannerShowable` needs no
exception.

*NewsLists.* An answer is put together from two queries. `NewsInv` says of one in
the making that it is what its first query saw, but for the rows written since,
and of an edit of a category that was not overlapped that the category is not in
the trash. One lemma covers each kind of step: of a reader, of a post, of a
category.

*Backups.* `BackupsInv` names the newest stamp that has a file: it has a whole one,
and no pruning that is going on has it on its list, because at most one file is
newer than any of its own (`NewestKept`). A run that starts has a stamp of its own
which nothing carries yet, and what it writes becomes the newest only when its
dump is whole.

*BulkDelete.* The report is not about the whole list until it ends. `ReportInv` says
the same of the ids worked on so far, with their number, and `WorkedOn` that one
more id keeps it, whatever becomes of it. `OverrunInv` ties the records deleted
past a lost right to the step: none before the right has been read again.

Only model-checked: `DueIsSettled` (liveness is out of the prover's reach), and the
runs expected to fail, whose properties are false. Every other property of the runs
is stated by a theorem.

## 5. Not modelled

- Mail: wording and transport. Whether a mail goes out is an input of `Sessions`.
- HTTP start-up, guards, filters and response shapes; what the guards let through
  are the parameters of the actions. Validation of bodies is stateless: what it
  accepts is the sets the actions quantify over.
- Test support, seeds, migrations and the artifacts that verify a running server:
  they run against an empty or a scratch database.
- `verify-restore.sh`, which restores a copy, the upload adapters and the examples
  for schedulers.
- The full-text search and its ranking; pagination beyond what is counted and what
  is listed; slugs and other columns that are unique, whose violation is a refused
  write.

The wording of messages, hashing and token formats are abstracted everywhere: a
hash is a number, a token an identity.

### What is merged

Some reads that the code makes one after the other, with no write between them, are one
step here; what matters to the properties is what comes between the reads and the write,
and that is kept apart. These are the account and its
challenge in `changePassword` (`ReadForChange`); the target and the count of the others
in `update`, `remove` and the trash of accounts (`CheckUpdate`, `CheckRemove`,
`CheckTaking`), where the write that comes later is the race; project, child and item of
a command on a project (`Check`); the read and the write of `remove` of a position, whose
write has its condition in itself (`BinPosition`). `FindCategory` to inactive stands for
`removeCategory` and for the PATCH that does the same. A label of the map without a
translation is stored as `{vi}`, which is the same `Text` in `Backfill`.

## 6. Plan

All modules of the plan are written, and every invariant and action property that
the runs check is proved. What is left:

1. `DueIsSettled` without its liveness: that a record which is due stays due until
   the reconciler takes it, and that one run of it settles it.
2. What the mistaken sentences of the code (the runs expected to fail) would need to
   be true, as theorems with that hypothesis.
