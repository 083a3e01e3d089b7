# Veervrat: a TLA+ model of the platform's workflows

This directory models the server side of the platform (`src/apps/api`): what
its handlers, jobs and database do to the rows people share; and the way a
commit takes to production (`src/.github`). TLC checks the models on small
instances; TLAPS proves the safety theorems for every value of the constants.

## 1. The system

A *vratarthi* (VA) works on *journeys*, each about one sentence of a virtue. A
*vratmitra* (VM) accompanies them, either for everything (a global
relationship) or for one journey (an assignment). Inside a journey the VA works
through exposures, resolutions and challenges ("ERC items"). A Next.js web
application talks to a NestJS API; the API keeps all state in PostgreSQL
through Prisma, sessions counters and a mail queue in Redis, images in object
storage.

The API is single-threaded per process, but every database statement is an
`await`: the handlers of other requests, the cron jobs, and (with more than one
replica) other processes run between any two statements of a handler. Almost no
handler uses a transaction, almost every UPDATE names its row by id alone, and
very few invariants are constraints of the database. So what is hard here is

- a state that was checked on one read and is written over later,
- a check and an insert that are two statements,
- an operation that is several statements, of which the last may never run,
- rights (roles, assignments, sessions) that change while a handler runs,
- jobs that work through a list they read earlier,
- mails and notifications that run ahead of, or behind, the row they tell of.

The release pipeline is the opposite: GitHub's concurrency groups let one run at
a time into an environment, every record is create-only, and whatever is read is
read again before it is used. What is hard there is failure: any step of a run
can fail or be lost half-way, a job can report success for work it did not do,
a record can be stored by a run that fails, and days pass between the approval
of a release and the steps before it.

### Components

State and operations by component; `PROJECT.json` has the sources and whether
each is modelled.

| component | state | operations | what makes it correct |
|---|---|---|---|
| journeys | `journeys` rows, partial unique index on (owner, sentence) while not completed | create, pause, resume, rename, submit for closure, approve closure, admin override, nightly dormancy job | one live journey per sentence; completed is final; time columns agree with the state; a mentored journey is closed by its mentor; stale journeys go to sleep |
| invitations | `invitations` rows | send, remind, accept, decline, cancel, expire, link at signup | settled once; one pending global one; one reminder; the invitee can find it |
| vm-relationships | `vm_relationships`, `journey_vm_assignments`, role VRATMITRA | created by accepting, remove (with cascade or without), withdraw | nobody mentors without being asked and accepting; at most one global mentor; leaving means out |
| users, account deletion | `users` | profile edits, anonymisation | nothing pending in the name of a deleted account; it mentors nobody |
| permissions | none: a function of the session and a slim read of the resource | `hasPermission` | asked of fresh data, by every handler |
| ERC items and check-ins | items with status, side notes, check-ins | select, status moves, approve, revisit, deactivate, remove, suggest, acknowledge, check in | forward only; approved is final; self-approval only without a mentor; one selection per pool item |
| custom items, moderation | reviews, pool | create, edit, submit for review, approve and promote, reject | one verdict per review; one pool row per approved item; what was reviewed is what is published |
| auth: identities | users, EMAIL and GOOGLE accounts, pending signups, one-time links | register, verify, sign up or link with Google, disconnect, set a password, change the address, delete and release | a verified user has proved their address, or got it from Google at signup; nobody's signup takes a living user's way in |
| auth: sessions and lockout | sessions, re-authentication stamps, the failure counter and lock in Redis | log in and out, validate, re-authenticate, reset or change the password, suspend, delete, lock | sessions that should be gone go; a proof is spent once; wrong passwords are bounded |
| notifications, email queue | `notifications` rows, a BullMQ queue | create, read, archive; enqueue, deliver, retry, shut down | a notice is true when sent; a queued mail is delivered in the end |
| tests | attempts and answers | start, save answers, submit, report | one draft; a submitted attempt is frozen |
| experience logs, follows, feedback, blogs | one row each | write, edit, delete | owner only |
| content, cms, overrides, suggestions, admin content | published pages and their overrides, a repository on GitHub | edit, review, publish | what is published is what was approved |
| uploads | blobs and their rows | store, resolve, delete | no row without a blob |
| chats | messages, sockets | connect, send, read | only the two people of a relationship |
| throttling, filters, shutdown, sanitising, age | library configuration and pure functions | | |
| release and deployment scripts | images and schema of UAT and production; receipts, acceptances, tags, manifests, claims, outcomes, rollback reviews | deploy and record UAT, accept, prepare, begin, deploy, verify, finish, register a rollback | an API never runs ahead of its migrations; production serves the last success; a rollback is reviewed against the schema it meets; an unclosed attempt blocks the next |
| database scripts, backup, infrastructure, web | outside the API process | | |

### Interactions

- Accepting an invitation writes a relationship or an assignment and grants the
  role; the permissions of journeys and ERC items read those rows.
- `submitCompletion` and `approveCompletion` read assignments to decide who
  closes a journey. In `Journeys` this environment is `Relate`: an assignment
  begins, or ends, for several journeys of one owner when a global vratmitra is
  removed. In `Vratmitra` it is modelled itself, and the completion of a journey
  is the environment action `Complete`.
- The handlers of items read assignments and global relationships too. Their
  environment in `ErcItems` is the specification `Mentoring`, and that `Vratmitra`
  implements `Mentoring`, for every journey, is proved
  (`Mentored`, of `ImplementsMentoring`): what is shown of the items rests on nothing about
  mentors that the handlers of relationships do not do. The same theorem says
  that every change of the assignments is one that `Journeys` makes provision for
  (`Relate`, through the instance `OfJourneys`).
- Signup writes invitations (`linkPendingInvitations`) and account deletion too
  (`cancelPendingInvitations`), each as its last statement; a change of address
  writes none.
- Every workflow creates notifications; each creates a mail, fire-and-forget.
- `Identities` says who owns an address or a Google identity, `Credentials` what
  one account's passwords, links and sessions let through. They share the links
  and the password hash: `Credentials` sees one account and all of its sessions,
  `Identities` several users and no session, each taking from the other only
  that a typed password is right or that a session is there.
- Nothing in the API takes part in a release; what ties `Release` to the rest is
  the schema its migrations leave behind.

## 2. Modules

| module | models | section |
|---|---|---|
| `Journeys` | `modules/journeys` with the unique index, statement by statement | 3 |
| `OneLiveJourney` | the promise about starting journeys | 3 |
| `JourneyLifecycle` | the documented life of one journey | 3 |
| `JourneysProofs` | theorems about `Journeys` | 10 |
| `Vratmitra` | `modules/invitations`, `modules/vm-relationships`, signup's linking, account deletion | 4 |
| `Mentoring` | what the items of a journey may rely on about its vratmitras: environment of `ErcItems`, implemented by `Vratmitra` | 4, 5 |
| `InvitationLifecycle` | the documented life of an invitation | 4 |
| `VratmitraProofs`, `VratmitraSerialProofs` | theorems about `Vratmitra`: racing and how far a race goes, and one handler at a time | 10 |
| `ErcItems` | `modules/erc` without the review of custom items, with check-ins | 5 |
| `ItemLifecycle` | the documented life of an item | 5 |
| `ErcItemsProofs`, `ErcItemsSerialProofs` | theorems about `ErcItems`: racing and how far a race goes, and one handler at a time | 10 |
| `Credentials` | the password, links, sessions, re-authentication and lockout of one account | 6 |
| `CredentialsProofs` | theorems about `Credentials` | 10 |
| `Identities` | signup, Google, links, first passwords, change of address, deletion | 7 |
| `IdentitiesProofs` | theorems about `Identities` | 10 |
| `Release` | `.github/scripts` and the workflows that run them | 8 |
| `ReleaseLog` | what the production controller promises | 8 |
| `ReleaseProofs` | theorems about `Release` | 10 |
| `MCJourneys`, `MCVratmitra`, `MCErcItems`, `MCCredentials`, `MCIdentities`, `MCRelease` | symmetry and constants for TLC | 9 |

Conventions shared by the models:

- A request slot `r \in Req` is a handler in flight: `req[r].pc` names the
  statement it awaits next, the other fields hold what it has read. `...Read`
  actions are the reads and all checks of a handler; later actions are one
  statement each. A request whose check fails changes nothing, so it has no
  action: the checks are the enabling condition of the `...Read` action.
- Consecutive reads of one handler are one step, except in `ErcItems`, where the
  rights are read before the item and what happens in between matters. Where a handler reads an
  immutable text in between (the sentence in `createJourney`), that read is not
  a step either.
- `Abort` is a handler that dies between two statements: a lost connection, a
  restart, a deadline. It leaves what it wrote.
- In `Credentials`, `Identities` and `Release` a definition names the statement
  or the workflow step, `req[r].op` or the run's `pc` tells whose it is, and
  requests always interleave.
- `Interleaved = FALSE` lets a handler or job start only when nothing else is
  in flight. It answers a different question, not a smaller one: what the
  handlers promise when they do not race. Properties that fail under races are
  checked (`ErcItems`) or proved there (section 10); what the race itself can do
  is listed at the end of section 9.
- The environment's steps (time passing, a mentor coming or going) also wait
  for `CanStart`.
- A definition with an underscore in its name is a fault: the definition that
  follows it with a plausible mistake. Nothing uses these; they let each
  property be tested by replacing the definition.

## 3. Journeys

State: `journeys` is the table (state, owner, sentence and, as Booleans, which
of the columns `completion_submitted_at`, `completed_at`, `paused_at`,
`dormant_since` are set, and whether `updated_at` is thirty days old),
`assigned` the ACTIVE assignment rows, `req` the requests, `cron` the rows the
dormancy job selected and has not written yet, `sent` the notifications of the
last step.

| code | actions |
|---|---|
| `createJourney` | `CreateCheck`, `CreateInsert` (with `KeyFree`, the partial unique index), `CreateLookup` |
| `updateState` | `PauseRead` or `ResumeRead`, then `StateWrite` |
| `adminOverrideState` | `OverrideRead`, `StateWrite` |
| `submitCompletion` | `SubmitRead`, `SubmitWrite`, `Notify` |
| `approveCompletion` | `ApproveRead`, `ApproveWrite`, `Notify` |
| `updateTitle` | `TitleRead`, `TitleWrite` |
| `detectDormant` | `CronScan`, one `CronMark(j)` per row, `CronAbort` when a statement fails |

Any UPDATE that moves a row back into the index can be refused by it
(`StateWrite`, `CronMark`), which is possible only after an override or a race.

What the code does that one might not expect, and the model keeps:
`approveCompletion` does not ask whether a closure was requested; it admits the
owner if the owner holds the role VRATMITRA; `journeys.updated_at` is refreshed
by every UPDATE, so a dormancy mark makes a row fresh.

`OneLiveJourney` is the abstract promise (slots handed from one journey to the
next through an empty moment), implemented in every interleaving;
`JourneyLifecycle` is the documented life (started, active, paused or asleep,
completed for good), implemented when handlers do not race and nobody
overrides, as the theorem `ImplementsLife` shows.

## 4. Invitations and relationships

State: `account`, `email` and `vmRole` are the people, the addresses of those
with an account and who holds the role, `inv` the invitations, `link` the rows
of both relationship tables (a global one has no scope), `done` the completed
journeys, `req` the requests.

| code | actions |
|---|---|
| `sendVmInvitation` | `SendRead`, `SendInsert` |
| `sendReminder` | `ReminderRead`, `ReminderMail`, `ReminderMark` |
| `acceptInvitation` | `AcceptRead`, `AcceptMark`, `AcceptRelate`, `AcceptGrant` |
| `declineInvitation`, `cancelInvitation` | `DeclineRead` or `CancelRead`, `SettleWrite` |
| `removeGlobalVm` | `RemoveRead`, `RemoveEnd`, `RemoveUnassign` |
| `withdrawJourneyVm` | `WithdrawRead`, `WithdrawEnd` |
| `anonymiseAccount` | `DeleteAccount`, `DeletePurge` |
| `createUserWithEmailAccount`, `createUserWithOAuthAccount` | `Register`, `LinkInvited` |
| `applyEmailChange` | `ChangeEmail` |
| time, journeys | `Expire`, `Complete` |

An invitation goes to an address (`to`) and can be accepted or declined only by
the account it points to (`invitee`). It points to whoever held the address when
the invitation was sent, or signed up with it later, if the signup reached its second
statement. `Stranded` is what is left over: somebody holds the address, and the
invitation points to nobody and never will. `SignupReaches` says that this comes
about in three ways only, and each of them is possible: a change of address onto
the invited one, a signup between the two statements of the send, a signup that
dies between its own. `DeletionWithdraws` says the same of the invitations a
deleted account has sent (`Orphaned`).

`AssignedTo` and `GlobalsOf` are what the other components see of the tables: who
mentors a journey, and its owner. `ImplementsMentoring` says how that changes: for
one journey and its owner as `Mentoring` has it, and for all journeys together as
`Journeys` has it. It is proved for any number of journeys (`Mentored`).

`Init` lets people have accounts already, with different addresses. The number of
reminder mails is counted up to `MaxReminders`, enough to tell one from two. An
account is deleted once and gives its address up: a person who registers with it
again is another member of `User`. `ChangeEmail` is one step of the environment;
what leads to it is in `Identities`.

## 5. Items of a journey

State: `items` (status, pool item, deactivated or not, and as Booleans which of
`started_at`, `submitted_at`, `approved_at` are set and whether there is a
check-in), `note` the one side note an item can have, `assigned` and `globalVms`
the mentors of the journey and of its owner, `req` the requests, `sent` the notifications of the
last step. Exposures, resolutions and challenges have one set of handlers over
three tables; the model has one table, with the check-ins only resolutions have.

Every handler has the shape `Enter` (journey and permission), `Check` (item and
what is asked of it), a write, a notification:

| code | first step | write |
|---|---|---|
| `updateStatus` | `EnterItem` with `start`, `submit`, `selfapprove`; `Check` | `StatusWrite`, `Notify` for a submission |
| `approveItem`, `revisitItem` | `EnterItem`, `Check` | `StatusWrite`, `Notify` |
| `deactivate`, `reactivate`, `remove`, `logCheckin` | `EnterItem`, `Check` | `RowWrite` |
| `suggestItem` | `EnterItem`, `Check` | `SuggestWrite`, `Notify` |
| `unsuggestItem`, `acknowledgeSidenoteItem` | `EnterItem`, `Check` | `NoteFind`, `NoteMark`, `Notify` when taken back |
| `selectItem` | `EnterSelect`, `SelectCheck` | `Insert` |
| `createCustomItem` | `EnterCreate` | `Insert` |

`Permitted` is the permission table for these actions. A journey is read with one
global vratmitra of its owner, by a `findFirst` without an order; since nothing
keeps a second relationship from becoming active, `FindFirst` is any of them. None of the handlers
looks at the state of the journey, so the model has none: items of a completed
journey can be worked on, against `spec/decisions/06_edge-cases.md:8`. A removed
item keeps its row as a ghost with status `removed`: a racing UPDATE finds no
row and fails, a note outlives its item (the foreign key is set to NULL), and
the properties still know what the item had been.

`ItemLifecycle` is the documented life: forward only, approved for good or
returned, standing still while deactivated. It is implemented when handlers do
not race.

## 6. Credentials

State: `account` is the user with its EMAIL and GOOGLE rows as far as they decide
who gets in, `session` the rows of `sessions`, `token` what an unused link is for,
`lockout` the Redis hash of the address, `req` the requests. `ghost` and two
fields of a session are no part of the program: that a session was there when
the password changed or the account was suspended or deleted (`old`), how many
actions its last re-authentication may still authorise (`credit`), how many wrong
passwords were counted since the last lock (`tries`), and what a dead request
left undone (`abandoned`, `lockLost`).

| code | actions |
|---|---|
| `login`, `recordFailedLogin`, `clearLockout` | `Login`, then `Count` and `Lock`, or `Clear` and `CreateSession` |
| `handleGoogleLogin` of a known identity | `GoogleLogin`, `CreateSession` |
| `resendVerification`, `forgotPassword` | `Ask`, `Invalidate`, `Issue` |
| `verifyEmail` | `VerifyEmail`, `MarkUsed`, `MarkVerified` |
| `resetPassword` | `ResetPassword`, (`FindOwner`), `WritePassword`, `MarkUsed`, `MarkVerified`, `Sweep` |
| `validateSession` (the session guard) | `Validate`, then `Touch`, or `EndSession` of an account out of order |
| `logout` | `Touch`, `EndSession` |
| `changePassword` | `Touch`, `ReadCurrent`, `WritePassword`, `Sweep`, `CreateSession` |
| `reauthenticateWithGoogle` | `Touch`, `Stamp` |
| `assertRecentlyAuthenticated`, for `selfDelete` and `requestEmailChange` | `Touch`, `Prove`, `Consume` |
| `anonymiseAccount` | `Anonymise`, `Forget`, `Sweep` |
| `setSuspended`, `forceLogout` of the administrator | `Administer`, `Suspend` or `Unsuspend`, `Sweep` |
| time, Redis | `LinkExpires`, `ReauthExpires`, `SessionExpires`, `LockPasses`, `KeyExpires` |

What one might not expect, and the model keeps: the failure counter is cleared
by a password that was right when it was read, before the session is created;
a session whose account is out of order is deleted by the request that finds it;
`checkLockout` lets everybody through when Redis does not answer, and such
logins are not looked at; the lock is a second Redis command that can be lost,
after which the counter stays at its limit without a lock until the next
failure; the sessions of a deleted account go last.

## 7. Identities

State: `user` the users (with `proof`, a ghost about the address the user has now:
`shown` to be theirs by a link mailed to it or by an identity for which Google has
confirmed it, `given` by Google at signup and not confirmed, or `none`), `row` the
`auth_accounts`, `token` the links with the address they were mailed to, `req`
the requests. The unique indexes on `users(email)` and on `(provider, id)` are
looked at by every insert and update that touches them, over deleted users too.

| code | actions |
|---|---|
| `register` | `Register`, (`Release`), `CreateWithEmail`, `Issue` |
| `handleGoogleLogin` of a new identity | `GoogleCallback`, (`Release`), `GoogleLookup`, then `CreateWithGoogle`, or `Invalidate` and `Issue` of a link |
| `linkGoogleAccount` | `LinkGoogle`, `AddGoogle`, `MarkUsed`, `MarkVerified` when Google is sure of the address |
| `disconnectAccount` | `Disconnect`, `DeleteRow` |
| `resendVerification`, `forgotPassword` | `Ask`, `Invalidate`, `Issue` |
| `verifyEmail` | `VerifyEmail`, `MarkUsed`, `MarkVerified` |
| `resetPassword` | `ResetPassword`, then `WriteHash`, or `FindOwner` and `FirstPassword`; `MarkUsed`, `MarkVerified` |
| `requestEmailChange` | `RequestEmailChange`, `SetPending`, `Invalidate`, `Issue` |
| `confirmEmailChange` | `ConfirmEmailChange`, (`Release`), `ApplyEmailChange`, `MarkUsed` |
| `anonymiseAccount` | `Delete`, `Anonymise`, `Forget` |

`sure` is whether Google has confirmed the address of an identity
(`profile.emailVerified`). `linkGoogleAccount` asks for it; the signup does not, and
makes a verified account either way, which `identities_google` shows. So what holds
of every verified user is `AddressVouched`: the address was shown to be theirs, or
Google gave it and it was not changed since.

`releaseIdentityClaims` deletes *all* rows of the holder it is given, several
statements after that holder was seen to be deleted. `LiveClaimsStand` asks that
this never meets a living user: a user once deleted is never alive again, and
that is what its proof rests on.

## 8. Releases

State: `serving` and `schema` are the two environments, `cd` the CD
run under way, `receipt` and `accepted` what UAT recorded and the owner
accepted, `tagAt` the production tags, `run` the runs of the controller with their
manifests, `claim`, `outcome` and `review` the records in the release store. An
image is the commit it was built from and the schema of a database the last
commit whose migrations it has; production's first release is there already.

| code | actions |
|---|---|
| `deploy-environment` for UAT (`cd.yml`), `selectImageSet` | `DeployUat`, `UatHold`, `UatMigrate`, `UatMove`, `UatFails` |
| `record-uat.mjs`, `accept-uat.mjs` | `RecordUat`, `AcceptUat` |
| `prepare` of `production-release.mjs` | `RegisterRollback`, `PrepareRelease`, `PrepareRollback` |
| the owner's tags | `MoveTag`, and `PlacedAt` in the requests |
| `begin` | `BeginCheck`, `WriteClaim` |
| `deploy-production.mjs` with `deploy-environment` | `ProdHold`, `ProdMigrate`, `ProdMove`, `VerifyProd`, `StepFails` |
| `finish` | `Finish` |
| a runner that is lost, a refused step | `RunLost`, the parameters `passed` and `answered` |

`applied` and `passed` keep apart what a job did and what was reported of it:
`Evidence` is the action's demand that a passing job shows that it ran. `Readable`
and `ClaimsClosed` are the two conditions under which the controller believes
its own history: one bad record, or a claim without an outcome, refuses every
later request. `seen` of a review is a ghost: the schema of production when the
review was made.

A CD run may be of any commit, whatever was deployed before: GitHub runs old ones
again on request, `DEPLOYMENT.md:65` prescribes it after a failure, and no script
asks. Then a docs-only deployment can record an API together with an older
migration job (`Mixed`), and the controller compares the two nowhere. Therefore
`SchemaCoversApi` is violated (`release_rerun`), and what holds is
`SchemaCoversUnlessMixed`: at UAT an API is never ahead of its migrations, and in
production only through such a set.

`ReleaseLog` is the abstract promise: production changes only during an attempt,
there is one at a time, it was prepared against the outcome recorded last, and
`success` is recorded only while production serves what was attempted. `Release`
implements it with the open claim as the attempt.

## 9. What TLC checks

| run | properties | shows |
|---|---|---|
| `journeys_racing` | `TypeOK`, `OneLivePerSentence`, `TimestampsAgree`, `NoticesAreTrue`, `ClosureRequestSurvives`, `ImplementsOneLiveJourney` | Two concurrent requests, the dormancy job and a vratmitra who comes and goes: a person never has two live journeys for a sentence and slots are handed over as the abstract specification says, time columns follow the state, notifications never precede the database, and a closure request is never lost. |
| `journeys_live` | `StaleIsSettled`, `RequestsEnd` | Under fair scheduling every stale active journey is settled and every request ends. |
| `vratmitra_racing` | `TypeOK`, `LinksAreConsented`, `RoleEarned`, `AcceptedMeansRelated`, `SignupReaches`, `DeletionWithdraws` | Two racing requests that may die: every relationship was accepted by its vratmitra, every holder of the role has a relationship, an acceptance that gets to its last statement has made both; and a signup links, and a deletion withdraws, every invitation but those that a race, a death between the two statements or a change of address lets escape. |
| `ercitems_racing` | `TypeOK`, `WentTheWay`, `NoticesAreTrue` | Two racing handlers on one item, with a vratmitra who comes and goes: nothing is approved or returned that was never submitted, and notifications tell what happened. |
| `ercitems_serial` | `OneSelectionPerPool`, `RevokedIsUnread`, `ImplementsItemLifecycle`, `MentorApproves`, `MentorsAreTold` | With handlers one at a time, items lead the documented life, a pool item is selected once, the vratmitra approves when there is one, hears of every submission, and a note taken back is unread. |
| `ercitems_revisit` (violated) | `ReturnedIsResubmitted` | An item the vratmitra returned stays returned, whatever its owner tries. |
| `release_pipeline` | `TypeOK`, `SchemaCoversUnlessMixed`, `LastSuccessIsServed`, `RollbackIsReviewed`, `ImplementsReleaseLog` | Two commits, the second of documentation only, whose CD runs can be run again in any order, three controller runs after the first release, every step able to fail and every run to be lost: production moves only during the one open attempt, serves what the last success names, and runs an API ahead of its migrations only if a set was accepted whose migration job is older than its API. |
| `release_rerun` (violated) | `SchemaCoversApi` | Three commits, the last of documentation only: the CD run of an older commit is run again and fails half-way, the docs-only deployment records what it finds, and production gets an API ahead of its migrations. |
| `credentials_racing` | `TypeOK`, `SessionsAreRevoked`, `OneActionPerProof`, `AttemptsAreBounded` | Two racing requests of one account that may die: logins, resets, changes, re-authentication, suspension and deletion leave no session that should be gone, spend a proof once, and let a bounded number of wrong passwords through. |
| `credentials_deleted` (violated) | `DeletedHoldsNoPassword` | A reset link asked for before the deletion gives the deleted account a password again. |
| `identities_racing` | `TypeOK`, `AddressVouched`, `LiveClaimsStand` | Two racing requests, two users, two addresses and one Google identity: nobody loses a way to sign in to another's signup, and a verified user has proved the address they have or keeps the one Google gave at signup. |
| `identities_google` (violated) | `AddressProved` | One signup through Google with an address that Google has not confirmed ends in a verified account. |

The bounds are the smallest at which every hazard of section 1 occurs: two
requests and the job race for one row, two rows compete for one index key (a
third adds only a loser who sees what the second sees), one invitation is
settled twice, an id stays free for the duplicate. In
`journeys_live` two journeys for two sentences can be stale at once, so that
the job can fail on one and skip the other, and an administrator's overrides
bring rows into every state. In `journeys_racing` `Admin` is empty: `OneLivePerSentence`
and the refinement hold with overrides too, by the theorems, while the columns do
not, an override being meant to leave the usual course.
Roles are fixed by the configuration because no handler modelled in `Journeys`
writes them. `CHECK_DEADLOCK FALSE` in the configurations of `Vratmitra` is
there because everybody may delete their account, after which nothing ever
happens.

In `vratmitra_racing` there are two people, three addresses (held, invited and
another), one invitation of any kind, two ids of relationships, and two requests
that may die: the properties are about one invitation or one
relationship and the two handlers around it. A second invitation for a person
matters to `OnePendingGlobal` and `ImplementsMentoring` only, which are proved.

In `ErcItems`, one item and two requests hold every race over one row; two items
and one pool item hold a duplicate selection; one vratmitra, in either of the
two relationships, both or none, tells the permissions apart.

`credentials_racing` has one session row, one link and two requests that may
die: every property of `Credentials` is about one row of each and two handlers
around it. `MaxFailures` is 2 (10 in the code, `auth.service.ts`), so that a
failure short of the limit and the one that reaches it both occur; the theorem
holds for any limit. `credentials_deleted` needs one request and no failure.
`identities_racing` has two users for two addresses and one Google identity, two
identity rows, one link and two requests: a deleted holder and the new owner of
an address, a row that moves from one to the other, and a link that was mailed
before the address changed.

`identities_google` needs one user and one request: the violation is in a single
statement.

`release_pipeline` has two commits, the second of which may be deployed as
documentation only and then skips the held apply, three tags, four runs of the
controller (the first release, one that is left behind and two more) and two
acceptances: enough for a release, its rollback and a release prepared against
either, with the CD run of the older commit started again at any point.
`release_rerun` has a third commit, because its violation takes a deployment, the
rerun of an older one and a docs-only one. Deadlock is not checked because commits,
tags and runs are used up.

Fairness (`FairSpec` of `Journeys`, used by `journeys_live`): a request in
flight advances (weak, per request: the event loop runs every settled promise);
the job starts every night while there is something to select (weak: `@Cron`);
and a row that comes back on the list again and again is marked at last (strong,
per row: the job may die on any night before it reaches a row, but not every
night at the same place). Nothing makes users do anything. `FairSpec` of
`ErcItems` does: it assumes an owner who calls every status endpoint for every
item for ever. That is no claim about people; it is there so that
`ercitems_revisit` shows what even such an owner cannot reach, and no passing
run uses it. `Vratmitra`, `Credentials`, `Identities` and `Release` state no
fairness: what can be promised about them without knowing what people do is
safety.

### Disagreements met while modelling

- `ercitems_revisit`, `ReturnedIsResubmitted` (`erc/erc.service.ts:18`). VALID_TRANSITIONS has no entry for REVISIT, so no handler moves a returned item on: every attempt of the owner ends in InvalidErcStatusTransition; spec/decisions/04_lifecycle.md:32 says "`revisit`: VM returns item for rework. VA revises and resubmits."
- `credentials_deleted`, `DeletedHoldsNoPassword` (`auth/auth.service.ts:754`). resetPassword finds the EMAIL row by user id, which the deletion keeps, and writes a new hash; it does not ask whether the user was deleted after the link was mailed. src/apps/api/src/modules/users/users.repository.ts:231 says clearStoredPasswords "Clears the stored password of an anonymised account." and :233 "No purpose survives the account, and it is credential material — scrubbing a date of birth while leaving a password hash behind would be incoherent."
- `identities_google`, `AddressProved` (`auth/auth.service.ts:482`). handleGoogleLogin creates the account with emailVerifiedAt set to now, whatever profile.emailVerified says; linkGoogleAccount does ask for it (auth.service.ts:557). src/apps/api/src/modules/auth/strategies/google.strategy.ts:33 says "Absent is treated as NOT verified. Defaulting the other way would let an identity Google itself has not confirmed mark an address verified here."
- `release_rerun`, `SchemaCoversApi` (`src/.github/actions/deploy-environment/action.yml:157`). A docs-only deployment takes over the API and the migration job it finds at UAT as one tested set. After a CD run of an older commit was run again, as DEPLOYMENT.md:65 prescribes, and failed once the held apply had moved the job, that is the API of the newer commit with the older job; nothing in cd.yml or deploy-image-set.mjs compares the two. Accepted and released, production serves an API whose schema nobody applied. .github/actions/deploy-environment/action.yml:208 says of that order "Reversed, the app boots and queries columns that do not exist yet."

Reachable in the models as well, and stated by no run.

*Journeys and relationships.*
- A pause that was read before a completion and is written after it reopens the
  journey (`journeys.service.ts:124`), although "A completed journey is
  permanently read-only. No state can revert it."
  (`spec/decisions/06_edge-cases.md:8`).
- The dormancy job puts to sleep a journey that was updated after its SELECT
  (`dormant-journeys.cron.ts:30`); the loser of a create race gets the raw
  constraint error if the winner's journey is completed before the second lookup
  (`journeys.service.ts:55-58`); an owner who also mentors somebody can approve
  the closure of their own mentored journey (`journeys.service.ts:184`).
- Two accepted global invitations leave two global vratmitras
  (`invitations.service.ts:223`), although "a vratarthi has at most one global
  vratmitra at a time" (`spec/decisions/01_user-roles.md:10`).
- A cancellation read before an acceptance and written after it turns the
  accepted invitation into a cancelled one while the relationship stays active
  (`invitations.service.ts:316`), although "VA cannot cancel a non-pending
  invitation" (`openspec/specs/vm-invitations/spec.md:71`).
- Deleting a VM's account leaves their relationships active
  (`users.service.ts:295`), although "If a VM deletes their account: their
  assignments are removed." (`spec/decisions/06_edge-cases.md:20`).
- An invitation for a journey can be accepted after the journey was completed
  (`invitations.service.ts:225`); two accepted invitations for one journey leave
  a VM who withdraws still assigned (`vm-relationships.service.ts:65`); two
  racing sends leave two pending global invitations, and two racing reminders send
  two mails.
- An invitation its invitee cannot accept is left by a signup inside a send
  (`invitations.service.ts:95`), by a signup that dies before it links
  (`auth.repository.ts:94`), and by a change of address onto the invited one
  (`auth.repository.ts:303`). `SignupReaches` names the three.

*Items.* Two racing selections put a pool item into a journey twice
(`erc.service.ts:83`); a status UPDATE that comes late overwrites an approval
(`erc.service.ts:130`); an owner reads that no vratmitra is assigned and
approves an item after one was (`erc.service.ts:112`).

*Accounts.*
- Two requests for a link that both invalidate before either issues leave two
  usable links, although the statement order is there "so a burst of requests
  cannot leave several usable links live against one inbox"
  (`auth.service.ts:639`).
- When Redis does not answer, nobody is locked out and no failure is counted.
- Two disconnections that race remove both identities of a user, each having
  seen the other; a first password that races a change of address leaves an EMAIL
  row with the address of before; two clicks on one signup link both read the
  pending signup; a change of address that was read before the deletion of its
  account gives the deleted user a real address again.

*Releases.*
- A docs-only deployment after a failed UAT migration can put up for acceptance a
  migration that UAT never completed.
- A claim whose run was lost, and equally a `success` recorded for a run that
  failed, refuse every later request until somebody repairs the record.
- An older accepted commit can be released as an ordinary release, which moves
  production back without the schema review that a rollback needs.

## 10. What TLAPS proves

For all finite or infinite sets of people, roles, sentences, ids and requests,
from the named assumptions on the constants (roles are sets of users, NULL is
not an id, the switches are Boolean; for a bound that counts request slots, that
there are finitely many), and with
interleaving and failures unless the theorem says otherwise:

| theorem | property | establishes |
|---|---|---|
| `JourneysProofs!TypeCorrect` | `TypeOK` | Rows, requests and notices keep their shape. |
| `JourneysProofs!OneLive` | `OneLivePerSentence` | At most one live journey per person and sentence, for any number of requests, from the unique index alone. |
| `JourneysProofs!RequestSurvives` | `ClosureRequestSurvives` | A closure request is only ever ended by the completion of its journey. |
| `JourneysProofs!NoticesTrue` | `NoticesAreTrue` | Closure notifications are never ahead of the database. |
| `JourneysProofs!TimestampsCorrect` | `TimestampsAgree` | State and time columns agree as long as nobody may override states. |
| `JourneysProofs!Refinement` | `ImplementsOneLiveJourney` | The table of journeys implements OneLiveJourney. |
| `JourneysProofs!MentorsComplete` |  | One handler at a time and no override: a journey with a vratmitra is completed by one of its vratmitras. |
| `JourneysProofs!ImplementsLife` |  | One handler or job at a time and no override: every journey leads the documented life, whichever handler or job dies. |
| `VratmitraProofs!TypeCorrect` | `TypeOK` | Rows and requests keep their shape. |
| `VratmitraProofs!Consented` | `LinksAreConsented` | Every relationship was asked for by its vratarthi and accepted by its vratmitra. |
| `VratmitraProofs!Earned` | `RoleEarned` | Every holder of the role VRATMITRA has had a relationship. |
| `VratmitraProofs!Related` | `AcceptedMeansRelated` | Once acceptInvitation has answered, its relationship and the role are there, for any number of racing handlers that may die. |
| `VratmitraProofs!Mentored` |  | For any number of racing handlers that may die, the vratmitras of each journey and of its owner come and go one at a time, and leave several journeys at once only if they are of one owner: what ErcItems and Journeys assume of their environment. |
| `VratmitraProofs!OneJourneyMentored` |  | The same as a refinement: Vratmitra implements the specification Mentoring, for every journey. |
| `VratmitraSerialProofs!OnePending` |  | One handler at a time: a person has one pending global invitation at most, which no constraint of the table ensures. |
| `VratmitraSerialProofs!Reached` | `SignupReaches` | Signup reaches every invitation sent before it, for any number of people and racing requests: one is stranded only by a change of address, a send that looked the address up before, or a signup that dies. |
| `VratmitraSerialProofs!Withdrawn` | `DeletionWithdraws` | Deleting an account withdraws every invitation it has sent, for any number of racing requests: one is left only by a send that was already checked or a deletion that dies. |
| `VratmitraSerialProofs!NothingAsked` |  | One handler at a time, none of which dies: a deleted account has nothing pending. |
| `VratmitraSerialProofs!RemindedOnce` |  | One handler at a time, none of which dies: an invitation is reminded of by mail at most once. |
| `VratmitraSerialProofs!ImplementsLife` |  | One handler at a time: every invitation leads the documented life. |
| `VratmitraSerialProofs!PendingBounded` |  | For racing handlers that may die: a person never has more pending global invitations than there are request slots. |
| `VratmitraSerialProofs!RemindersBounded` |  | For racing handlers none of which dies: an invitation is never reminded of by more mails than there are request slots. |
| `ErcItemsProofs!TypeCorrect` | `TypeOK` | Rows, notes, requests and notices keep their shape. |
| `ErcItemsProofs!Way` | `WentTheWay` | Nothing is approved or returned that was never submitted, nothing submitted or checked in that was not started, for any number of racing handlers. |
| `ErcItemsProofs!NoticesTrue` | `NoticesAreTrue` | What a notification about an item tells of has happened, however late it is sent. |
| `ErcItemsSerialProofs!OneSelection` | `OneSelectionPerPool` | One handler at a time: a pool item is in a journey at most once. |
| `ErcItemsSerialProofs!Unread` | `RevokedIsUnread` | One handler at a time: nobody has read a note that was revoked. |
| `ErcItemsSerialProofs!Approves` | `MentorApproves` | One handler at a time: an item of a mentored journey is approved by one of its vratmitras, through either endpoint. |
| `ErcItemsSerialProofs!Told` | `MentorsAreTold` | One handler at a time: everybody assigned to the journey and one of those who mentor its owner are on the list of those told of a submission. |
| `ErcItemsSerialProofs!ImplementsLife` | `ImplementsItemLifecycle` | One handler at a time: every item leads the documented life, whichever handler dies. |
| `ErcItemsSerialProofs!SelectionsBounded` |  | For racing handlers that may die: a pool item is never in a journey more often than there are request slots. |
| `CredentialsProofs!TypeCorrect` | `TypeOK` | Rows, links, the lockout key and requests keep their shape; no request is ever sent to a step nobody takes. |
| `CredentialsProofs!Revoked` | `SessionsAreRevoked` | Sessions that should be gone are on their way out, for any number of sessions, links and racing requests that may die. |
| `CredentialsProofs!OneAction` | `OneActionPerProof` | One re-authentication authorises one action, for any number of racing requests. |
| `CredentialsProofs!Attempts` | `AttemptsAreBounded` | Wrong passwords between two locks are bounded by the limit and the number of requests in flight, whatever both are. |
| `IdentitiesProofs!TypeCorrect` | `TypeOK` | Users, rows, links and requests keep their shape. |
| `IdentitiesProofs!Vouched` | `AddressVouched` | A verified user has proved the address they have, or keeps the one Google gave when they signed up, for any number of users, addresses, links and racing requests. |
| `IdentitiesProofs!Stand` | `LiveClaimsStand` | No signup or change of address takes a row from a living user. |
| `ReleaseProofs!TypeCorrect` | `TypeOK` | Records and environments keep their shape. |
| `ReleaseProofs!Served` | `LastSuccessIsServed` | Between attempts production serves the images of the last success, and they were accepted, for any number of runs, tags and commits. |
| `ReleaseProofs!Reviewed` | `RollbackIsReviewed` | A rollback moves the apps only over the schema its review was about. |
| `ReleaseProofs!Covers` | `SchemaCoversUnlessMixed` | At UAT an API is never ahead of its migrations, and in production only if it comes from an accepted set whose migration job is older than its API, for any order of commits, reruns, failures and rollbacks. |
| `ReleaseProofs!ImplementsLog` | `ImplementsReleaseLog` | Claims and outcomes implement the log of attempts: one at a time, against the outcome recorded last. |

**Journeys.** `TypeOK` is not inductive: a request about to write must name a
row and one about to insert a person and a sentence. `TypeInv` adds that.
`EveryStepIsARowStep` then reduces every action to one shape: nothing, or one
row stored that the index accepts or whose key did not change. `OneLive` and
`Refinement` follow from that shape without another case split; the refinement
theorem needs `OneLivePerSentence` itself, since a slot that is handed over must
be empty. For notices and closure requests the strengthening is `Grounded` (a
request about to write names a stored row, an id not handed out is blank) and
`WriteStands` (between its write and its notification a handler holds a fact no
other statement can undo). `TimestampsCorrect` assumes `Admin = {}`: an override
to `paused` and back through other states can break the columns, the other
handlers cannot, because the only states they write are paused and active
(`PauseOrResume`).

**ErcItems.** The time columns only ever fill up, so what a handler has checked
of them is still so when it writes, whatever the status became in between. The
invariant is `TypeOK`, a sound row for every id (`SoundRow`: `WentTheWay`, and an
id not handed out is blank), `Grounded` (what each request relies on, by its
next statement) and `NoticesAreTrue`. `WentTheWay` alone is not inductive: an
approval in flight has to be known to have been submitted. Growth (`RowGrows`,
`NoteGrows`) carries `Grounded` over to the requests a step does not move.

**Vratmitra.** The invariant is `TypeOK`, `RequestsFilled` (what a handler holds
at each statement), `AcceptedWasSent` (an invitation with `accepted_at` names
two people), `LinksAreConsented` and `RoleEarned`. The argument is monotonicity:
rows never go away and the columns `Forms` reads never change (`InvGrows`,
`LinkGrows`), so each action is looked at only for the row it adds.
For `Mentored`, `LinkChanges` first sorts the actions: all but four leave the
tables of relationships alone. A new row adds one person to one list, or nobody
who was not there; an ended row takes one person off, unless another active row
keeps them; the bulk `RemoveUnassign` ends rows of one person in the journeys of
one owner, so each journey loses that person or nobody. That the person is one is
`LinksNamed`: every row names a user. The mapping is to two
lists at once, so each step has to leave the other list alone, which is where a
removal that ended rows of several people would fail. For all journeys together
(`RelateStep`) the bulk removal has to stay with one owner, although its WHERE
clause names the vratarthi of the rows and not the owner of their journeys. That
the two are the same is `LinksOwned`: a relationship was asked for by somebody
(`LinksAreConsented`), and help with a journey is asked for by its owner alone,
in a row or in a request about to insert one (`OwnersAsk`).
`Reached` and `Withdrawn` are about steps: an invitation pending after a step was
pending before, for the same address (`WasPending`), or was just inserted; the only
ones who end what a signup or a deletion still has to do are its own second
statement and its death (`StillToDo`); and an address without a holder gets one by a
signup, which then has its link to do, or by a change (`NewHolder`).

**Credentials.** The invariant is `TypeOK`, `Routed` (only a signed-in request is
about to touch its session), `Credited` (a session may authorise one action more
exactly while its proof is unspent) and `SessionsAreRevoked`. The attempts have
an invariant of their own, `Bound`, in three parts that need each other: below
the limit every wrong password since the last lock is in the counter; while the
account is open, those beyond the limit are requests on their way to write the
lock; once it is locked nobody new begins to count, so what is still counting
and what was counted fit into the request slots.

**Identities.** A deleted user stays deleted, and an id once handed out keeps its
holder and its provider (`UsersGrow`, `RowsGrow`). `Knows` says what a request has
found out by its next statement, `Relies` what it takes for granted of users and
rows it read earlier, `SoundUser` that a verified address was proved or given by Google, and `Fits`,
for an unused link and for whoever follows one, that it went to the address the
user has as long as nothing was proved. Without `Fits` a link mailed to a former
address would prove the present one. `LiveClaimsStand` is about the one statement
that deletes rows of somebody else: its holder was deleted when it was read.

**Release.** The invariant says of each run what its checks established
(`SoundRun`), of a claim that its run is deploying or finished (`SoundClaim`), of a
review that, made after the last outcome, it saw the schema there is
(`SoundReview`), that one run at most is at work (`OneBusy`) and that production
serves the last success while no claim is open (`LastServed`). Facts that hold only while every claim is closed need no proof
during a deployment, whose own claim is the open one. `Covers` adds the two
environments (`UatCovers`, `ProdCovers`): the API that is served is covered by
the schema, a recorded migration job is never behind its API, and migrations
never go back. It assumes nothing of the order of commits, so a record can be
`Mixed`, and then production is excused. `ImplementsLog` maps the open claim to the abstract
attempt.

**One handler at a time.** The theorems that assume `~Interleaved` are about a
server that runs one request (or the dormancy job) to its end, or to its death,
before the next begins. The code does not make it so; they separate what is wrong
only in a race, which the racing runs and the findings show, from what the checks
of the handlers get right by themselves. Their invariants (`SInv`, on top of the
racing ones) share one form: one request at work at most, and what it has checked
is still so at the statement it is about to run (`StillSo` and `ToMark` in
`JourneysProofs`, `Fresh` and `Holds` in `VratmitraSerialProofs`, `Knows` in
`ErcItemsSerialProofs`). That is enough for the lifecycles: each write is then the
one documented move, so `ImplementsJourneyLifecycle`, `ImplementsInvitationLifecycle`
and `ImplementsItemLifecycle` follow statement by statement, whichever handler
dies. The two about journeys assume `Admin = {}`, since an override moves a
journey from any state to any other. `ReminderOnce` and `DeletedAsksNothing`
assume `~MayFail` too: a reminder is mailed before it is marked and an account is
deleted before its invitations are cancelled, so a death in between leaves the
mail to be sent again and the invitations pending.

**How far a race goes.** Three checks are not atomic with their writes, so the
property they are there for fails in a race (section 9). `PendingBounded`,
`SelectionsBounded` and `RemindersBounded` say by how much, with interleaving. The
argument is that of the attempts at a password. As long as there is no row, any
number of requests may be on their way to insert one, each in a slot of its own; a
row takes the place of the request that inserted it; and once there is one, no
request passes the check any more. So the invariant (`AskedInv`, `SelectInv`)
counts rows and requests on their way together: there are never more of both than
slots (`Counted`). A row that goes away and comes back changes nothing:
with no row left, the requests on their way are slots again (`CountedAfresh`). For
reminders (`MailInv`) what is counted is the mails, which never go away: until
`reminder_sent_at` is first written, every mail sent belongs to a request that
still has to write it, and from then on nobody new begins. That is where
`RemindersBounded` needs `~MayFail`: a request that dies between its mail and its
mark leaves the check open for ever. The bounds are reached, so they cannot be
lower: with two slots, two racing sends leave two pending invitations, and two
racing reminders send two mails.

**AcceptedMeansRelated** needs no such assumption: `RelatedFirst` says that a
request past its insert, or past the duplicate it ran into, has its relationship
in the tables, and rows of relationships never go away (`TablesGrow`).

Only model-checked: liveness (`StaleIsSettled`, `RequestsEnd`), which is out of
the prover's reach, and what the violation runs refute. Proved and in no
run: what holds of `Journeys` and `Vratmitra` with one handler at a time, and
`ImplementsMentoring`, which takes more invitations to be broken than fit into a
run beside the races.

## 11. Plan

What a continuation would take next:

1. `CustomReview`: custom items (editing, submitting), review rows and the pool; two moderators.
   Abstract specification: one verdict per review.
2. `MentoredJourney`: what remains of composing `Journeys` and `Vratmitra`, now
   that the latter's assignments are shown to be the former's environment
   (`ImplementsMentoring`): roles granted on the way, and who can close whose journey.
3. `MailQueue`: enqueue, worker, retries, shutdown; liveness of delivery.
4. Smaller ones: tests and drafts, uploads, content overrides and suggestions,
   chat rooms, expired-row clean-up.
5. Pure functions: the permission table, check-in streaks, the age gate, the
   numbered username.

## 12. Not modelled

Reads (listings, dashboards, search), the wording of mails and texts, the web
application, backup, tests and infrastructure: see `PROJECT.json` for each. That is
most of the repository by lines. The pages of the web application, the
controllers and their DTOs, the read queries and the import scripts hold hardly
any state of their own and no order of steps to get wrong; the models cover the
handlers whose order matters, somewhat less than a tenth of the implementation's
lines.

Columns no rule depends on (titles, translations, pictures) are left out of the
rows. `deleted_at` of a journey is never written by the program.

`Credentials` is one account: what happens between accounts is in `Identities`,
which in turn has no sessions and no lockout. Neither has the age gate, the
consent texts, the free-name search of `claimUsername` (a loser gets an error
from the index) or the delivery of a mail. `Release` takes the GitHub API, the
container registry and the hosts as they answer, and leaves out checksums,
formats of records and the checks of the workflow's own version. Roles
edited by an administrator are not modelled.
