# Verification of the cleaning-company CRM backend

TLA+ modules, TLC configurations and TLAPS proofs kept beside the backend in `src/` (TypeScript, PostgreSQL
through Prisma, Redis, an object store, scheduled jobs and an outbox worker).  Tenants are cleaning companies: each
has an administrator ("the office" of the tenant), crews, clients, and a public website with booking forms and
document pages.  The platform has super admins, a catalogue of plans, and manual payments.

1. [The system](#1-the-system)
2. [Modules and how they correspond to the code](#2-modules-and-how-they-correspond-to-the-code)
3. [Runs](#3-runs)
4. [Proofs](#4-proofs)
5. [Where the code and its own words part](#5-where-the-code-and-its-own-words-part)
6. [What is not modelled](#6-what-is-not-modelled)
7. [Plan](#7-plan)

## 1. The system

API processes (any number) serve HTTP requests.  One or more worker processes drain `outbox_event`.  A
scheduler process runs cron jobs.  All of them share PostgreSQL; Redis holds caches, sessions' look-ups and
short locks; the bucket holds files.  A handler typically reads and checks with one query, awaits something, and
then writes **by id** in a transaction at READ COMMITTED: between any two awaits another request, job, worker or
crash may come in.  That is the common source of difficulty, and every module keeps those awaits as separate steps
wherever a property depends on them.

| Component (source) | State | Operations | Interacts with | Hard behaviour |
|---|---|---|---|---|
| Durable outbox (`lib/outbox`, `workers/emailOutbox.worker.ts`) | `outbox_event`: status, attempts, lockedAt, nextAttemptAt; per worker: claimed batch | enqueueTx, claimBatch, markProcessed, markFailed | every producer's transaction; deliveries | several workers, lock expiry, death between claim and settlement, last attempt |
| Business notifications (`deliverBusinessNotification`, `markFailed`) | `notification_delivery` beside each outbox row; mails sent | load, cancel, begin, send, record, demote | outbox, SMTP, tenant access | two rows updated one after the other, half of the updates by id alone |
| Website publication (`websitePublicationDelivery.service.ts`, publish/launch in `website.service.ts`) | published revision, pointer to the latest outbox row, receipt | publish, access change, launch retry, attemptImmediate, worker delivery | outbox, caches, access | request and worker deliver the same row; late deliveries; dying requests |
| Invoices and payments (`Invoice`, `Payment`, `invoiceOverdue.cron.ts`, `referenceNumber.ts`) | invoice status and total, payments, advisory lock | create/record payment, proofs and their approval, send, edit, delete, overdue job | notifications | sums and status computed from earlier reads |
| Estimates and quotes (`Estimate`, `Quote`, `publicDocumentPublication.service.ts`) | status, price, link, validity; bookings, jobs made from them | edit, publish, share, client's answer, expiry, delete, conversions | bookings, jobs, public pages | accept and decline at once, conversion twice, links regenerated |
| Leads, enquiries, clients (`WebsiteAcquisition`, `Lead`, `EstimateForm`, `WebsiteSubmission`, `Client`) | leads, clients, inbox, estimate requests, three advisory locks | contact, new lead, edit, convert, delete, estimate and its review | booking form, offers | one person entering twice; locks taken in an order |
| Reports, dashboards, versioned caches (`Reports`, `Dashboard`, `SuperAdmin` revenue, `resourceCacheVersion.ts`) | rows counted, version in Redis, local copies, kept responses | figures per period, bump, read, keep | invoices, jobs | half-open windows; two copies of a version; kept figures |
| Recurring schedules (`recurringBooking.service.ts`, `recurringBooking.cron.ts`) | schedule status and nextRunAt; bookings | engine run, generate now, pause, resume, cancel, update, delete; date arithmetic | access, bookings | engine books from a stale selection; outages; months of unequal length |
| Lists, exports, walks (`QueryBuilder.ts`, `DataExport`, `legacyMediaMigration.service.ts`) | page or cursor of a reader | pages, cursor, chunks, batches | every table | rows inserted, changed and deleted under the reader |
| Booking form and slots (`BookingForm`, `Booking`, `BookingChangeRequest`) | form, submissions, inbox, bookings, change requests, slot lock | submit, convert, clean up, review, restore, reschedule, decide | jobs, website | capacity over two sources; retries and crashes between two transactions |
| Public pages of forms (`BookingForm`, `EstimateForm`) | services, add-ons, questions, timetable, kept copy and its index | show, calendar, price, submit, edit | catalogue | each answer from rows of its own; a copy others must drop |
| Jobs and dispatch (`Job`, `StaffLeave`, `Review`, `staffStatus.cron.ts`) | jobs, assignments, invoices, review links, leave | create, assign, dispatch, check in and out, complete, review | bookings, billing | crews racing on one job; reviews by link |
| Media storage (`Media`) | media rows with a lease, objects, records that show them | initiate, finalise, upload, attach, clear, delete, migrate | job, profile, website | two stores; leases; failures between object and row |
| Sessions (`Auth`, `Session`, `sessionSecurity.service.ts`, `checkAuth`, `authRuntimeCache.ts`) | sessions, refresh families, password, look-ups | sign in, refresh, rotate, revoke, change and reset password, gate | Better Auth, access | refreshes at once, lost answers, grace, a stale cache |
| Tenant access (`tenantAccessResolver.service.ts`, `subscriptionExpiry.cron.ts`) | tenant rows, epoch key, cached resolution | resolve, invalidate, expire | everything asks it | queries in flight during an invalidation, lost keys, deadlines passing in the cache |
| Tenant lifecycle (`tenantAdmin.service.ts`, `superAdmin.service.ts`) | profile, owner, files, super admins | suspend, archive, restore, verify, demote, delete for good | access, media, sessions | deletion through a bucket that fails, dies and is retried |
| Subscriptions (`Subscription`, `Coupon`, `SuperAdmin`) | subscription, checkouts, payments, coupon, scheduled change | trial, checkout, proof, review, grant, refund, switches, expiry | access, lifecycle | reviews that race, a shared coupon, renewal against expiry |
| Plans, exceptions, support mode (`SuperAdmin`, `seedSubscriptionPlan.ts`, `supportMode.service.ts`) | plan's features, overrides, kept answers, support sessions | edit plan, seed, grant, revoke, enter and end support | access | kept answers after a change; restart that seeds |
| Account provisioning (`accountProvisioning.service.ts`, `accountIntegrity.service.ts`, `Staff`, `SuperAdmin`) | users, profiles, websites, trials | register, create, undo, verify, suspend, audit, repair | sessions, website | a commit of somebody else's in the middle; compensation that fails |
| Website studio and onboarding (`website.service.ts`, `onboardingSave.service.ts`, `admin.service.ts`) | draft and number, revisions, live snapshot, steps, catalogue, images | edit, publish, restore, launch, steps v1 and v2, images | booking form, media | two tabs, lost answers, repeated requests |
| Website addresses and domains (`subdomain*`, `domain.service.ts`) | subdomain, aliases, two caches, custom domains | rename, look up, claim, verify, choose, remove | DNS, provider | look-ups in flight, two lost caches, verifications that overlap |
| What visitors are given (`publicWebsite.service.ts`, `websiteProjectionCache.service.ts`, `websiteBookingProvisioning.service.ts`) | live snapshot, kept page, generation, epoch | load, check before and after, preview, wire online booking | access, studio, forms | kept pages and late announcements |
| Staff records, reminders, breaker, realtime, telemetry, settings, HTTP layer, monitoring, scripts | records | create, read, update, delete | the above | little: see section 6 |

What makes each of them correct, in a sentence; the property that says so is in section 3:

- *Outbox, notifications*: one claimant at a time may settle a row, a settled row stays settled; the outbox row and
  the delivery row tell the same story, and every notification concludes.
- *Publication*: "live" is vouched for by a delivery that began after the latest change; the latest change concludes.
- *Billing, offers, enquiries, figures*: an invoice is PAID exactly when its payments cover it; the client's first
  answer stands and is booked once at the accepted price; a person is one lead and no request collides; figures are the
  same wherever they are shown and are not kept under a version that announced a later change.
- *Recurring, lists*: every occurrence is booked once, in order, none is left out, dates stay on the rule; a walk over
  a table meets each row that stays exactly once.
- *Booking, forms, jobs, files*: slots are not overbooked, a submission is one booking; what a page offers is accepted
  at its price; a finished job is billed and reviewed once, nobody is sent to two jobs; what is shown is stored.
- *Sessions*: refreshes at once end neither in reuse nor in two valid families; revoked credentials are refused.
- *Access, subscriptions, lifecycle, plans, accounts*: an answer holds until its deadline; one open checkout, one
  proof and one payment for it; what is expired is past its end; a deleted tenant leaves no file; access ends with its
  grant; an account is whole or can be made whole.
- *Website*: what is live is a revision the row names; nothing is overwritten unseen; an address leads to the website
  that holds it; the primary domain is ready; visitors see what is live.

## 2. Modules and how they correspond to the code

| Module | Models | Composition |
|---|---|---|
| `OutboxLease` | abstract: rows are granted to one worker at a time and settled by it | refined by `OutboxQueue` |
| `OutboxQueue` | `outbox_event` and its workers | base of the next two |
| `NotificationDelivery` | the steps between claim and settlement of a notification | EXTENDS `OutboxQueue` |
| `PublicationDelivery` | publication and access changes, immediate attempt, worker's attempt, receipts | EXTENDS `OutboxQueue` |
| `FreshAnswers` | abstract: an answer is as new as what was confirmed when it was asked for | refined by the two caches |
| `TenantAccessCache` | the epoch-fenced Redis cache of one tenant's access | |
| `WebsiteProjectionCache` | fresh and stale copies, rebuild lock, generation | |
| `ClientOffers`, `Billing`, `Intake`, `Figures` | an estimate and a quote; an invoice; enquiries and clients; the figures and their caches | composed in `MCSales` |
| `RecurringBooking`, `RecurringCalendar`, `Listings` | one schedule; its dates; readers of long tables | composed in `MCRecurring` |
| `OnlineBooking` | one slot of a form, its submissions and bookings | base of `FieldWork` |
| `FieldWork`, `MediaStorage`, `PublicForms` | jobs; files; the page of a form | composed in `MCFieldWork` |
| `Sessions` | one person's sessions and the gate | with `NotificationDelivery` in `MCSessions` |
| `TenantAccess` | the access decision, its deadline, the expiry job on one tenant | base of `TenantLifecycle` |
| `TenantLifecycle`, `Subscriptions` | the administrators' switches and deletion; checkouts, payments, coupon | EXTENDS in a chain; `MCTenancy` |
| `Entitlements`, `Provisioning` | plan, exceptions, support mode; accounts | composed in `MCTenancy` |
| `WebsiteStudio`, `WebsiteAddresses`, `WebsiteDomains`, `PublicSite` | the draft and the live revision; subdomains; custom domains; what a visitor is given | composed in `MCWebsite` |
| `*Proofs` | eight modules of theorems (section 4) | EXTENDS what they prove about |
| `MC*` | the small instances; `MCTenantAccess` is the part of `MCTenancy` with the rows of one tenant | |

Components that do not interact share a run as *parts*: the initial state decides which of them a behaviour is
about, and the others stay at rest.

**OutboxQueue.**  A row's clock values are reduced to what the claim query compares: `lockedAt` is NULL, fresh or
stale, `due` is `nextAttemptAt <= NOW()`.  `ClaimBatch` is the one UPDATE ... FOR UPDATE SKIP LOCKED statement;
SKIP LOCKED may pass over rows, so any selection up to the batch size may come back.  `claims` is what the worker
process remembers, hence gone when it dies (`AbortBatch`).  `Matches` is the WHERE clause of the settling updates.

**NotificationDelivery.**  `Load`, `Cancel`, `Begin`, `SendEmail`, `RecordSent` are the awaits of
deliverBusinessNotification; `Throw` is an error in any of them; `Succeed`, `Fail`, `Demote` the settlement, whose
two updates are two steps.  `timely` says whether live workers are faster than their lock timeout; nothing in
the code ensures it, so what needs it says so.

**PublicationDelivery.**  `EnqueueDelivery` is the transaction common to publishing, launching and lifecycle
changes (row, pointer, receipt cleared); its request goes on to attemptImmediate or dies.  A delivery is three
steps: read the website, reach a verdict, record it.  What the caches hold is abstracted to the verdict; the
second look at the website row in `verify` is kept, because ReceiptIsCurrent needs it.  Rows are created in one fixed
order (`NewRow`), their ids being opaque.

**TenantAccessCache, WebsiteProjectionCache.**  A resolution is the version of the rows it was computed from.
`Commit` stands for any mutation in SQL, `confirmed` for what the last invalidation that reported success covered.
Every Redis call may fail, and may take effect although its reply is lost.

**Billing.**  `Read` is the check of a handler before its transaction (per operation: `Refuses`, `Targets`,
`AmountsFor`), `Insert`, `Sum`, `Commit` the steps inside the transaction under the advisory lock of
`nextReference`; approval, rejection and sending write by id.  `issued` is a history variable.

**ClientOffers.**  `Read` is the check in front of every write, `Write` the update by id.  Only the client's answer
and the expiry repeat their check in the WHERE clause (`StillOpen`).  `agreed` is a history variable: the price in
force when the document was accepted.

**Intake.**  A caller walks through its locks in the order the code takes them (e-mail, phone, the reference
of all tenants), reads what is committed, and its writes appear at commit.  Edits of the office take no lock.  Texts,
prices, coverage and activities are data.

**Figures.**  Half of the behaviours compute every figure from every small book (two rows placed anywhere in a small
calendar, with or without a leap day), as the reports, the pages and the charts do with windows of their own; the other
half is the two caches, of responses and of figures, where a figure is only its age.  They go by one version
("dashboard", "reports") or by two (the reports under `/staff`, `/job`, `/client`; `PageKey`).

**RecurringBooking** keeps dates abstract (multiples of `Period`), because order and completeness do not depend on the
calendar; `RecurringCalendar` is the calendar.  `Select` and `Generate` are the engine's two steps: it books from
what it selected.  **Listings** is a table of rows with ids and sort keys, one reader (`walk`), and others that insert,
change and delete.

**OnlineBooking.**  Submitting is a transaction under the lock of the key and the lock of the slot; converting is
another, under a third lock; in between the process may die.  A repeated submission reads its row in one step and writes
the inbox in another.  `Awaiting` and `Calendar` are the two sources the
capacity counts.  **FieldWork** adds jobs made for those bookings: `visit` is what a request has read, `held` the two
locks under which a review is written, `sync` what the nightly status job has read.

**MediaStorage.**  A row, its temporary and its final object, a lease (`same`: updatedAt is still what the call
read) and the places that show a file.  Storing an object, writing the row and deleting an object are separate steps
that may fail or be cut off.  **PublicForms.**  The page, the calendar, the live price and the submission are four
readings of the same rows; `kept` is the copy in Redis and whether the index names it.

**Sessions.**  A request carries the cookies its browser had when it started (`jar`), its answer changes the jar when
it arrives.  A refresh holds the row of its session; the other handlers are statements one by one: Better Auth's sign-in reads the
account (`SignIn`, `VerifyEmail`) and inserts the session later (`CreateSession`); `late` marks a session inserted after
the deletion that was to include it.  `cache` is what
checkAuth finds in Redis.

**TenantAccess, TenantLifecycle, Subscriptions.**  One record joins a tenant's profile, owner and subscription, the
clock is explicit, and TenantAccess decides on it.  `asked` is what a request has read before it writes by id; what
holds the lock of the tenant's checkout for its whole transaction is one step.  Deletion marks the row, empties the
buckets and deletes the rows; it may fail or die anywhere and be started again.  An upload is let in (`StartUpload`) and
its bytes arrive later, unasked (`StoreUpload`): "sent" and "stored" for the tenant's people, "loose" and "left" for what
no check or a purge stands between any more.

**Entitlements** keeps one plan and one feature; computing and keeping an answer is one step, because the epoch fence
is TenantAccessCache's.  **Provisioning** has one row a person, saying which parts of the account exist and what the
office or a password reset did to it (`hand`), and a request that has done so much of its work.

**WebsiteStudio.**  Every write of the draft holds the advisory lock of the website, so a handler is one step; a tab
sends what it built on what it loaded last, may miss the answer and send again.  **WebsiteAddresses** has the host
cache, the subdomain cache under it and the rows under that, each fenced by a generation; row and alias are two reads.
**WebsiteDomains** has a verification as five awaits and the transaction of the primary domain under its lock; the release
of a stale claim judges the row and deletes it in two steps, and any call may die, or its transaction fail, at any step
(`LoseCall`).  **PublicSite** has one request
of a visitor (`visitor`) as the code's steps: ask access, take the kept page or load, ask again, answer.

*Rigid mode variables.*  `timely`, `mode`, `ops`, `offerOps`, `duties`, `kinds`, `chores`, `errands`, `affairs`,
`intake`, `tasks`, `visits`, `view.about`, `walk.by` and the `part` of `MCWebsite` are chosen in the initial state and
never change.  They name the operations that happen in a behaviour, so that one run covers several settings, and a
property that is claimed under a condition ("while payments only come in") names its own.

## 3. Runs

Run with `tlc -config X.cfg M`.  Every run finishes within four minutes on two cores.

| Run | Module, cfg | Parts and bounds | Shows |
|---|---|---|---|
| publication | MCPublicationDelivery, Publication | 2 changes, 1 request and 1 worker that may die, 2 attempts, 1 repeated launch, 2 revisions; timely | ReceiptIsCurrent, LatestChangeConcludes |
| sales | MCSales, Sales | *offers*: 1 request of the office, 2 clients, prices 1–2, 1 job, 2 mixes; *invoice*: 2 handlers, 2 payments, amounts 1–2, 2 references, 4 mixes; *enquiries*: 2 callers, 2 e-mails, 2 phones, 2 leads, 2 clients, 1 estimate request, 4 calls, 5 mixes; *figures*: 2 rows in a year of 24 half days, with or without a leap day, or 2 processes, 1 request, 2 changes (1 when Redis fails, or when there are two versions) | DecisionStands, BookedOnceAsAgreed; PaidExactlyWhenCovered, PaidIsNeverUndone; OneLeadPerPerson, RequestsGoThrough; FiguresAreRight |
| recurring | MCRecurring, Recurring | *engine*: 1 engine run, 1 request, 3 occurrences, period 2, horizon 7, 4 modes; *dates*: 40 start days, 7 weekdays, 3 frequencies, times 0 and 9, 15 months; *readers*: 4 rows (1 of another tenant), 2 instants, pages of 1 and 2, changes: 0 for pages, 1 for a cursor, 2 for exports and the migration | OccurrencesBookedInOrder, CatchesUp; NoMonthIsSkipped; WalksAreWhole |
| tenant_access_cache | MCTenantAccessCache, TenantAccessSafety | 2 resolutions, 1 commit, 3 tokens; keys may be lost | refinement of `FreshAnswers` |
| projection | MCWebsiteProjectionCache, Projection | 2 calls, 1 commit, 1 invalidation; the counter is not evicted | refinement of `FreshAnswers`, EveryCallEnds |
| fieldwork | MCFieldWork, FieldWork | *jobs*: 2 visitors, 1 request each of office and portals, 2 of the crews, 2 submissions, 2 bookings, capacities 1–2, 2 jobs, 2 members, 2 times, 3 tokens, 10 mixes; *files*: 2 files, 2 places, 2 workers, 7 mixes; *forms*: 2 services, 2 desks, 2 changes, 3 times, 10 mixes | NeverOverbooked, BookedOnceAndSaidSo, CompletionIsWhole, NoDoubleDispatch; FilesAreThere; OfferedIsAccepted |
| sessions | MCSessions, Sessions | *sessions*: 2 browsers, 2 tabs, 3 rows, 4 credentials, 2 sessions at most, 2 passwords, 13 mixes; *notification*: 1 event, 2 workers, 3 attempts, batch 1 | RefreshesMeetSafely, OldCredentialsAreOut, RevokedIsRefusedInTheEnd; RowsAgree, EveryNotificationConcludes, refinement of `OutboxLease` |
| tenancy | MCTenancy, Tenancy | *tenants*: every row against a clock of 4 instants, 1 or 2 tenants, 2 requests, 2 super admins, 1 file, 2 plans, 3 checkouts of 1 instant, 2 payments, periods of 2, trials of 1, a coupon for 1, 16 mixes; *plans*: 1 feature, 2 organizations, 2 requests, 1 super admin, 2 session ids, 5 mixes; *accounts*: 2 persons, 2 mails, 3 requests, 10 mixes, every configuration | ValidAnswersHold, ExpiryJobOnlyRecords, ProofsMatchCheckouts, ExpiredIsPastItsEnd, GoneLeavesNoFiles; AccessEndsWithItsGrant; AccountsAreWhole |
| website | MCWebsite, Website | *studio*: 2 tabs, 1 image, 2 forms, 1 service, 5 steps, 5 numbers, 3 edits, 11 mixes; *addresses*: 2 sites, 2 names, 1 handler, 1 look-up, 2 generations, 3 moves, 4 mixes; *domains*: 2 owners, 2 domains, 2 calls, limit 2, 5 requests, 4 mixes; *public*: 2 forms, 2 changes, 2 requests, 9 mixes | LiveSiteIsKnown, DraftsAreChangedKnowingly; AddressesLeadHome; PrimaryIsReady; VisitorsSeeWhatIsLive |
| refund | MCTenancy, Refund | as tenancy | *violated*: a refund suspends a period funded by a later payment |
| restored_images | MCWebsite, RestoredImages | as website, 2 images, 1 mix | *violated*: a restored revision shows an object that was deleted |
| seeding | MCTenancy, Seeding | as tenancy | *violated*: a restart switches a feature on that the office had switched off |

**Why the bounds are enough.**  Conflicts here are between pairs (two claimants, two payments, a query and an
invalidation, two answers of a client, two tabs): two actors of the conflicting kind are present in every run.  Three
attempts are one to lose, one to retry and the last.  Two payments of amounts 1 and 2 give cover by one, by two, and by
none.  Three occurrences are the least where one can be left out between two others.  The calendar has a leap year and
a common February, so months of 28, 29, 30 and 31 days all follow a start on the 31st.  Three tokens let an epoch be
lost and drawn again while an older one is in flight.  One slot suffices because slots share nothing but the form; two
bookings over a capacity of 1 fill it and one more, over 2 they are the boundary.  Two jobs and two crew members are
needed for double dispatch, three tokens for a link renewed twice.  Three checkouts let one expire, one be cancelled
and one be approved; two tenants with one use of a coupon compete for it.  Three rows of sessions over a maximum of
two let the oldest be evicted, four credentials let a rotated one be rotated again.  One notification suffices: rows do
not interact but through the batch.  Two pages of revisions and two changes between a visitor's first look and
his answer make one answer older than the other.  Where a property is proved as well (section 4), it holds for every
value of these constants.

**Bounds in guards.**  `MaxVersion`, `MaxEpoch`, `MaxGeneration` (commits, invalidations), `Horizon` (clock),
`MaxBookings`, `MaxJobs`, `MaxRef`, `MaxRevision`, `MaxRetries`, `MaxCalls`, `MaxEntries`, `MaxChanges`, `MaxNumber`,
`MaxEdits`, `MaxMoves`, `MaxRequests`, `MaxAsks`, `Months`, `Credentials`, and the sets of rows.  `MaxAttempts`,
`BatchSize`, `MaxSessions`, `Limit`, `DomainLimit`, `MaxUses` are the program's own.  Deadlock is not checked: when all
rows are used, or the clock is at its horizon, nothing is left to do.

**Fairness.**  Only what the processes do of themselves: a live worker polls on a timer and goes on with its batch, a
request being served goes on, time passes (locks and cached look-ups expire, retries become due, the clock of the
recurring engine ticks), the hourly engine starts.  Weak fairness suffices: each of these stays enabled until it is
taken.  No fairness is given to producers, users, crashes, errors, evictions or commits.

**Reading the conditions.**  A property is claimed under the conditions under which the code keeps it; each names
its mixes, and section 5 says what happens outside them.

- OccurrencesBookedInOrder: one engine and one request of the office at a time, without the "generate now" button and
  edits of the rule for the order, with nobody at all for completeness.
- BookedOnceAsAgreed: one request of the office at a time.  DecisionStands: nobody sets statuses by hand or deletes.
- PaidExactlyWhenCovered, PaidIsNeverUndone: records are not corrected.
- OneLeadPerPerson: leads nobody edited or merged.
- NeverOverbooked: what fills the slot counts first (bookings by hand and restored submissions do not), and no two
  requests race a change of status.
- CompletionIsWhole: that the booking stays COMPLETED needs that nobody moves the booking by itself.
- NoDoubleDispatch: one request at a time, nobody moved or sent by hand.
- FilesAreThere: that records show finished files needs that no other request deletes the file being taken.
- OfferedIsAccepted: copies whose filling met no invalidation and no error, services that keep their type, estimate
  forms that name each service once.
- RowsAgree: timely workers, for the two clauses about the outbox row's status.
- BookedOnceAndSaidSo: for the inbox, no late write of a repeated submission has overtaken the entry (`overtaken`), and
  its status is not set by hand while requests race.
- OldCredentialsAreOut: a session inserted after the deletion it should have met is exempt (`late`).
- ProofsMatchCheckouts: nothing refunded.  GoneLeavesNoFiles: no other administrator's switch meets the deletion; what
  was let in before the last purge, or by a client's link, is exempt.
- AccountsAreWhole: what the office, a change of address or a password reset made of an account (`hand`) is exempt from
  the clause it breaks.
- FiguresAreRight: a response follows its version where figures go by the same one; with a leap day the overview of
  twelve months may show less than the page.
- AccessEndsWithItsGrant: the answer could be invalidated, no restart, no two updates of one plan.
- AddressesLeadHome: look-ups that began after the invalidation of the new name succeeded, for a name that was not
  taken back from an alias meanwhile.  PrimaryIsReady: nothing in progress, and, but for there being one primary at
  most, websites whose last choice was cut short or whose ready domain was released (`lost`) are exempt until they choose
  again.
- RefreshesMeetSafely: for the part about being signed out, no answer is lost or slower than the grace, and nobody
  changes the password or signs in meanwhile.

## 4. Proofs

TLAPS 1.4.5 with Z3, Zenon and LS4; `tlapm M.tla` proves each module from nothing.  Every theorem is about the
specification of the component itself (not about the small instance), for every value of its constants.

**OutboxProofs** (`OutboxQueue`, `PublicationDelivery`).  For any rows, workers, attempts and batch size.  The invariant
is TypeOK, ClaimsAreFenced and WaitingRowsAreClaimable with AbsentRowsAreUntouched: fencing alone is not inductive, since
a claim must never be ahead of its row's attempts, and a row is claimed only where its attempts are left.  `TypeCorrect`,
`Fencing`, `WaitingIsClaimable` are its parts; `LatestClaimantSettles` and `SettledForever` are action properties from
it; `QueueImplementsLease` shows each step to be a step or a stutter of `OutboxLease`, where a claim maps to the grant
that takes the row from its former holder.  For publications, `ReceiptsAreCurrent` needs to know what deliveries in flight
hold: whoever works on the row the pointer names has read the website after that row was inserted (DeliveryInv), so
what the pointer lets pass is of the latest change.  `PublicationTypeCorrect` comes with it.  Neither needs timely workers.

**TenantAccessCacheProofs**, for any requests, tokens and versions.  The invariant adds to TypeOK and
CurrentEntryIsFresh that entries are committed versions under tokens already drawn, and what each call in flight may
rely on (CallIsSound): if the epoch it captured is still the epoch, what it has read is as new as what is confirmed.
It holds because tokens are never drawn twice.  `EntriesAreFresh`, `FreshAnswersOnly`, `TypeCorrect`,
`CacheImplementsFreshAnswers` follow.

**RecurringProofs**.  `OneEngineBooksInOrder` (`RecurringBooking`, any horizon, period and number of bookings): what is
booked lies before nextRunAt, and what an engine or a handler has read is either still so or of a schedule that was
stopped meanwhile (OnlyStopped).  Its hypotheses `OneEngine` and `OneHandler` are the regime the property is claimed in.
`WeekdayKeptForever`, `EveryMonthHasItsOccurrence`, `OccurrencesTypeCorrect` (`RecurringCalendar`, for any calendar whose
months have at least 28 days, which is `CalendarAssumption`) by arithmetic on days.

**SalesProofs** (`ClientOffers`, `Billing`, `Intake`).  `OfferInv` says of a request in progress what it may still rely on: the
document has only moved as the client may move it, and a booking exists exactly where the status says so.  From it
`BookedOnceAtTheAgreedPrice` and `FirstDecisionStands`, under `OneAtATime` (one request of the office); `OffersTypeCorrect`
needs no hypothesis.  `LedgerInv` is the lock of the references: only the holder of the lock is between inserting and
committing, and the reference it computed is above all committed ones; `LedgerTypeCorrect`, `ReferencesStayFree`.
`CoverInv` adds, while payments only come in, that the sum the holder read is the sum of the committed payments and that
the invoice is PAID exactly when covered; `PaidWhenCovered`, `PaidStaysPaid`.  Sums over finite sets are needed only
through their change by one payment; that fact is shown by the least counterexample, not by induction.
For enquiries, for any callers, people, rows and mix of requests, aborted anywhere, IntakeInv says for each step which
locks a caller holds and is still to take (KeepsItsLocks), and what the holder has read that nobody else may change
meanwhile (KnowsNoTwin): a lead is inserted only where none has the e-mail or the phone (`PeopleHaveOneLead`).  For
`EnquiriesGoThrough` each caller has a number that is smaller for whoever holds the lock that another one waits for, so that of
any callers in progress the one with the least number can go on; a reference or an idempotency key is inserted only under its lock.
Neither has a hypothesis, nor has
`IntakeTypeCorrect`.

**FieldWorkProofs** (`OnlineBooking`, `FieldWork`, `MediaStorage`, `PublicForms`), for any visitors, requests, bookings, capacities, jobs, crews, tokens.
`FieldInv` is BookingInv (which submission is behind which booking, and who is converting it), SlotInv (what is
awaited and booked is within the capacity, and the holder of the slot's lock has counted what is there), JobInv (what
a finished job has left behind; whose hands the link and its two locks are in) and DispatchInv (what the one dispatcher
has seen is still so).  `SlotIsNeverOverbooked`, `ASubmissionIsBookedOnce`, `FinishedJobsAreWhole`, `NobodyIsSentTwice`,
`FieldTypeCorrect`.  The hypotheses are those the properties state themselves; `BookingAssumption`
and `FieldAssumption` (there is a time) are the modules'.
For the media, for any files, records and requests, every action is first reduced to what it does to one row, one record
and one request (the lemmas `...Does`), and `MediaInv` is kept by each of these kinds of step.  Its parts: a file under a
lease has one worker, unless leases are taken over (LeasesAreSingle); objects are removed only from rows marked DELETING
or DELETED, which nothing leads back from (ObjectsGoUnderAMark); a row and an object that are being created together are
known to nobody else (CreatedAlone); the target of a migration is known to its ledger alone until the record shows it
(MigratedAlone, LedgersDiffer, OneMigrates); what is about to be shown is finished, and what is about to be deleted is
not in use (TakenFilesAreReady).  `FilesStayThere`, `MediaTypeCorrect`.  The hypothesis of the former, `OldLeasesAreAlone`, is about which requests meet:
a finalisation that is taken over after five minutes meets no deletion, clearing, attachment or replacement,
and the migration meets no request that deletes or takes a file by its id; section 5 (Media) says what happens if they do.
For the public forms, `PublicInv`: a page called sound or clean is the page that would be loaded now (SoundPageIsCurrent,
CleanPageIsCurrent); so is a clean copy, unless somebody has written and has yet to drop copies (CleanCopyIsCurrent);
the entries of a booking form cannot be mistaken for each other, nor those a request has resolved and not yet written
(EntriesAreToldApart).  `OffersAreAccepted`, with `OfficeIsConsistent`: an entry that names a service names no type of its
own (section 5, Public forms, is about those that do); the run's lists satisfy it.

**TenancyProofs** (`TenantAccess`, `TenantLifecycle`, `Subscriptions`, `Entitlements`, `Provisioning`).  AnswerWasComputed remembers that an answer was
computed at an earlier instant from rows that differ from the present ones only by what the expiry job records;
DecisionStands is the lemma that a decision does not change before the least of its deadlines: `ValidAnswersAreRight`,
`ExpiryJobIsInvisible`.  RowsInv (RecordsAreTyped, AsksAreCurrent, DueChangesExist, ProofsHaveCheckouts,
DeletionsAreMarked, ExpiredIsPastItsEnd) gives `ExpiredHadEnded`, since every action but the expiry job renews, ends or
leaves a period, and `GoneLeavesNothing`, since from the claim of a deletion to the removal of its row the row
stays marked, so that nobody whose access is checked is let in, and a purge leaves nothing that was (Bare).  MatchInv (OneIsOpen, AdministratorsDoNotPay, AsksAreForTenants, ProofsAreOfCheckouts,
ProofsAreSingle, CheckoutsAreBacked, CouponIsShared) gives `CheckoutsAreMatched`; the counts are stated as "one and no
other", and that a proof of a checkout under review exists, the converse of ProofsAreSingle, is kept apart because a
refund loses it.  Reservations of the coupon shrink as the clock moves.  `SubscriptionsTypeCorrect`.  EntitlementInv (DesksAreRight,
AnswersAreTyped, AnswersAreFresh, SupportIsOnce) says which change each desk has written and not yet announced, and that a
cached answer differs from the rows only by such a change: `AccessEnds`.  ProvisioningInv relates every row of a person
to what the requests in flight about him have done so far (RowIsRight, Knows, HalvesAreKnown): `AccountsStayWhole`.  Both
hold for every mix of requests.

**WebsiteProofs** (`PublicSite`, `WebsiteProjectionCache`, `WebsiteDomains`, `WebsiteStudio`), for any forms, changes and requests.  `SiteInv` is SiteTypeOK, RowIsReleased (what is live is
a published revision under its number), CopyFits (what the kept page says was published, and how old it can be under
its generation and epoch) and RequestFits (for each step of a request, what it may still rely on: its promise, the
access it was told, the page it took or made).  `VisitorsAreShownWhatIsLive`, `SiteTypeCorrect`.  Both assume
`ScriptRunsApart`: the operators' reconciliation and a publication do not meet (section 5 says what happens if
they do).  For the projection's copies the invariant is that of the tenant access cache, for two copies, a counter and a
lock.  `OwnerAloneReleases` needs no more than types.  `CopiesStayFresh` and `ProjectionImplementsFreshAnswers` assume
`~MayEvict`: a missing counter counts as 0 in the code, a value that a query in flight may hold, so that with
eviction both are false (section 5).
For domains, for any websites, domains and calls that overlap or die: at most one domain of a website is primary, one
call verifies a domain at a time, and unless a call is still to repair the choice, the primary domain is ready and there
is one where a ready domain is, or the holder of the website's lock is about to write a domain that is ready (Repaired), or the website is `lost`.
`PrimaryDomainsAreReady` assumes `RemovalsAreAlone`: a removal that meets a choice of the primary domain may leave none
(section 5).  `DomainsTypeCorrect`.  For the studio, for any tabs, images, forms, services and mix of operations:
revisions are numbered up to the draft's number, numbers only rise, a tab or a request that
knows the present number knows the present draft, and a step that was applied has left its receipt (StudioInv).  From it
`LiveSitesAreKnown` and the action property `DraftsChangeKnowingly`; neither they nor `StudioTypeCorrect` have hypotheses.

**SessionsProofs** (`Sessions`, `NotificationDelivery`), for any browsers, tabs, rows, credentials and passwords and every mix of handlers.  Every
step is of one of nine kinds (lemma Steps), most of them Quiet: they delete rows and learn of no session.  The invariant
has four parts.  TypeInv adds to the types that only issued credentials are stored, kept or presented (IssuedOnly).
SignInInv says that nobody else knows the session of a sign-in that is under way (FreshIsAlone), and that such a session,
if it is still there and was not inserted late, is of the settled password or a later one (PasswordsAreCurrent), and open
to a suspended person only until it is validated (OnlyRefused): `OldCredentialsAreRefused`, since whoever deletes all
sessions deletes those too and Bind finds them gone.  RotationInv says that whoever has locked a row
has read it as it is (RowIsHeld) and that the credential a session may exchange has been exchanged by nobody
(KeysAreUnspent; for sessions from before credentials were stored, that they hold only their own).  GraceInv, under the
hypothesis that the property states itself, says what browsers, requests and answers hold: an answer that carries a
credential carries the current one and nobody has it yet, what is presented is current or was until a moment ago, and the
current one is presented only when the one before it is gone; from it no presented credential is ever found old.  Together
they give `RefreshesAreSafe`.  `SessionsTypeCorrect`.
`NotificationRowsAgree`, for any rows, workers, attempts and batch size: a mail is counted by the attempt that sent it, and a delivery that
says SENT was mailed, whatever workers crash or come late.  While workers are timely, what a worker at
each step may rely on is the delivery as it left it, so that an outbox row is PROCESSED only over a SENT or CANCELLED
delivery and FAILED only over a DEAD one.

*Assumptions* are those named in the modules, which TLC evaluates in the runs, and the hypotheses above.

*Model-checked only*, because out of the prover's reach: liveness under fairness (LatestChangeConcludes, CatchesUp,
EveryCallEnds, EveryNotificationConcludes, RevokedIsRefusedInTheEnd), ENABLED, and what a recursive definition computes
for all inputs.  *Not yet proved*: AddressesLeadHome, FiguresAreRight, WalksAreWhole.

## 5. Where the code and its own words part

Three divergences are runs of the project:

- `RefundSparesLaterPayments` (refund): refunding a PAID record suspends an ACTIVE subscription whatever was paid
  after it (`superAdmin.service.ts:1884`); the comment at :1860 says "another later PAID record has taken over funding
  the current period, we leave its status untouched".
- `RestoredImagesExist` (restored_images): deleting an image deletes its object (`website.service.ts:1777`), and a
  restored revision shows it again; the comment at :194-195 says "immutable R2 resources remain available".
- `SeedingKeepsChoices` (seeding): a restart compares features by label, not by key (`seedSubscriptionPlan.ts:314`), so
  a feature that the office switched off under another wording is switched on; :306-309 says "never overwrite ...
  feature choices made by super-admin".

The following formulas stand with their modules.  TLC refutes them with the constants named; to see the trace, put the
formula into the cfg of the component's run and choose the mixes named.

| Formula | Module, setting | What the code does | What it says |
|---|---|---|---|
| NeverMailedTwice | NotificationDelivery, sessions | the mail goes out at `emailOutbox.worker.ts:213` and is recorded at :223; a restart in between sends it again | `bookingReminder.cron.ts:39` "polling/restarts cannot send the same reminder twice" |
| SentStaysSent | NotificationDelivery, sessions | the updates at `emailOutbox.worker.ts:190`, :208, :223 match by id alone | `emailOutbox.worker.ts:75` "Only one process can claim a row at a time" |
| ExpiredClaimantIsSilent | PublicationDelivery, Timely = FALSE, 2 workers | a failed immediate attempt sets attempts to 0 (`websitePublicationDelivery.service.ts:189`), so an attempt number is used twice | `emailOutbox.worker.ts:160` "An expired claimant cannot overwrite the current proof" |
| SendMovesOnlyDrafts | Billing, {recordPayment, sendInvoice} | sendInvoice computes the status from what it read earlier (`invoice.service.ts:628`), so a paid invoice goes back to SENT | :620 "move to SENT if still DRAFT" |
| MarkedPaidOnlyWhenCovered | Billing, {recordPayment, updateInvoice} | the total is read before the transaction (`invoice.service.ts:702`) | :705 "Mark invoice as PAID only when fully covered" |
| CancelledTakesNoPayment | Billing, {recordPayment, updateInvoiceStatus} | the status is checked before the transaction only (:668) | :671 "Cannot record payment on a cancelled invoice" |
| DecidedOnce | Billing, {newProof, approve, reject} | approval and rejection check, then update by id (:918) | :921 "Payment is not pending approval" |
| OnlyActiveSchedulesGenerate | RecurringBooking, Office | the engine books what it selected (`recurringBooking.cron.ts:49`, :78) | `recurringBooking.service.ts:391` "Only ACTIVE schedules can generate bookings." |
| GenerationAdvances | RecurringBooking, every handler | button and engine advance from the same nextRunAt (`recurringBooking.service.ts:436`) and book twice | :376 "it advances nextRunAt exactly as the cron does" |
| OnlyActiveSchedulesPause | RecurringBooking, Office, 2 requests | a pause that read ACTIVE overwrites a cancellation (:303); a stale resumption books an occurrence again | :304 "Only active schedules can be paused" |
| GeneratedBookingsAreLinked | RecurringBooking | the engine sets no recurringScheduleId (`recurringBooking.cron.ts:85`) | `recurringBooking.prisma:42` "All bookings generated from this schedule" |
| TerminalStatusesStay | ClientOffers, both mixes | updateQuoteStatus writes by id what it checked earlier, over a client's answer (`quote.service.ts:421`) | :131 "terminal — can only convert to booking" |
| BookedOnceAsAgreed | ClientOffers, 2 requests of the office | two conversions at once make two bookings (`quote.service.ts:481`); an edit that read DRAFT lands on a published quote | :485 "This quote is already linked to booking", :314 "Only DRAFT quotes are editable" |
| LinksKeepWorking | ClientOffers, 2 requests of the office | two publications at once generate two tokens (`publicDocumentPublication.service.ts:189`); the first link dies | |
| FinishedStaysFinished | FieldWork, {jobStatus, check, race} | a check-in that races a completion reopens the job | `job.service.ts:457` "[JobStatus.COMPLETED]: []" |
| RestoringNeverOverbooks | OnlineBooking, {submit, decide} | restoring a declined submission counts submissions only (`bookingForm.service.ts:600-603`) | :603 "reactivation cannot silently overbook a slot" |
| EmptySlotsAreFree | OnlineBooking, {submit, delete} | the converted submission of a deleted booking occupies the slot | |
| RevocationIsImmediate | Sessions, {request, logout} | a stale fill re-admits a revoked session for up to 30 s (`authRuntimeCache.ts:297`) | :303-304 |
| ReviewIsPossible | Subscriptions, {paid, refund, submitProof} | refunding a PENDING proof leaves its checkout UNDER_REVIEW for ever (`superAdmin.service.ts:1876`, `subscription.service.ts:660`) | |
| DeletionIsNotUndone | TenantLifecycle, {hardDelete, suspendTenant} | suspending and reactivating overwrite PENDING_DELETION (`tenantAdmin.service.ts:411-418`) | |
| SomebodyIsSuperAdmin | TenantLifecycle, {demote, race} | two demotions each see the other (`superAdmin.service.ts:743`) | |
| ImplementsFreshAnswers | WebsiteProjectionCache, MayEvict = TRUE | a missing generation counts as 0 (`websiteProjectionCache.service.ts:91`), a value an old query may hold | :101 "an in-flight old query cannot repopulate Redis after invalidation" |

Divergences that were met while modelling and that the conditions of the properties exclude:

- *Recurring.*  computeNextRunAt skips a whole period when the given instant is itself an occurrence
  (`recurringBooking.service.ts:65` against :40 "on or after").
- *Bookings and jobs.*  A late IN_PROGRESS write, or a job reopened by a late check-in and completed, resurrects a
  cancelled booking whose place was given away.  Auto-dispatch looks neither at leave nor at a job's status, and
  replaces the team; assigning on an IN_PROGRESS job deletes check-ins.  Approving a request cancels a COMPLETED
  booking.  A crash between submitting and converting leaves a pending submission.  A repeated submission writes the
  status it read to the inbox (`bookingForm.service.ts:1043`, `websiteSubmission.service.ts:79-113`): NEW over CONVERTED.
- *Public forms.*  Renaming a service re-infers its type (`serviceCatalog.service.ts:450-469`), so a legacy entry is
  offered and refused as ambiguous; likewise for a service without a type that was put on the form together with one
  (`bookingForm.service.ts:289`).  An estimate form may name a service twice with two prices.  A fill that overlaps an
  invalidation, or a failed `sadd`, leaves a copy the index does not name until its TTL.
- *Enquiries.*  A merge writes back the e-mail it read and can give two leads one phone; deleting a lead may meet its
  conversion (`lead.service.ts:499` "retained permanently"); inbox writes may undo CONVERTED
  (`websiteSubmission.service.ts:326`); two conversions with an edit between make two clients.
- *Figures.*  The report's previous window ends a day early (`reports.service.ts:241-242`), the dashboard's shares an
  instant (`dashboard.service.ts:23-26`); "outstanding" counts drafts and cancelled invoices in one place and not in the
  other; total revenue sums the latest 100 payments only (`superAdmin.service.ts:325`); the bump drops the local copy
  before the INCR, so a reader may keep the old version for 2 s; expenses bump no version.  The staff, jobs and clients
  reports are kept by the version of their area, their figures by that of "reports" (`privateResponseCache.ts:26-46`,
  `reports.service.ts:92-95`): a change may bump one only, or one first, and the old figure is kept under the announced
  new version of the page.  "12m" is 365 days on the overview (`dashboard.service.ts:109-114`, :338-341) and a calendar
  year on the revenue page (:444-445) and in the reports (`reports.service.ts:43`): across a leap day the first has a day
  less.
- *Lists.*  An export whose last row of a chunk is deleted before the next read ends silently
  (`dataExport.service.ts:53-57`); lists without a tie-breaker may repeat or skip rows.
- *Media.*  finalize takes over a row older than five minutes and MarkReady writes by id without the lease
  (`media.service.ts:258`, :321, against :475-478 "can never race"), so an old finalisation may bring a deleted file back.
  A migration that is run again stores its object under a row that was deleted meanwhile.  An upload that was let in
  before a deletion claimed the tenant (a presigned PUT, the image work, a decision kept in another process), or that no
  such check stops (a client's proof, a super admin's upload), may land behind the purge and stays
  (`media.service.ts:169-215`, :294-315, :370-403 against `tenantAdmin.service.ts:477-507`).
- *Sessions.*  Lost or slow refreshes and password changes end as "reuse"; verifying an e-mail undoes a suspension
  (`auth.service.ts:774`); a sign-in that was accepted before a reset or a suspension, and whose session Better Auth inserts
  after its deleteMany (`auth.service.ts:266`, `sessionSecurity.service.ts:119`), survives it; a 401 of an old tab clears newer cookies (`auth.controller.ts:184-191`).
- *Subscriptions.*  A refund that races an approval leaves a refunded payment with an ACTIVE plan; a scheduled
  downgrade is applied over a later upgrade (`tenantAdmin.service.ts:963-969`).
- *Plans.*  Of two updates of a plan one may undo the other without invalidating (`superAdmin.service.ts:1129-1132`);
  seeding invalidates nothing; two starts of support mode leave a session whose key is gone.
- *Accounts.*  Administrators created by the office have no subscription until a repair; a deleted cleaner keeps an
  ACTIVE user; a death between verification and activation leaves a user only the office can activate; a trial that
  ends before the code is entered makes verification fail for ever.  An owner whose address the office changes stays
  ACTIVE, unverified and without a mail (`tenantAdmin.service.ts:388`; `integrityChecks.ts:177-179` calls that a fault);
  a password reset by OTP verifies a PENDING user (`auth.service.ts:912`; `integrityChecks.ts:167-171`), whom the resend
  then skips (:840).  The office may vouch for or activate half an account, or give a role to somebody without a profile:
  a deleted cleaner becomes an administrator without a business (`tenantAdmin.service.ts:736-747`).  A repair that
  completes a user first makes the completion fail and be undone.
- *Website.*  A published row without a snapshot is not given one by configureForAdminTx; after deleting a booking form
  no earlier revision that used it can be restored; removing a domain while another is chosen may leave none
  primary (`domain.service.ts:551-567`), and so does a call that dies, or whose transaction fails, between writing the result
  (:457, :499, :531) and choosing (:472, :515, :542), until the next choice; a stale claim is judged at :337 and deleted
  by id at :356 although a verification may have completed between; a look-up that reads the rows before a website
  moves back to its old name and the alias after it (`websiteHostResolver.service.ts:311`, :350;
  `subdomain.service.ts:142-168`) answers 404, and keeps that until the next invalidation; with Redis down a second verification may demote an active primary domain;
  completing an onboarding step and saving the catalogue take their locks in opposite orders
  (`onboardingSave.service.ts:58` against `docs/phase2/README.md:42`).
- *Public site.*  The booking settings call a form live that is withdrawn (`websiteBookingProvisioning.service.ts:261-266`);
  the reconciliation reads the live snapshot, and writes it back under the new number, without the website's lock
  (:649, :758), so a publication in between is overwritten by the old content; the studio cache has no fence.

A Redis failover to a replica that has missed the latest epoch brings an old token back, and a query that captured it
may then store (`tenantAccessResolver.service.ts:416`, against the comment at :111): `TenantAccessCache` loses keys but
never restores them, so this case is outside the model.

## 6. What is not modelled

- *Code outside `src/`* is reduced to how the code uses it: PostgreSQL (a statement is atomic, READ COMMITTED, row and
  advisory locks), Redis (a script is atomic, any call may fail, keys vanish), the bucket (a call takes effect or
  throws, or both), SMTP (accepts or throws), Better Auth (signing up commits by itself; signing in reads
  the account and inserts the session later; a code is looked up and used in one step), DNS and the hosting
  provider (any answer), the clock.
- *The map* of `PROJECT.json` has no row of its own for a helper whose lines lie within those of the operation that
  uses it.
- *Within modelled parts*: line items, service snapshots, client counters, templates, rendering, audit records and
  permission checks; amounts, prices and the contents of forms, pages and drafts are data.  Rebuild locks that only save
  loads, plan limits that are checked and then exceeded (clients, staff, websites' uploads), geocoding, lists of recent
  rows, a code for an address that has passed to somebody else.  Transactions that hold a lock for their whole length are one step.
- *Between the parts of a run*: components that share a run as parts do not meet in a behaviour; what one needs of
  another is in its own module (`FieldWork` has the bookings, `Entitlements` the subscription's activity, `PublicSite`
  the tenant's rights and the forms).
- *Whole parts* are listed in `PROJECT.json` with the reason: staff records, booking reminders, realtime and push,
  telemetry, catalogues and settings, wiring, monitoring, scripts and deployment; and, planned, the circuit breaker
  with the per-request memo.

## 7. Plan

Done, in this order: outbox and its lease; the two deliveries; billing; recurring engine and calendar; tenant
access, cache and rules; projection cache; offers; booking and field work; sessions; lifecycle and subscriptions; studio,
addresses and domains; enquiries; plans; media; figures; accounts; lists; public forms and the public site; and the
eight modules of proofs.

Theorems worth proving next, most important first, each in the module that holds its component's proofs already or
extends it:

1. `AddressesLeadHome`: what a kept address may be wrong about is what a delivery still has to drop.
2. `WalksAreWhole`: the cursor divides the rows that stay into those read and those to come.
3. `FiguresAreRight`.
