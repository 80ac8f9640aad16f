# SkulPulse: verification project

SkulPulse is a multi-tenant school-management service: a FastAPI application
(`apps/api`) over PostgreSQL and Redis, and a Next.js client (`apps/web`). This
directory holds TLA+ models of the parts whose correctness depends on how
requests, answers and users' actions interleave, fail and repeat, on the server and in
the browser; the TLC configurations that check them; and proofs of their safety properties for every
value of the constants, checked by TLAPS.

Paths below are relative to `src/`; `services/x.py` stands for
`apps/api/app/services/x.py`, and so on; `components/`, `app/`, `lib/` and `store/` of
the client are under `apps/web/`.

## 1. The system

### How a request runs

Everything the models say about concurrency follows from these facts.

- Several API processes serve requests; a request is one coroutine with one
  SQLAlchemy session (`core/db.py:68`, `get_session`) and one PostgreSQL
  transaction at READ COMMITTED. The route commits at its end; an exception, a
  lost connection or a crash before that rolls everything back.
- Two requests for the same rows may be at any point of their code at once. A
  SELECT sees what others have committed, never what they have only flushed.
- `SessionLocal` has `autoflush=False` (`core/db.py:33`): attribute writes reach
  the database at an explicit `flush()` or the commit. SQLAlchemy writes only
  attributes whose value differs from the one loaded: a column "set" to its
  loaded value is not written, and whatever another request put there stays.
- ORM updates go by primary key and have no version check: the later commit
  overwrites. Bulk `UPDATE`/`DELETE` statements lock the rows they touch until
  the commit. Unique constraints make an insert wait for an open transaction
  with the same key, and refuse it once that one has committed.
- Redis is not part of the transaction: what is set stays after a rollback.

Each model of the API has a set `Reqs` of handlers that may be open at once. A
handler is a record of what the request's code holds in local variables: a
`...Read` action loads it under the code's guards, later actions use it,
`...Commit` publishes it, and `Rollback` (`Abandon`, `GiveUp`, `Drop`) ends it.
Reads that no write can separate are merged in one step.

### How the client runs

- A page is a single thread: what a click or an answer does to the state of a
  component is one step. What separates steps is a request under way.
- Requests go through one RTK Query service (`store/api/skulpulseApi.ts`). A
  query's answer is cached by its arguments and read again when a mutation ends
  whose `invalidatesTags` meet the query's `providesTags`. RTK delays this until no
  query or mutation is pending; an answer nobody shows is kept sixty seconds.
  Nothing polls, and nothing is read again because a screen is shown again.
- While a query's arguments change, `data` keeps the answer for the ones before,
  and `isLoading` is true for the first answer only; `isFetching` tells. Which of
  the three a screen uses decides whose rows it shows.
- A mutation may be applied and its answer lost. A retry is the user's.
- The access token lives fifteen minutes in memory, the refresh token in a cookie.

In the client's models `screen` is what the components hold, `calls` the requests in
flight, `rows` the API as far as it matters and `past` the history that properties
speak of.

### Components

| Component | State | Operations | What is hard | What makes it correct |
|---|---|---|---|---|
| Sessions and accounts: `services/auth_service.py`, `tenant_user_service.py`, `platform_admin_service.py` | `refresh_tokens`, account status, `password_hash`, `must_change_password` | sign in, refresh, log out, disable, enable, reset and change password | overlapping refreshes of one token; bulk revocation beside rotations | a chain of refreshes has one end; what was revoked stays so; reset, change and reuse end sessions |
| Idempotent mutations and onboarding: `idempotency_service.py`, `onboarding_service.py`, `routers/platform/schools.py` | Redis key (24 h), `idempotency_records`, `tenants` | onboard, update school, replace modules, each under a client's key | Redis is written before the commit; retries; expiry; equal keys at once | one mutation per key; a replay answers the same request |
| Fee structures: `finance_service.py` | `fee_structures` and their lines | create, edit, add/change/delete line, activate | edits and activations loaded as drafts overlap | one frozen, non-empty active structure per term |
| Invoices and payments: `finance_service.py` | `fee_invoices`, their lines, `fee_payments` | generate, refresh, pay | balances computed in Python from stale rows; numbers counted, not allocated | amounts, lines, status and payments agree; numbers are unique |
| Module entitlements: `subscription_service.py`, `cache_service.py`, `core/dependencies.py` | subscriptions and their log, Redis set (5 min), JWT claims (15 min) | replace modules, build claims | the cache is set before the commit, and filled from old reads | the cache and claims come to agree with the rows |
| Platform administrators: `platform_admin_service.py` | `platform_admins` | create, (de)activate, delete | two removals that both count two | an active one stays |
| Academic calendar: `academic_service.py` | `academic_years`, `terms` | create, edit, activate year or term | bulk updates around loaded rows; years seeded with an active term | one active year, one active term, in that year |
| Hostel: `hostel_service.py`, `student_service.py` | `hostels`, `hostel_rooms`, bed columns of `students` | build, resize, delete; enrol, move, check out, re-activate, delete a learner | occupancy is counted, then used | a bed exists, in the room's own hostel; placing does not overfill |
| Timetable: `timetable_service.py` | `timetable_slots` | create, import, change, delete | check-then-insert; imports of many rows | nobody in two places at a time |
| Term registration: `term_registration_service.py`, `..._config_service.py` | checklist, registrations, responses | edit checklist, start, respond, complete | several offices answer at once while the checklist changes | complete exactly when answered |
| Admissions: `admission_service.py` | `admission_applications` | register one or a list, move through the statuses, withdraw, link a student | references counted and inserted later; two edits of one application | who is enrolled has a record and stays enrolled; references are free |
| Student numbers and school profile: `student_number_service.py`, `routers/tenant/school.py`, `routers/platform/schools.py` | `schools`: version, profile, prefix, `student_number_next` | three routes edit the row against its version; enrolment takes numbers under `FOR UPDATE` | two routes bump the version differently; numbers entered by hand | a number is given once; a stale edit is refused |
| Payroll and leave: `hr_payroll_service.py`, `routers/tenant/hr_payroll.py` | salaries, `payroll_runs` and lines, `leave_types` | set a salary, create, compute, finalize a run, list leave types, ask for leave | lines are deleted at once, inserted at commit; types seeded by a read | totals are those of the lines; what is final stays |
| Assessment sets: `assessment_service.py` | `assessment_sets`, marks | open, close, resize, delete a set; save and import marks | a set closed or resized while marks are saved | no mark above the highest; closed marks stay |
| Circulars: `circular_service.py`, `circular_attachment_service.py` | a row, and a file beside it | write, publish, archive, delete; attach, replace, remove | the file changes at once, the row with the commit | the row names the file there is |
| Client session: `lib/session.ts`, `store/slices/authSlice.ts`, `store/Providers.tsx`, `app/page.tsx` | access token, user, password gate, route; cookie | restore, renew, sign in and out, change password | several refused requests at once; answers after signing out | one refresh serves all; nobody waits for ever, a refused login included |
| Client cache: `store/api/skulpulseApi.ts` | the answers of some eighty queries | ask, answer, invalidate, forget | what a mutation changes elsewhere | a quiet screen is current |
| Client forms (some fifty) | drafts | open, type, cancel, save; rows read again meanwhile | drafts shared by rows, or reset by a reread | typing is kept; one save adds one row; it lands where the screen looks |
| Client grids, lists and pages | rows of the place chosen; a draft of them; cursors | look elsewhere, tick, save, page | the rows of the place before | what is saved belongs to what is shown |
| Client imports, templates, enrolment wizard | a list, its check, what was told | choose, check, send in parts, retry | a part that fails, a late check, a second press | added once, and told |

Interactions. Sign-in and refresh call `build_claims`, which reads the module
cache: `AuthSessions` and `Entitlements` share only that call, and neither reads
the other's state beyond it. Onboarding seeds subscriptions and the calendar;
these are the initial states of `Entitlements` and `AcademicCalendar`.
`generate_invoices` reads the active structure (`FeeStructures`) and the
completed registrations (`TermRegistration`); both are variables of
`FeeInvoices` that its `Activate` and `Register` actions change. Enrolment
validates a bed in `Hostel` and takes a number in `SchoolRow`. The ten parts of `Campus`
share no rows otherwise. The client meets the API in three places:
`ClientSession` takes of it what `AuthSessions` proves (a refresh token is good
once, and presented again ends the session), `Endpoints` gives for each call the
tables its handler reads, shows or writes, and the tables of forms and imports
give what the handler refuses.

## 2. Modules

| Module | What it is |
|---|---|
| `AuthSessions` | refresh tokens and the account operations that revoke them |
| `SessionSpec` | the abstract promise: sets of open sessions, one atomic step per request |
| `Idempotency` | the key protocol around onboarding and the two updates |
| `FeeStructures`, `FeeInvoices` | pricing a term; invoices and payments |
| `Finance` | EXTENDS `FeeInvoices`, INSTANCEs `FeeStructures` as `Pricing` |
| `Entitlements` | subscriptions, cache and claims |
| `PlatformAdmins`, `AcademicCalendar`, `Hostel`, `Timetable`, `TermRegistration` | five components with variables of their own |
| `Admissions`, `Payroll`, `SchoolRow`, `Circulars`, `MarkSheets` | five more, over `book`, `handler`, `history` |
| `Campus` | INSTANCEs those ten and states their properties |
| `ClientSession` | the session of a browser page |
| `Endpoints`, `ClientCache` | what each endpoint reads, shows, writes and tags; the cache |
| `FormKinds`, `SchoolForms`, `LearnerForms`, `OfficeForms` | what each form does, as three tables |
| `ClientForms` | what all forms have in common, over those tables |
| `GridScreens`, `ClientGrids` | the screens that look at one of several places; their behaviour |
| `BatchKinds`, `ClientBatches` | the screens that add many rows; their behaviour |
| `ClientPages` | lists in pages |
| `WebApp` | INSTANCEs the six behaviours of the client and states their properties |
| `AuthSessionsProofs`, `SerialSessionsProofs`, `IdempotencyProofs`, `FinanceProofs`, `EntitlementsProofs`, `CampusProofs`, `WebAppProofs` | TLAPS proofs |
| `Sums` | lemmas about sums over finite sets, which the proofs of `Finance` and `Hostel` use |
| `MCAuthSessions`, `MCIdempotency`, `MCFinance`, `MCFeeInvoices`, `MCEntitlements`, `MCCampus` | constants, symmetry and search bounds for TLC |

Each module ends with its properties. Above its operations it holds, under
"Faulty variants", versions of single definitions with a plausible bug (a dropped
guard, a missing reset, a wrong count). They are not part of the
specification; substituted for the definition they vary, they make one of the
properties fail, which shows that the property depends on that line of code.

### How they correspond to the code

`PROJECT.json` maps every definition to its lines. In outline:

- **AuthSessions.** `row[t]` is the state of a row of `refresh_tokens` (no row,
  flushed but not committed, live, expired, revoked), `next` is `replaced_by`,
  `epoch` counts passwords and stands for `password_hash`. `RotateRead`,
  `RotateIssue`, `RotateCommit` are `rotate_tokens`; a presented revoked token
  turns into a `reuse` request. `SweepStart`, `SweepLocks`, `RevokeCommit` are
  the bulk revocation of reuse, disabling, reset and change: its snapshot, the
  wait for locked rows, and the commit with the account's columns. `parent`,
  `family`, `under` and `doomed` are history. The Redis keys
  `session:refresh:*` are set and deleted but read by no code, and left out;
  so is the audit trail.
- **SessionSpec.** What the service's docstring promises, one step per request.
  `MCAuthSessions!Promise` maps unrevoked committed rows to open sessions.
- **Idempotency.** A request goes `idle -> missed -> unused -> checked ->
  inserted -> cached -> stored -> done`: Redis GET, SELECT of the durable
  record, pre-checks, flushed insert, Redis SET, `INSERT ... ON CONFLICT DO
  NOTHING`, commit. A payload is endpoint and body together; a response is the
  request that produced it. The uniqueness of a school's e-mail is left out: it
  refuses in the same place as the code's.
- **FeeStructures.** Reads check `status = "draft"`; commits write what was
  loaded. Activation archives the one other active structure it found.
- **FeeInvoices.** `lines` are rows with the stamp of their insertion, so that a
  DELETE removes the rows it saw and not ones inserted since. A generation deletes
  the lines of all the invoices it refreshes in one step and inserts its new
  invoices in one step, where the code goes invoice by invoice; between them it
  has the lock waits and the integrity errors. `Applies` and `Amount` are
  `_line_applies` and the sum of lines; `Written` is the rule about unchanged
  attributes.
- **Entitlements.** One tenant. `row` distinguishes successive subscription rows
  of a module (an activation inserts a new one), which is what makes a
  deactivation miss rows inserted since it loaded them. A replacement sets the
  cache, then commits; a reader that misses the cache reads rows, then fills
  it. `current` collects the modules active while claims were being built.
- **PlatformAdmins.** `Load`, `Count`, `Commit` of `update_admin` and
  `delete_admin`. The acting administrator is known by an access token only, so
  it may be anybody who ever had an account.
- **AcademicCalendar.** `Seeded` places today's date among the terms
  (`_seed_terms`). The bulk updates of a handler are one step with its commit.
  `TermsAfterYear` has the choice that `session.scalar` without ORDER BY leaves
  open: which active term is found. The comment at `academic_service.py:232`
  speaks of the first upcoming term; the code, and the model, take the first one.
- **Hostel.** `Placeable` is `validate_allocation`, `Limit` the effective
  capacity. Occupants are active learners; residents, who keep a hostel from
  being deleted, include inactive ones. Gender and `is_active` of hostels and
  rooms only ever refuse, and any placement may be refused in the model.
- **Timetable.** Times are times of the week, so a day and a time are merged
  together where the code merges columns one by one; that matters only to rows
  already excepted as contested. The table's `CHECK (ends_at > starts_at)` refuses a commit
  whose merged row takes no time. Lessons of different years never meet and are
  separate instances.
- **TermRegistration.** An answer is ticked, filled or open (`_is_satisfied`): waived or
  true is enough for any item, another value unless the item is a checkbox. `Needed` pairs each
  required item with the answers its field type accepts at the moment. `UpdateRequirement`
  may change the type and leaves the answers, so that a filled item may become
  outstanding, or an outstanding one filled; `basis` keeps what was asked for at the completion.
  `ResponsesRead`, `ResponsesFlush`, `ResponsesCommit` are `upsert_responses`;
  `Verdict` is `_maybe_auto_complete`, which counts what the session sees after
  its flush. Operations on the checklist load and write one row and are one
  step. That a learner is active and enrolled only refuses a start.
- **Finance.** `part` says whether a behaviour prices terms or bills
  learners. An active structure is frozen (`PricesHold`), so that all that
  invoices see of the drafting is its replacement.
- **Admissions.** `RegisterRead` counts the applications of the year and numbers
  the rows of a list from there; a row that fails its checks uses up its number, and
  a reference that turns out taken ends the transaction of the whole list. `ChangeCommit` writes
  status and student column by column, as the session does.
- **Payroll.** `compute_payroll_run` deletes the run's lines by a bulk statement
  (a row lock until the commit), reads the salaries, and inserts lines and
  totals at the commit, the totals only where they differ. One line per run and
  person is a constraint. Pay and tax are functions of the salary a line was
  computed from. Whoever asks for leave types seeds them if there are none;
  `ListLeaveTypes` and a refused `AskForLeave` leave the rows as they were.
- **SchoolRow.** The profile is a stamp, new with every edit; a page remembers
  the version and the stamp it was shown. `Bump` is the increment of each route, and the school's own
  route counts twice. Allocation holds the row's lock from its first number to its commit.
- **Circulars.** `book.name` is `attachment_filename`, `book.file` what the
  directory holds. The row's columns are written back as they differ.
- **MarkSheets.** The marks of one subject in one set. `TakesMarks` is
  `_require_open`; marks are read and written back without looking at the set again.
- **Campus.** `part` names the component a behaviour exercises; the variables
  of the others are `None`. Nothing is lost: no part reads what another writes, so a
  joint behaviour is an interleaving of separate ones.
- **ClientSession.** `refresh` is `refreshInFlight`, which the boot and refused requests
  share; `ask[r]` is a request of a screen: sent, refused with 401, waiting for the
  refresh, sent again. Signing in, changing a password and signing out replace the cookie
  too, and the first two are requests like any other: a login or a change that is refused
  with 401 joins or starts the refresh and is sent once more (`AnswerSign`, `RenewalEnds`).
  (`bootstrapInFlight` only keeps the boot from running twice.) A page reload starts from `Blank`. Left out: a 401 to the gate's own `/me`, two
  tabs over one cookie, two accounts in turn (the cache outlives a change of
  account, and only the route and the endpoints' arguments keep them apart).
- **Endpoints.** One record per endpoint: what its handler reads or writes, read off
  `apps/api`, and its tags, read off the service. What a query reads is in two parts: the `tables`
  its tags stand for, and those it only `shows` beside them (names of classes, subjects
  and teachers, hostels, a guardian's account), of which no tag of its own tells it. Of the
  1286 pairs of a query and a mutation writing what it reads, `Untold` names 881 and
  `QuietIsCurrent` is about the other 405. Most of the 881 are pairs in which the table is only shown:
  editing classes and streams is not told to the learners' lists and roster summary, nor hostels,
  rooms and accounts to the learners; subjects and classes not to assignments and lessons;
  enrolling or removing a learner not to the term's rosters, attendance, assessment, PLE, reports,
  finance; accounts not to HR and teachers; grading not to averages and cards; attendance and sets
  not to the card's preview. Three are of a query's own tables: enrolling, editing and
  removing a learner with a bed (hostels), a new learner's account (users), a platform reset (one
  school). Until something else makes them read again, those screens show what was.
- **ClientCache.** One query and one mutation that writes what it reads, with
  RTK's rules of asking, settling and forgetting.
- **Forms.** Each form is a few records: whose draft it holds and where it comes from
  (`Draft`), what saving checks and does to it (`Save`), whether it is always there and
  its button waits (`View`), and what looking elsewhere does (`At`). The definitions of a
  form are separate where the code is: state, handler, markup. `ClientForms` gives the
  records their meaning once.
- **Grids, imports, pages.** The same, over `GridScreens` and `BatchKinds`. A page
  is known by where it starts; `past.from` is the stack of cursors.

### Histories that except overlapping requests

Much of this code is correct when requests on the same rows do not overlap, and
not otherwise: it reads, decides and writes without a lock. The properties that need it
say so through a history variable: `raced` and `crossed` (an invoice, a term's
structures, a registration, an application, a run, a profile, a circular, a set),
`overlaps` (replacements), `pressed` (removals of administrators), `muddled` (the
calendar), `crowded` (a learner or hostel) and `contested` (a lesson); in
`MCAuthSessions`, `OneAtATime`. It records exactly the objects two requests
have worked on at once; the property is about all the others, in runs where such
overlaps do happen, so that an overlap on one object must not damage another. The
exceptions cannot be dropped. Without them TLC finds:

- two activations of one term leave two active structures, an edit loaded
  before an activation changes a priced structure, and the deletion of its
  last line leaves it empty;
- two payments, or a payment and a refresh, leave an invoice's amounts out of step;
- two replacements of modules install neither set and unbalance the log;
- two administrators who remove each other leave nobody (READ COMMITTED
  allows this write skew);
- two activations of years or terms leave two active, or none;
- two placements take one bed, a placement outlives its hostel, and two
  updates of one learner pair a hostel with another one's room;
- two inserts book one teacher twice;
- two offices' last answers complete nothing, and an answer that was in flight at
  a completion withdraws what completed it.

- two registrations count the same next reference, and one is refused;
- two changes of an application enrol somebody and put them back;
- a run recomputed beside its finalization changes after it, and two
  computations leave totals of one and lines of the other;
- two edits of a profile leave a version that names two states of it;
- two uploads leave a circular naming a file that is gone;
- marks are saved into a set that has been closed or made smaller since.

Some exceptions need no overlap. `muddled`: `update_year` and `update_term`
accept any status, a new year may seed a second active term, and `activate_year`
keeps that second term if it happens to find one of its own first; the next
undisturbed activation forgets these. `gap` (admissions): a list whose failed row
stands before a good one leaves a free number below a taken one, which the count then
reaches. `torn`
(circulars): a request that fails after it touched the file leaves the two apart.
`lowered` (sets): resizing a set below a mark that is there is allowed.

Where the code does protect itself (unique constraints, `ON CONFLICT DO
NOTHING`, `FOR UPDATE`, row locks of a bulk update) the properties have no exception:
`ChainHasOneEnd`, `DoomedStayRevoked`, everything about `Idempotency`, that a priced
term stays priced (in `PricesHold`), `PaidWasReceived`, that numbers are unique (in `NumbersHold`, and `NumbersGivenOnce` for learners), `Converges`.

### Screens that the client's properties except

The properties of `WebApp` hold for every screen but those named in the
modules. Each name stands for a thing the code does; dropping it makes TLC show how.

- **Typing that goes** (`DropTyping`). Profile, card layout, year, band, CA policy, school,
  hostel, subject, user and term register: an effect on the row resets or closes
  the draft when the row is read again, for instance after another office's change.
  Guardian, discipline, room, lesson, assignment, teacher and candidate: one draft serves
  all rows, and the answer to saving one closes the next one opened.
- **Drafts that come back** (`ReviveDrafts`). Events, administrators, requirements,
  hostels, fee lines and structures, assessment sets: the draft is
  taken when first shown, or kept by Cancel, and shown at the next opening.
- **Added again** (`AddAgain`). A grading band keeps its values after it was added, and
  the bands read last do not show it yet; applicants from a list, a scale with its
  bands, divisions and an enrolment, when sent again after a part failed. The
  wizard's button is back while the second request, the application's link, is under way
  (`StudentOnboardingWizard.tsx:299-323`), so an enrolment can also be sent twice
  without any trouble.
- **Saved elsewhere** (`GoAstray`). An event, a payment and a withdrawal go to the
  term, invoice or application looked at when they are saved. Marks: the roster of the
  class and subject before stays in the grid while the new one loads, and is saved
  under the new one (`AssessmentModuleView.tsx:651-680`). Learners: those of the
  class before can be ticked under the new title. The roll, when only the date changes:
  `TeacherAttendanceSection.tsx:89-92` empties it for another lesson only, so the rows of
  the earlier day stay until those of the new day arrive, or for good if they do not; Mark all
  present (274) and Save roll (305) do not wait for them, and save them under the new date (114-123). Pay runs: after a detail that failed to
  load, the lines of the run before stand above the actions of the new one.
- **Not shown** (`StayBlank`). The roll of a lesson is emptied when one looks at another lesson,
  and not filled when one comes back to the lesson the query still holds.
- **Not told** (`DropReports`, once a part has failed). If a later part fails, what the earlier ones answered is not
  shown, the new staff's passwords among it; the retry skips those rows.
- **Old checks** (`ShowOldChecks`). A check of a timetable that answers late is
  shown for the file chosen since, and lets it be imported
  (`TimetableImportPanel.tsx:33-56`).
- **Repeated pages** (`RepeatPages`). The learners' Next stays in use while a page
  loads (`StudentRosterSection.tsx:311` passes `isLoading`): pressed twice it pushes the
  same cursor twice. The logs pass `isFetching`.

`NeverMixed` is the opposite: the two screens of attendance never show another lesson's rows
(the roll is in the tables twice: `Roll` looks at two lessons, `RollDays` at two days of one).

These names are where the hazards of the client bite: what the properties add is that
no other screen does the same, under every order of answers, presses, refusals and rereads, and that the
named ones do it only under the conditions stated (`AddAgain` after a failure, `DropReports` after a
failed part).

## 3. Runs

| Run | Question | Bounds |
|---|---|---|
| `sessions` | what holds of two overlapping requests on one account, and of requests one at a time on several: every promise, and that `SessionSpec` is implemented | 2 accounts, 3 tokens, 2 requests, 2 password changes |
| `sessions_single_use` (violation) | is a refresh token exchanged once? | 1 account, 3 tokens, 2 requests |
| `onboarding` | the key protocol under retries, expiry, failures, overlap | 3 requests, 2 keys, 2 onboardings of one code and 1 update |
| `onboarding_key_runs_twice` (violation) | does a key run one mutation? | 2 requests, 1 key |
| `onboarding_replays_rollback` (violation) | is what is replayed committed? | 2 requests, 1 key |
| `finance` | pricing of terms under edits and activations; invoices under generation, refresh and payment | 2 drafts of 2 terms with 2 lines; 2 learners, 2 structures, 2 line generations, 2 payments; 2 requests |
| `invoices_overpaid` (violation) | can payments exceed a balance? | 1 learner, 2 requests |
| `invoices_next_year` (violation) | does generation work in the next year's same term? | 1 learner, 2 terms numbered 1, 1 request |
| `modules` | subscriptions, cache, claims and their convergence | 3 modules, 1 restricted user, 2 requests, 2 replacements, 1 failure |
| `campus` | the ten components of `Campus` | 3 administrators; 2 years of 2 terms; 2 learners, 2 hostels, 1 room, capacities 0 and 1, 3 works; 2 lessons of 4 plans; 2 sections with 1 requirement each, 1 registration, 4 changes; 2 applications; 2 staff with salaries 0 to 2; 2 prefixes, 2 numbers, 2 edits of the profile; 2 uploads; marks 0 to 2; 2 requests |
| `leave_refused` (violation) | can leave of a listed type be asked for? | 1 member of staff, 2 seedings, 1 request |
| `web_screens` | the client's session and every one of its forms, grids, imports and lists | 2 requests refused at once, 3 refresh tokens; 1 call of a mutation, 1 change; 2 rows, 2 lists, 2 places, 3 pages |

Why the bounds are enough. The interference this code is exposed to is between
a pair of requests: what one has read and the other commits. Two handlers, each
of which may be followed by any number of others, contain every such pair; three
are used where a third party matters (a retry beside two runs of one key). Three
tokens are a chain of two rotations, the shortest with a middle. Two learners
give a generation that numbers several invoices, and two structures that charge
them differently; with two line generations and two payments, refresh, pay and
refresh again are all there. Three administrators let one be removed legally
beside a removal of another. A year before and after the active one is
symmetric; two suffice for a second active term. One room beside an empty
hostel is enough to mismatch them; capacity 0 is no limit for a room and no bed
in a hostel, 1 is the smallest that fills up. The four plans contain an overlap from
either side, a containment, lessons that touch, a stream against the whole class and
a shared teacher. Two applications are a list with a row before a failing one; two
prefixes are a change between two enrolments; a salary of 2 beside 1 tells a changed total
from an added line. In the client, two places or rows are the one looked at and the one
before; a list of two parts has a part after a failure; three pages are a next that is not
the last. Named bounds: `MaxEpoch`, `MaxOpen`, `Slots` (of invoices' structures and, in the
client, of calls), `MaxStamp`, `MaxReceived`, `MaxReplaces`, `MaxFailures`,
`MaxWorks`, `MaxChanges`, `MaxSeeds`, `MaxNumber`, `MaxTokens`, `References`,
`MaxAdded`, `LastPage`.

`SizedSpec` (`MCAuthSessions`) lets a behaviour have either two requests on one account
and one password change, or one request at a time on two accounts and two changes.
`MostUndisturbed` (`MCCampus`) stops the search at states in which the
histories already except everything of interest: the first crowded hostel or
learner, the second of two contested lessons, two offices at the one registration, the first overlap
on the one pay run, set or profile. All
states up to these are checked. Numbers of learners (`NumbersGivenOnce`) lose nothing by that:
two overlapping edits of a profile leave the prefix that the later one alone would.

`CHECK_DEADLOCK FALSE` stands where a bounded input runs out (all requests
arrived, all structures created, all works done, the last list sent).

### What the violation runs show

1. `sessions_single_use`: two overlapping refreshes of one token both read it
   unrevoked and both issue a replacement (`auth_service.py:208`). Reuse is not
   detected, contrary to the docstring; the older replacement is no longer linked. The
   family still ends at the next bulk revocation.
2. `onboarding_key_runs_twice`: nothing reserves a key between the lookup and
   the store, so overlapping requests with one key both run
   (`idempotency_service.py:32`), with different payloads too. For one school
   code the unique constraint stops the second; for updates nothing does.
3. `onboarding_replays_rollback`: the Redis record is set before the commit
   (`idempotency_service.py:73`). If the commit fails, a retry is answered 201
   for 24 hours with a school that does not exist.
4. `invoices_overpaid`: two payments within the balance exceed it together, and
   `amount_paid_ugx` keeps the later one only (`finance_service.py:684`).
5. `invoices_next_year`: numbers are `T<term number>-<n>` counted per term and
   unique per school, so the first generation in the same-numbered term of the
   next year is refused by the constraint (`finance_service.py:423`).

6. `leave_refused`: `ensure_leave_types` seeds the default types with new ids in
   whatever transaction asks (`hr_payroll_service.py:47`), and the route that lists them
   does not commit (`routers/tenant/hr_payroll.py:71-78`). The id a client was shown
   does not exist when it asks for leave, and the request that refuses it rolls its own
   seed back as well. `tests/test_hr_payroll.py:65-79` expects 201.

### Fairness

`Entitlements` (`Converges`: if replacements stop, the cache and the claims come
to agree with the rows and stay so) assumes that a handler that can go on does
(the event loop runs ready coroutines, and a statement timeout ends others), that
Redis drops a key past its TTL, and that an access token expires. It does not
assume that requests arrive. In particular the correction of a wrong cache rests on
the TTL alone, and the mutant without a TTL fails.

`WebApp` (`SessionSettles`: the entry page shows the form or sends who is signed
in home, and no request, nor a login or change of password that was refused, waits for ever
for a refresh) assumes weak fairness of
`Progress`: a refresh and a `/me` under way end in an answer or an error, as `fetch`
does, React runs the effects that route, and what was refused goes on to renew. It does not assume that users
do anything or that other requests end. `Settled` excepts a page that has a token and nobody to whom it
belongs (`past.unread`): `/me` failed after a sign-in; a refresh came in after the page had
signed out; or a login was refused while the cookie of an earlier session was still good, so that
`baseQueryWithReauth` renewed that session (`skulpulseApi.ts:149-156`) and then told the form of the
refusal. `app/page.tsx:20-21` then shows its spinner for a user that nobody fetches.

## 4. Proofs

`tlapm` checks every leaf of the proof modules. The constants are arbitrary; all that
is assumed of them is named and evaluated by TLC in the runs:

| Assumption | What it says |
|---|---|
| `ConstantsAssumption` (`AuthSessions`, `Idempotency`, `Entitlements`) | `None` is none of the values; bounds are numbers; the core module is one, and a user's restriction is a set of modules |
| `FinanceAssumption` | there are finitely many learners and terms, a structure has finitely many lines, their amounts are naturals |
| `PlansAssumption`, `BooksAssumption`, `CalendarAssumption`, `BoardingAssumption`, `RegistersAssumption` (`Campus`) | plans have their columns; references are 1 to n; learners are finitely many; salaries, marks and capacities are naturals; years are numbers, terms of a year 1 to n; a room is in a hostel |
| `TokensAssumption` (`WebApp`) | a token may be issued; the bound on changes is a number |

All invariants and action properties that the passing runs check are proved, with one
hypothesis in one of them (`OneYear`, below). A property of this code is
seldom inductive by itself, because whether a commit keeps it depends on what the
handler read before. Every proof therefore has the same shape: an invariant that adds
what a handler holds between its steps and what two handlers may hold at once, its
three facts (it holds at first, every step keeps it, it implies the property),
one lemma or step per action, and one temporal step at the end.

**Sessions** (`AuthSessionsProofs`: `SessionsTyped`, `ChainsSafe`, `RevokedForGood`), for any
number of accounts, tokens and overlapping requests. `IndInv` adds `RequestsHold`
(the row a request has inserted is open and its own; the token it presented is
committed and of its account; the rows it will revoke are committed) and
`FreshAreDistinct` (two requests never insert one row). All commits go
through `CommitStep`, which says what revoking a set of committed rows and publishing
one's own does.

**Sessions, one request at a time** (`SerialSessionsProofs`: `SerialTokensAreSound`,
`SerialRevokingTakesEffect`, `SerialKeepsPromise`). `SerialIndInv` says that the one open handler
knows the rows as they are (`HandlerKnows`, `OpenIsHeld`), that a chain of rotations
belongs to one account (`ChainsKnowTheirAccount`), that what is not revoked is of the
password in force (`UnrevokedAreCurrent`), and that a token was exchanged once
(`OneSuccessor`). `SerialKeepsPromise` is the refinement: every step of `SizedSpec` with
one request is a step of `SessionSpec` under `Promise`, or leaves its sessions as they are; only commits
and expiries are more than that.

**Idempotency** (`IdempotencyProofs`: `IdempotencyTyped`, `OnboardedOnce`, `DurableIdempotency`,
`ReplaysAnswer`, `DurableAnswersStay`), for any requests, keys, payloads and
overlap. The strengthening: every commit under a key has left a durable record
(`DoneLeavesRecord`); a request that executes saw no commit of its key before it arrived
(`ExecutingFoundNothing`), because it found no record; a record in either store speaks of a
request that carried that key and payload, committed or not (`RecordsTrue`); at
most one transaction holds a school code, open or committed (`OneHolder`).

**Pricing** (`FinanceProofs`: `StructuresStaySound`, `PricesStayPut`). `IndInv` says what is left of
what a handler has read (`HandlersHold`: unless its term was crossed, its structure
is still a draft and, for an activation, still has lines, and the active structure it
found is still the only one), and that two handlers in one term have marked it
crossed (`Apart`). That a priced term stays priced needs no exception: an activation makes
active in the same commit what replaces the structure it archives.

**Invoices** (`FinanceProofs`: `FinanceTyped`, `PaidIsCovered`, `NumbersStayFree`, `BooksAddUp`).
`LedgerInv` joins what the rows say (`BooksHold`), what a handler remembers whatever the
others do (`WorkHolds`: a payment never exceeds the balance it read, and what it read as paid had
been received), that the numbers of an issued generation are free (`NumbersReserved`, by the locks of its
insert), and that what was read of an invoice nobody else worked on still is so
(`StillSo`, `WorkApart`). Lines written by one generation carry one
stamp, so that they are in bijection with the fees charged (`LinesAreOneWrite`), and a
total is the sum over that set. The sums are functions on the subsets of a finite
set; `Sums` proves what is needed of them (that there is such a function, that it gives a natural and
depends neither on the order nor on other elements' weights) by a smallest
counterexample under the inclusion of subsets, since an induction theorem with an operator for a
parameter is out of reach. `NumbersStayFree` is stated for `OneYear`: no two
terms have the same number. The hypothesis is what the code needs
(`invoices_next_year`) and what the instance that TLC checks in `finance`, with its one term
to bill, satisfies.

**Modules** (`EntitlementsProofs`: `EntitlementsTyped`, `ReplacementsExact`, `ClaimsCurrent`).
`Exact`: while no two replacements have overlapped, the one under way holds the rows
as they are (`LoadedIsCurrent`). `Current`: while nothing overlapped or failed, the
cache differs from the rows only between a replacement's write to Redis and its commit
(`CacheIsCurrent`). `SeenIncludesActive`: a claim's history collects what was active while it was built.

**The ten parts of `Campus`** (`CampusProofs`). What each invariant says beside the property:

| Theorem | Invariant |
|---|---|
| `AdministratorStays` | `DirectoryInv`: until two removals are in flight at once there is at most one, and once it has counted, somebody is left beside its target |
| `NobodyIsTwice` | `WeekInv`: what a handler without company holds fits the lessons that are kept, and open handlers know of each other; clashing is symmetric and does not depend on how columns were merged |
| `OneYearOneTerm` | `CalendarInv`: a handler alone knows whether its year is active |
| `BedsAreThere`, `PlacesSuffice` | `BoardingInv`: a placement not excepted is of places that stand and have room beside the occupants not excepted; a demolition leaves nobody behind; two handlers that touch one hostel or learner have marked it. The capacity of a hostel is a sum over its rooms |
| `AnsweredAndComplete` | `RegistersInv`: a handler alone with its registration finds the answers as read, and its verdict is true of those it leaves |
| `NumbersAreGivenOnce`, `StaleEditsAreRefused` | `ProfileInv`: whoever holds the row's lock has numbers above all given ones; an editor alone knows the row's version. References (`PlacesInv`): without a gap those used are 1 to their count, and a list continues them from what was counted |
| `RowsAgree`, `FinalIsFinal` | `PlacesInv`, `WagesInv`, `NoticesInv`, `SheetsInv`: what is linked is never unlinked; a run's handler alone knows the run and the lines it cleared; a circular's handler alone knows the row and the file; marks being saved fit a set that is still open |
| `RowsInShape` | the shapes of all ten |

**The client** (`WebAppProofs`), for any number of requests refused at once, calls, changes and
tokens. `ScreensInv` is the conjunction of an invariant for each kind of screen:

- `SessionInv`: of renewing, signing in and signing out at most one is under way, besides a
  refused call that waits for the renewal (`InTurn`); it presents the cookie there is
  (`Presented`), which is the token the API takes unless an answer on its way says otherwise
  (`Known`), and who has left has none (`LeftAlone`), as long as no answer was lost and no cookie
  used twice at once. This gives `SessionsEndForAReason`.
- `CacheInv`: an answer that is held, or on its way, is of the rows as they are, or a mutation
  that changed them since has still to end, or has ended and the query is marked to be
  asked again, which it is before query and mutation are at rest. It rests on `TagsMeet`: for every
  query and every mutation that writes a table it reads, `Untold` names the pair or their tags meet.
  The 405 pairs that are told are not taken one by one: `EndpointsSpeak` shows of each
  endpoint by which tag, or two, it tells of or hears of each of its own tables (`Told`, `Heard`). `QuietScreensAreCurrent` follows,
  with `GridInv` for the grids: a draft holds the rows of the place the query holds, or is empty.
- `FormInv`: a closed form that is neither named in `ReviveDrafts` nor filled anew when it is
  opened holds nothing typed and no older row (`FormCloses`); what is typed is for the place the screen looks at
  (`FormPlaced`); of a new row, what is on its way or refused was meant and is not there yet (`FormAdds`).
  What the fifty-six entries of the tables have to say for that (`FormSound`) is proved of
  each (`FormTable`), and the actions are then proved of any form of which it is true.
  `DraftsStayTheUsers`, `OneFillingAddsOne` and `SavingIsWhereShown` follow.
- `BatchInv`: a row that was added was told of, or will be by a run under way, or was lost or is
  excused (`Accounted`); where the API would add a row again, the rows a run has yet to
  add are not there (`Once`). `AddingIsTold` follows, and the batches' part of `OneFillingAddsOne`.
- `PageInv`: until a page fails to load, what is shown is the page asked for, and the cursors passed
  of the list that waits for its pages are in turn.

`ScreensTyped` collects the shapes.

Every theorem's invariant holds on the instances of the runs, where TLC checks the property that follows. Model-checked only:
liveness (`Converges`, `SessionSettles`) and `ENABLED`, which are out of the prover's reach. The
violation runs are about single instances and need no proof. What is finite in the models by
construction, such as two lists, two places, three pages or two drafts of a form, is so in the proofs too.

## 5. Not modelled

- **Row-level security and tenancy.** A request sees one tenant's rows; each
  module is the state of one tenant, or of the platform.
- **Reads and reports**: listings, dashboards, the parent portal and its screens,
  rosters, PDF documents, school code resolution. They change nothing. `lib/types.ts`
  and the response schemas describe data.
- **Logs, audit and metrics**: append-only, read by no other part.
- **E-mail, badges**: I/O whose failure is swallowed, or, for a badge sent with a new
  school, told; the school is there either way.
- **Rate limiter**: a refused request is one that was not made.
- **Platform reset**: one transaction of bulk deletes, run by an operator.
- **Arithmetic**: PAYE and NSSF, averages, divisions and grades are functions of the
  rows they are computed from, without state; comparing them with a reference
  would repeat their tables.
- **Imports at the API** call the operations of other components row by row; parsing
  is conversion. (The timetable's and the marks' imports have checks of their own and are
  modelled, and so is what the client does with every import.)
- **Attendance, report cards, PLE rows, classes, subjects, assignments and guardians
  at the API**: rows of one learner or class written as they are sent, under unique
  constraints; two writers leave the later one's row. Their forms and grids are
  in the client's model. The same holds of columns that only refuse (gender, `is_active`,
  dates).
- **Leave reviews**: no leave request can come to exist (`leave_refused`).
- **Row-lock deadlocks** of `activate_year` (years, then terms) and
  `activate_term` (terms, then years): PostgreSQL aborts one, which is a `Rollback`.
- **A checklist without sections**: deleting all sections makes every reader try to seed
  the defaults, whose slugs deleted rows still hold, and raise
  (`term_registration_config_service.py:129`). The model has the state and its
  disabled handlers; no property speaks of it.
- **Term registration's wizard** sends every answer of a section, those that another
  office has given since included, and sends text answers as satisfied; the API's side is
  `TermRegistration`, where the last answer counts.
- **Dialogs** that replace one another (`ui/Dialog.tsx` has a single active one): the
  one replaced is answered as cancelled.
- **Field validation, sorting, searching, layout** in the client, and the static
  prototype (`assets/js`) and deployment scripts.

## 6. What could follow

In the order of what it would add: joint behaviours of `TermRegistration` and `FeeInvoices`, for
which the registered set is a variable of the latter today; a checklist that recovers from the
deletion of its sections, once the code does; and proofs of the liveness properties, for which a prover
with `ENABLED` is needed: `SessionInv` and `IndInv` of `EntitlementsProofs` are the invariants they
would start from.
