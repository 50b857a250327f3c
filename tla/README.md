# Paper LMS: specifications

TLA+ models of Paper LMS (the Go backend under `src/`), the TLC runs that check
them on small instances, and theorems about them checked by TLAPS. Paths below
are relative to `src/`; `service/`, `repository/`, `models/` and `scheduler/`
stand for `src/internal/service`, `.../repository/postgres`,
`.../domain/models` and `.../scheduler`.

## 1. The system

Paper LMS is a learning management system: a Go server (Fiber HTTP API, GraphQL,
background jobs) over Postgres through gorm, with a web frontend. Every request is
served by its own goroutine; a per-minute and an hourly scheduler start jobs in
every replica. Services call repositories, one SQL statement per call, and almost
never put two statements in one transaction. The state that matters is in the
tables; what a request read earlier it keeps in Go variables, often a whole row
that it later writes back whole (`gorm.Save`).

| Component | State | Operations | Interacts with | What makes it correct |
|---|---|---|---|---|
| Quiz attempt engine (`service/quiz_attempts_service.go`, `quiz_lifecycle_service.go`, `quiz_manual_grading.go`, `quiz_regrade.go`, `quiz_moderation.go`, `quiz_results_policy.go`, `quiz_gradebook_sync.go`) | `quiz_submissions`, `quiz_submission_answers`, `quiz_extensions` | start, answer, move past a question, complete, auto-submit, grade, regrade, moderate, first look at one-time results | gradebook (`submissions`), scheduler, completion callbacks | at most one attempt in progress, limits, deadlines, turned in once and for good, scores that agree with the answers, gradebook that agrees with the scores, callbacks once |
| Excusals and grading periods (`service/submission_service.go`, `submission_policy.go`) | `submissions` | excuse, un-excuse, close a period | quiz pushes | an excusal survives pushes; a closed period refuses grades |
| Quiz grading and delivery (`quiz_grading_service.go`, `quiz_delivery.go`) | none | score an answer, can't-go-back locks, survey rules | attempt engine | totals, locks that hold |
| Scheduler and leader lock (`scheduler/`) | last run per job, advisory locks | tick, run a job under the lock, stop | every job | a job runs, and on one replica at a time |
| Gamification rules (`service/gamification/`) | events, rules, rule evaluations, wallets, badges | emit, dispatch, check cooldown, run effects, record; award and revoke by hand | callbacks of submissions, grades, badges | cooldowns and caps, balances that agree with the ledger, chains that end |
| Assignment submissions and grading | `submissions`, versions | submit, grade, late policy, group fan-out | gradebook, grading periods | attempt numbers, late deductions once |
| Notification delivery | queued deliveries | queue, claim, send, retry | mail | sent at least once, retries bounded |
| Appointment groups (`service/appointment_group_service.go`, `appointment_group_scheduler.go`) | groups, slots, reservations | reserve (with a note), cancel, change or delete a group or a slot | calendar, notifications | slot and participant limits, nothing booked in a deleted group |
| Groups of a group set (`service/group_service.go`, `group_set_service.go`) | groups, memberships, leaders | join, leave, move, invite, assign the rest, edit, delete | courses, appointment groups, assignments | room, one group per student, nobody stranded, a leader who is a member, even groups |
| Content jobs (`service/content_migration_runner.go`, `content_export_service.go`) | `content_migrations`, `content_exports` | create, claim, run, sweep, edit | scheduler, course content | run once, an outcome in the end, an outcome that is true |
| Module progression, mastery paths | progressions | view, submit, unlock | submissions | requirements in order |
| Blueprint courses | templates, subscriptions, locks | sync, associate | course content | locked content stays, unlocked edits are kept |
| What course copies, imports and exports do; SIS and OneRoster | course content | copy, parse, roll back | everything | referential integrity |
| Discussions, announcements, calendar, enrollments, peer reviews, rubrics, outcomes, portfolios, conferences, files, observers | their tables | CRUD | each other | local rules |
| Accounts, tokens, LTI, privacy | accounts, tokens | sign in, launch, delete | everything | protocol rules (outside this project) |
| HTTP API, web frontend | none | routing, rendering | services | |

`PROJECT.json` lists every component with its files and its status, and every
hazard at its line.

What is hard in this code: two requests of one student (a double click, two
tabs), a student and the overdue job, a student and a grader or a moderator, all
working on the same row with statements in any order; rows written back whole from
old copies; checks and writes in different statements; a process that dies between
two statements with nothing to take its work up again; deadlines with a grace; a
rules engine that calls itself from inside an effect; row locks held by some writers
and ignored by others.

## 2. The plan

1. **Quiz attempt engine** with its abstract lifecycle (built):
   the abstract promise `AttemptLifecycle`, the engine `QuizAttempts`, its runs,
   type correctness, the lifecycle invariants and the refinement proved.
2. **Scheduler** and leader lock, composed with the jobs of **notification
   delivery** (built): ticks of several replicas, coalescing, the advisory lock,
   shutdown and crashes; the delivery rows and the administrator's retry. Exclusion
   and the meaning of a sent mark proved.
3. **Gamification** rules (built): emit, dispatch, cooldown and limit, effects with
   stop-on-first-error, evaluation record, wallet and badges; two emits at once; the
   abstract promise `Rewards`.
4. **Appointment groups** with the sign-up sheet they promise, `AppointmentBook`, and
   the **groups of a group set** (built): checks under a row lock, and the same kind of checks without.
5. **Content jobs** (built): claim, sweep, workers that are slow or die, late edits.
6. **Assignment submissions** with late policy and grading periods, sharing the
   gradebook row with the quiz engine; then **enrollments**.
7. **Module progression**, **blueprint sync**: one module each.
8. More proofs: the safety properties of the content jobs, the rules engine, the group
   sets, the deliveries without faults, and the quiz engine where operations do not
   overlap (done); the refinements of `AppointmentBook` and `Rewards`, and the two
   side-by-side compositions (done).

## 3. The modules

### AttemptLifecycle

The promise to the student, without rows, requests or clocks: `Begin(i)` a new
attempt when none is open, `TurnIn(i)` once, `Report(i)` at most once afterwards.

### QuizAttempts

One quiz and one student (no statement touches the rows of two students). The
variables `rows`, `answers`, `ext`, `gb`, `key`, `closed` are the tables; `now` the
clock; `fired` counts starts of the completion callbacks; `req[p]` holds what worker
`p` (a request goroutine or a scheduler run) has in its Go variables, with `pc`
naming its next statement. **One action is one SQL statement with the Go code around
it**; between two statements of a worker any other may run.

| Operation | Actions |
|---|---|
| `StartSubmission` | `StartSubmission` (reads the extension, checks the window), `StartFind` (resume or number the new attempt, limit), `StartCreate` (insert against the partial unique index of migration 62) |
| `AnswerQuestion` | `AnswerQuestion` (state, time and lock checks), `AnswerFind`, `AnswerSave` |
| `MarkQuestionRead` | `MarkQuestionRead`, `AppendReadQuestion` (targeted update) |
| `CompleteSubmission`, `AutoSubmitOverdueAttempts` | `CompleteSubmission` or `AutoSubmit` and `JobList`, then `finalizeAttempt`: `FinalizeList` (grade in memory), `FinalizeSave` (per answer), `FinalizeIfInProgress` (the conditional update), the kept-score chain, `FireOnCompleted` |
| `refreshKeptScore`, `pushGradebookScore`, `RecordQuizScore` | `KeptRead`, `KeptSave`, `GradebookFind`, `GradebookSave`, `LinkSave`; `AfterSave` and `AfterKept` say what the caller does next |
| `UpdateQuizScores` | `UpdateQuizScores`, `GradeList`, `GradeMark`, `GradeSave`, then the kept-score chain |
| `RegradeQuizQuestion` | `RegradeQuestion` (the list of finished attempts), per attempt `RegradeFind`, `RegradeMark`, `RegradeList`, `RegradeSave`, then the kept-score chain |
| `SetQuizExtension` | `SetQuizExtension`, `ExtensionUpsert`, `ExtensionFind`, `SetEndAt` (targeted update) |
| `MarkResultsSeen` | `MarkResultsSeen`, `ResultsSeenSave` |
| `SetExcused`, closing a period, an edit of an answer key | `SetExcused`, `ExcusedSave`, `SetPeriod`, `EditKey` |
| process exit, time | `Crash`, `Tick` |

Abstractions: one question that grades itself (its text is compared with the key;
the fourteen question types differ in the comparison only) and one a grader scores;
points in hundredths, so that `roundScore` is `RoundDiv`; minutes as integers;
effective dates (with per-student overrides) and the effective time limit are
constants. `Row` leaves out the columns no property reads.

Left out, on purpose: the quiz event log, question selection from groups, staff
preview attempts, accommodations (folded into `TimeLimit`), late penalties the
gradebook applies to the pushed score, linking a graded quiz to its assignment
(`SyncQuizAssignment`), and what the asynchronous callbacks do once started. A call of
`UpdateQuizScores` marks one question; the code takes a map of them, one after another.

Reads and saves succeed, but for the inserts an index refuses and for crashes. That
leaves out what the code does with the errors it ignores: a failed lookup of earlier
attempts makes the start an attempt 1 (`service/quiz_attempts_service.go:358`), a failed
lookup of the answer makes a second row (`:545`), a failed save of a graded answer goes
unnoticed (`:712`), a failed save of the kept score is logged and the push goes on
(`service/quiz_lifecycle_service.go:228-232`), and a failed lookup of the lock counts
as unlocked (`service/quiz_delivery.go:147-149`). None of the quiz properties is promised
of a database that fails in these places.

### Scheduler

Replicas (`Pods`) that run one scheduled job. `pod[p]` is a process (up, stopping,
down), where its loop is in `tick` (idle, about to call `WithLock`, running the
job), the window of the tick, whether `lastRun` is less than half an interval ago,
and whether the connection that `WithLock` pinned has broken. `lock` maps a window
(the hour of the tick) to the pod whose session holds it.

| Code | Actions |
|---|---|
| `tick` up to `WithLock`: predicate, coalescing, `lastRun`, window | `Tick` |
| `WithLock`: `pg_try_advisory_lock`, the job, unlock | `Acquire`, `Skip` (held elsewhere, or an error), `Return` |
| `Stop` (SIGTERM cancels the context of every statement), `loop` exit, `Start` | `Stop`, `Exit`, `Restart` |
| process killed, pinned connection broken | `Crash`, `LoseSession` |
| time | `HalfInterval`, `HourPasses` |

A behaviour follows one job, chosen at the start from `Jobs`. The jobs of one loop
run one after another; since ticks may come at any time, what the others do to it
is covered. Windows are local hours: the predicates use local time and the window
UTC, which is the same where the two differ by whole hours. In a zone with a half-hour
offset the local hour of a daily job lies in two windows, which the model leaves out. The hash of the lock's key is taken to be
injective, and a failing unlock is a broken connection, after which Postgres frees
the lock as well.

### NotificationDelivery

Extends `Scheduler`: the job is the function `WithLock` calls. `rows` are the
deliveries of the job's digest type, `work[p]` the Go variables of a run (its list
of copies, the groups still to send, the group being sent), `admin[a]` those of a
retry request; `mailed` and `refused` count what the mail server did.

| Code | Actions |
|---|---|
| `QueueNotification` (one delivery) | `QueueNotification` |
| `ProcessPendingDeliveries`, `ProcessDigests` | `ListPending`, `NextGroup` (marks a single delivery queued), `Dispatch`, `RecordResult` (per row: whole copy saved as sent, or `IncrementRetry`), `NoMoreGroups` |
| `RetryFailedDeliveries` | `RetryFailed` (list), `RetrySave` (whole copy saved as pending) |
| return, death of the process | `JobReturns`, `Killed` |

The immediate job is the digest job with groups of one row. Each statement may fail:
the code passes most failures over. `Dispatch` has three outcomes: taken, refused,
and taken with the reply lost, which the code treats as refused.

Left out: preferences (the frequency and address of a delivery are free), the in-app
feed, channel confirmation, the deletion of a user's data, the two services'
other jobs.

### Gamification

The rules engine for one learner (nothing in it touches the rows of two). `events`,
`firings`, `ledger`, `balance`, `awards` are the tables, `rowLock` the `FOR UPDATE`
locks on balance rows. `stack[w]` is what makes this engine hard: the calls of `Emit`
in the goroutine `w`, the innermost last, since a first award of a badge emits
`badge.earned` from inside the effect that awarded it. A frame has the event, the
rules still to dispatch (a set, taken in the order of the list) and the place in
`dispatchOne`. An award holds the lock of its balance row, if there is one, to the end
of its transaction; a row that is not there yet cannot be locked, and two first awards
meet at its unique index.

| Code | Actions |
|---|---|
| `Emit`: store the event, list and index the rules | `Emit` (by a callback), `EmitBadgeEarned` (by an effect) |
| `dispatchOne`: gate, snapshot and condition | `CheckCooldown`, `Evaluate` |
| `AwardCurrency`, `ApplyTransaction` | `LockBalance` (read, lock the row if there is one), then `ApplyTransaction`, or `NoAward` (the ledger has a row for the event and rule; or a balance row has appeared and the insert fails) |
| `AwardBadge` | `AwardBadge`, then `EmitBadgeEarned` if the award is new |
| `recordEvaluation`; `Dispatch` returns | `Record`; `Return` |
| errors, process exit, time | `StatementFails` (what the code does with each error), `ServerDies`, `ClockTicks` |
| `AwardToUser`, `Revoke` | the same names |

Rules are a constant, with everything a gate or a transaction looks at. Firings that
are false are recorded by the code too and read by nobody. Left out: FERPA flags,
rules of other scopes, triggers nothing fires (schedules, manual ones), predicates
whose data does not change under the engine, spending, the edit of rules.

Two things the model does as the code does, which the documentation would not lead one
to expect: the unique index on (event, rule) makes a rule's second `AwardCurrency`
effect a no-op reported as success; and an error in one rule's gate ends the dispatch
for the rules after it, where the comment at `service/gamification/dispatcher.go:86`
says that a failure on rule 3 does not prevent rule 4.

### Rewards

What the rules engine promises the learner, with no events under way, locks or
transactions: `Award(t)` adds a ledger row and its amount to its balance in one step,
once for each event and rule; `Give(b)` and `TakeBack(b)` change the badges held;
`Announce(b)` only while the badge came to be held more often than it was announced.
`Gamification` maps onto it: a currency without a balance row has 0 (`Balance`), how
often a badge came to be held counts revocations and the award there is (`TimesHeld`),
and what was announced are the `badge.earned` events stored (`Earned`).

### ContentJobs

One content migration or export. `job` is the row, with which claim set `started_at`;
`worker[w]` a goroutine with the copy of the row it saves whole; `edit` an
instructor's PUT between read and save; `content` what runs have added to the course;
`stale` which claims are two hours old.

| Code | Actions |
|---|---|
| create and start | `CreateJob` (the request's goroutine goes on to the claim) |
| `ProcessPending`, every minute | `Sweep` (`FailStale`), `ListQueued` |
| `Run` | `Claim` (conditional update), `FindJob`, `Progress` (whole row), `Execute`, `FinishJob` |
| `UpdateMigration` | `EditFind`, `EditSave` |
| process exit, time | `WorkerDies`, `MinutePasses`, `TwoHoursPass` |

What is copied is left out: `Execute` adds the content, or fails and takes back what it
had added, or fails at that too (`CleanupFailedImport` reports no errors of its own). An export has the same life with other names for its states, and no edit.

### AppointmentGroups

One appointment group. `group`, `slot`, `reservation` are the rows, `groupLock` who
has the group's row `FOR UPDATE`, `request[q]` where a request stands and the copies
it holds.

| Code | Actions |
|---|---|
| handler `Reserve`, then `Reserve`/`ReserveWith` | `Reserve` (the group is found), `LockGroup`, `Check`, `Insert` (commit), `NoteSave` (a user's note, a save of its own) |
| `CancelReservation` | `CancelFind`, `CancelSave` (whole row) |
| `Update`, `Delete` of a group | `UpdateFind`, `UpdateSave` (whole row), `Delete`; the saves wait for the lock |
| `AddSlots`, `DeleteSlot`, a slot's time comes | `AddSlot`, `DeleteSlot`, `SlotStarts` |

The four counts in `Check` are one step: they run under the lock, and what can come
between them (a cancellation, a late note, a slot deleted) can as well come before or
after as far as the properties go, since `Insert` looks at the foreign key and the
unique indexes again. A participant is a user or a student group. Left out: which
courses and sections may sign up, notifications and messages, and the second unique
index (per user) when a group is booked by student groups.

### AppointmentBook

The promise of an appointment group: a sign-up sheet. It knows whether the group can be
booked, the limits, the limit of each slot there is, who is seated where, and who is
there uncounted (`late`). `Book(s, p)` checks the group, the slot, its free seats, the
participant's maximum and that they are not in the slot already, and seats them, in one
step; `Cancel` takes one off, `AddSlot`, `RemoveSlot` and `ChangeGroup` are the
instructor's. `BringBack` is what the code really does when a note is saved after a
cancellation: the participant is back, uncounted, whatever the limits say.
`AppointmentGroups` maps onto it: slots that were not deleted, a seat for every live
reservation (`Counted`), and `late` those a note has made live again.

### GroupMembers

One group set; its groups are called teams. `team` and `member` are the rows, `call[c]`
a request with its copies (`leaders`: the `LeaderID` in copies of teams), and history
variables say what the properties need: `owed` (students who joined and were not taken
out), `saw` and `lost` in a call (memberships it cannot have missed, and whether it
found that another call had moved the student), `disorder` (calls overlapped, a call
broke off).

| Code | Actions |
|---|---|
| `AddMember` | `AddMember` (checks), per other team `LeaveFind` (which team), `LeaveSeek` (the membership there), `LeaveDelete` and its leader, then `Create` and the leader |
| `AssignUnassigned` | `AssignUnassigned` (reads and `planEvenly`), `AssignCreate` per row, then the leader of each team |
| `syncLeadership`, `syncLeadershipByID` | `SyncCheck` or `Reload`, `SyncClear`, `SyncFill`, `SyncAppoint` |
| `RemoveMember`, `UpdateMembership` | `RemoveMember`; `UpdateMembershipFind`, `UpdateMembershipSave` (whole row, inserted again if it is gone) |
| `UpdateGroup`, `SetLeader`, `DeleteGroup` | `EditGroup` or `SetLeader`, `SetLeaderSave`; `UpdateGroup` (whole row); `DeleteGroup` |
| a statement fails, the process exits | `BreaksOff` (a failed lookup of the student's other team, or of the membership there, counts as none) |

The reads `AddMember` begins with are one step, and so are the find and the delete of
`RemoveMember`: a later insert or leader is not sensitive to which of them another call
came between. The two lookups of `leaveOtherGroupsInCategory` are not: when the second
finds nothing, because another call took the student out in between, the code stops
looking and goes on to the insert, with whatever other teams there are. It does so too
when the first finds the team being joined. A call that came upon another in one of these
two ways is marked `lost`.

`planEvenly` is a fold over the students in any order, which returns who goes to which
team; `PlacedEvenly` checks that against the definition of an even assignment. The plan
is carried out team by team; the order of the students within a team is left open. Left
out: the self-signup check, assignment by section, the CSV import, bulk creation of
groups.

### The proof modules

`QuizAttempts_proofs`, `QuizSerial_proofs`, `Scheduler_proofs`,
`NotificationDelivery_proofs`, `AppointmentGroups_proofs`, `GroupMembers_proofs`,
`Gamification_proofs` and `ContentJobs_proofs`: see section 6.

### The MC modules

Values for the constants. `MCQuizAttempts`: the moderation inputs and which operations
each worker serves (`Ops`). `MCNotificationDelivery`: the jobs of
`cmd/server/main.go`. `MCCourseGroups` and `MCBackgroundServices` check two services
each, which share no row: a behaviour is about one of them, chosen at the start.
The mutated operators next to some definitions (`LockedNever`, `InsertUnindexed`,
`TryLockUnchecked`, ...) are plausible bugs; each shows that a property of a run
notices the bug.

## 4. The runs

| Run | Instance | Checks |
|---|---|---|
| `QuizSerialScores` | one worker, one attempt, can't go back, two texts, key edits, marks and fudge points, regrades | `TypeOK`, `ScoreMatchesAnswers`, `LockedAnswersKept`, `AnswersFinal` |
| `QuizSerialKept` | one worker, two attempts, `keep_average` | `KeptScoreShown` |
| `QuizSerialPolicy` | one worker, a graded survey with limit, lock date and time limit, four minutes, all moderation inputs, excusals, periods | `FinishedInTime`, `LimitRespected`, `ExcusalKept` |
| `QuizStudentRace` | two workers, each serving starts, completions, extensions and the overdue job, two minutes, crashes | `AtMostOneUntaken`, `TurnedInIsFinal`, `ImplementsLifecycle` (which says that callbacks start once, `CallbackOnce`) |
| `QuizOverdue` | a fair scheduler and a student who may leave, four minutes | `OverdueTurnedIn`, `TurnInReported` |
| `QuizLimitRace` | two starts, a completion | finds `LimitRespected` violated |
| `QuizLateAnswer` | an answer and a completion | finds `AnswersFinal` violated |
| `QuizExcuseRace` | an excusal and a push | finds `ExcusalKept` violated |
| `DeliveryRuns` | two replicas, the per-minute job (one delivery) or the daily digest (two), one administrator, one fault of any kind | `TypeOK`, `OneRunPerWindow`, `SentOnce`, `SentWasMailed`, `RetriesBounded`, `SentStays`, `EveryDeliveryTried` |
| `DeliveryHourChange` | the per-minute job while the hour changes, no fault | finds `SentOnce` violated |
| `CourseGroups` | two requests, two participants, two slots, limits 0 and 1, two reservation rows; or two calls, two students and three teams, in a set with one team per student, room for one and a random leader; one with one team per student and no limit; or one with several teams and the first as leader | `TypeOK` of both; `OneLivePerSlot`, `CapacityKept`, `MaximumKept`, `ImplementsBook` (which says that nothing is booked in a deleted group, `BookedWhileOpen`); `RoomKept`, `OneTeamKept`, `NobodyStranded`, `LeaderIsMember`, `PlacedEvenly` |
| `BackgroundServices` | two callbacks, two rules that chain, two activities, two moments, one upset; or two workers, three claims, one edit, one death or failed rollback | `TypeOK` of both; `BalanceIsLedger`, `ChainPerAward`, `GatesOutsideOverlap`, `EveryAwardRecorded`, `ImplementsRewards`, `EmitReturns`; `RunsOnce`, `OutcomeIsTrue`, `JobSettles` |

Why the split: with one worker requests never overlap, and the code keeps the
consistency of scores, answers and gradebook. With two workers it does not, in
general; what it does keep, by the conditional updates and the unique index, are
the lifecycle properties, and the race runs check those on the configurations
with the most overlap. The full-row saves of graders and moderators race the student's
requests in the proofs, for any number of workers; in the runs, extensions do.

**Bounds.** Two workers show every pairwise race; a third adds nothing to the
lifecycle properties, which the theorems establish for any number. Two attempts
are needed for kept scores, the limit and a new attempt beside a stale copy of an
old one; one is enough for the consistency of one attempt's score. Two texts tell
right from wrong; one mark and one fudge value tell changed from unchanged. The
clock stops at `MaxTime`, after the deadline and both graces; `MaxEnd` bounds
repeated extensions; an insert into a full table (`MaxRows`) fails like any failed
insert. For the deliveries, two pods show the exclusion and the theorems cover the
rest; two rows make a digest with a partly recorded result; `MaxRetries` 2 lets a
retry succeed, fail and be refused; one fault at any point shows each kind of
failure, and the properties about a faultless server are conditioned on
`faults = 0`. The clock is the hours of one day (`job.hours`), bounded by no run
lasting until its hour comes round again.

For the appointment group two participants and two slots, each with a limit of one,
are what the last seat and a participant's second booking need; the theorems cover the
rest. Requests, participants, slots and reservations are interchangeable, and the run
uses their symmetry, as all its properties are safety properties; teams are not, since
they are listed in order. Where there is room for one (`OneEach`), two teams and two
students let a student move, meet a full team, and be moved by two calls at once; three
memberships let a student move and another take the place, two do with an act; one act of
staff is one removal, edit, invitation, deletion or broken call at any moment. Where there
is no limit (`Unlimited`), one student may, without an act, come to be in two teams by two
overlapping joins and then join a third, which is what leaving team after team and being
overtaken there need; and an assignment starts from teams of different sizes, so that it
is the planner and not the limit that evens them out. Memberships and acts have bounds of
their own in the module and one together (`FewDone`, in the next-state relation of
`MCCourseGroups`): both students changing teams with an act in between is left to the
theorems about teams, which have no such bound. For the rules engine, the first rule has a cooldown and
awards currency and a badge, the second is fired by the badge, needs the currency, has
a lifetime limit and two currency effects; two activities dispatched by two workers
overlap or follow each other across a tick of the clock; one upset is one failing
statement, crash, or badge given or revoked by hand. For a job, two claims overlap and
the third shows a queue put back by a late edit; `Claim` waits at the bound, and
`JobSettles` is stated for behaviours that stay below it.

**What the qualified properties leave out.** Some properties say "between calls that do
not overlap" or "unless nobody ...". Each qualification is a behaviour of the code
that TLC shows when it is dropped: `GatesOutsideOverlap`
(two emits both pass the gate; migration 59 says it closes this race with the index on
(event, rule), which two different events do not meet); `RoomKept` (two joins both
count room); `LeaderIsMember` (a stale copy of the group brings a leader back);
`NobodyStranded` and `OneTeamKept` (a call that breaks off between leaving and
joining, a failed lookup); `OneTeamKept` also (a join whose lookups come upon another
call moving the student stops looking and inserts, although the student is still in
another team: `service/group_service.go:217-224`); `RunsOnce` (an edit read before the claim and saved after it
queues the job again, where `service/content_migration_runner.go:5` says that two
workers never run one row); `OutcomeIsTrue` (a dead worker takes nothing back, a failed rollback leaves a part, a
slow one the sweep has failed is still writing); `CapacityKept` and `MaximumKept` (a
note saved after a cancellation makes the reservation live again, uncounted).

`OneTeamKept` is about joins and assignments. The comment at
`service/group_service.go:160-163` says that a user belongs to at most one group per group
set, and gives joining as the reason; accepting an invitation
(`api/v1/handlers/groups.go:821-828`, `service/group_service.go:324`) makes a member too
and leaves no other team: invited to one team, joined to another, accepted in the first, a
student is in both, one call after the other. The model has that
(`UpdateMembershipSave`), and the property claims nothing of it.

**What the violations say.**

- `QuizLimitRace`: the comment at `service/quiz_attempts_service.go:317` says the
  partial unique index closes the find-create race. It does not when the other
  start's attempt is already turned in at the time of the insert: the slow start
  then stores a second attempt with the same number, past the limit.
- `QuizLateAnswer`: `AnswerQuestion` verifies that the attempt is in progress, and
  saves the answer in a later statement without that condition.
- `QuizExcuseRace`: `RecordQuizScore` promises that an excused submission keeps its
  excusal, and writes back the whole row it read before the excusal.
- `DeliveryHourChange`: `scheduler/scheduler.go:38` and
  `docs/state-dpa/multi-pod-verification.md:11` say that the lock keeps replicas from
  sending copies. Its key contains the hour of the tick: a run of the per-minute job
  that is still going when the hour changes does not exclude another replica's next
  tick, and both mail the same row. Within an hour, and for the daily digest, which
  only ticks in one hour of the day, `SentOnce` holds (`DeliveryRuns`).

Two further facts the delivery model shows without a run of their own: two
overlapping retry requests can take a sent row back to pending, with a second member
of `Admins`; and a shutdown or crash between the mail server's answer and the update
of the row mails it again, which is why `SentOnce` needs `faults = 0`.

Races of the same kind that are in the model and have no run of their own: two
first answers to one question make two answer rows; an answer checked before its
question was locked is saved after; an extension between the overdue job's list
and its update is overtaken; a grader's save of the attempt row erases
`results_seen_at`; two pushes overtake each other on the way to the gradebook. The
runs with one worker check the corresponding properties where requests do not
overlap.

## 5. Fairness

Three runs assume any. `QuizOverdue`: `WF(Tick)`: time passes. `WF(AutoSubmit(p))`: the
per-minute scheduler registers the job with `EveryTick`
(`cmd/server/main.go`), and its loop goes on for as long as the process lives.
`WF(Continue(p))`: a goroutine that took a request up goes on to its next statement.
No user has to send anything, and the run has no crashes: after one between
`FinalizeIfInProgress` and `FireOnCompleted` nothing in the code retries the
gradebook push or the callbacks, so `TurnInReported` is not promised then.

`DeliveryRuns`: `WF(Loop(p))`. A pod's loop goroutine ticks, takes its next statement
and, when its process is gone, is started again by whatever runs the replicas (the
one thing the code leaves to its environment). Nobody has to queue or retry anything
and the hour need not change, so nothing is promised of the daily digest: the code
does not make a tick fall into its hour.

`BackgroundServices`: `WF(WorkerStep(w))` for every callback that emits: its goroutine
goes on; a currency's row lock may delay one step, so this also shows that no lock is
left behind and that awards of different currencies do not wait for each other in a
circle. No learner has to do anything. For the jobs, `WF` of the sweep (registered with
`EveryTick` in `cmd/server/main.go`), of each worker's next statement and of the end
of its work, and of the passing of a minute and of two hours. Nobody has to create or
edit a job, and no worker has to die.

## 6. What is proved

`QuizAttempts_proofs`, from the named assumptions on the constants only
(`ProcsAssumption` ... `ExtAssumption`), for any number of workers, attempts and
minutes, every quiz type and policy, with and without crashes:

| Theorem | Statement |
|---|---|
| `TypeCorrect` | `Spec => []TypeOK` |
| `OneAttemptInProgress` | `Spec => []AtMostOneUntaken` |
| `CallbacksOnce` | `Spec => []CallbackOnce` |
| `TurnedInStays` | `Spec => TurnedInIsFinal` |
| `LifecycleImplemented` | `Spec => ImplementsLifecycle` |

First come the helpers: `Latest` is in its set and no member is later, and every scoring
policy returns a whole number of hundredths for finished, scored attempts, by
inductions written as smallest counterexamples.

The properties are not inductive: a worker may hold a copy of a row from long ago
and save it whole. The invariant `Inv` adds what such a copy still agrees on with
the table (`Agrees`): a copy a grader, a regrade or the kept-score refresh will write
back is of a turned-in attempt and has that row's number, dates and finish time
(`Copy`), because those columns never change after the turn-in; a copy the overdue
job or `/complete` holds is only written by the update conditional on `untaken`.
For the callbacks it adds `Reporters`: the workers between a successful conditional
update and the callbacks hold different attempts, none reported yet.

The proof has a lemma per action, each by one of four: `LocalStep` (only the worker's
variables change), `TableStep` (other tables), `RowStep` (one attempt row, written
with a copy of itself or kept in progress) and `OutsideStep`; all of them are
`Steady`: nobody outside sees a change. The three that are not, `StartCreate`,
`FinalizeIfInProgress` and `FireOnCompleted`, are the three actions of
`AttemptLifecycle`, which gives the refinement.

`QuizSerial_proofs`, from the same assumptions and what each theorem names, is about
what the code keeps only of operations that do not overlap. `Apart(op, others)` says
that while one worker serves `op` no other serves any of `others`, in terms of which
worker serves what (`Ops`); everything else interleaves with it, for any number of
workers and attempts. With one worker it holds of every instance.

| Theorem | Hypotheses | Statement |
|---|---|---|
| `LimitHolds` | starts apart from starts and moderation | `Spec => LimitRespected` |
| `TurnedInInTime` | moderation apart from turn-ins | `Spec => []FinishedInTime` |
| `TurnedInAnswersStay` | answers apart from turn-ins | `Spec => AnswersFinal` |
| `PassedAnswersStay` | answers apart from turn-ins and locks | `Spec => LockedAnswersKept` |
| `ExcusalStays` | excusals apart from score pushes | `Spec => ExcusalKept` |
| `ScoresMatch` | one worker, no crashes | `Spec => []ScoreMatchesAnswers` |
| `KeptScoresShown` | one worker, no crashes, no excusal or closed period | `Spec => []KeptScoreShown` |

The hypotheses are the races the code does not close: `QuizLimitRace`, `QuizLateAnswer`
and `QuizExcuseRace` are what happens without three of them, and a worker that dies
between two saves leaves a score or a gradebook row behind that nothing repairs. An
excused student and a closed period are left out of `KeptScoresShown` because the code
then withholds the score, or the whole push, on purpose.
What a worker is at is what it was asked for (`Serving`), so the hypotheses speak of
the statements too. To `Inv` each theorem adds what the workers' copies know:

- `LimitInv`: attempts are numbered in order, and a prepared one has the next number
  and is allowed by the extension as it is now.
- `TimeInv`: attempts start before they end, and the finish time a turn-in has computed
  fits the attempt's deadline as it is when it is written.
- `TextInv`, `LockInv`: an answer about to be saved is of an attempt in progress and a
  question not locked; an answer a grader, a regrade or a turn-in writes back has the
  text of the row it replaces. Graders save whole answer rows, so that is all that keeps
  the student's text.
- `ExcusalInv`: the gradebook row a push writes back has today's excusal.
- `ScoreInv`: a turned-in attempt is scored by its first answers or a worker is at that
  attempt; each copy on the way (graded answers, a mark, a rescored row, a kept score)
  agrees with the table in what the next save relies on.
- `KeptInv`: the latest attempt's kept score is the policy's, or a worker is on its way
  to refresh it; the gradebook shows it, or a worker is on its way to push it.

The steps are taken by lemmas that say which statement writes which table (`Writes`)
and where it leads (`Walks`), so that each invariant only meets the statements that
write what it speaks of.

`Scheduler_proofs`, for any number of pods and faults, any job and clock:

| Theorem | Statement |
|---|---|
| `SchedulerExcludes` | `SchedSpec => []OneRunPerWindow` |

The invariant adds that a run which has not lost its session holds the lock of its
window; `ProcessStep` covers every action that changes one process and leaves the
locks of the others alone.

`NotificationDelivery_proofs`, for any number of pods, rows, administrators, faults:

| Theorem | Statement |
|---|---|
| `DeliveryRunsScheduler` | `Spec => SchedSpec`: the composition implements the scheduler |
| `DeliveryExcludes` | `Spec => []OneRunPerWindow` |
| `SentMeansMailed` | `Spec => []SentWasMailed` |
| `DeliveryTypeCorrect` | `Spec => []TypeOK` |
| `MailedOnce` | `OneWindow /\ OneAdministrator` give `Spec => []SentOnce` |
| `RetriesEnd` | `OneWindow /\ OneAdministrator` give `Spec => []RetriesBounded` |
| `SentMarksStay` | `OneWindow /\ OneAdministrator` give `Spec => SentStays` |

Exclusion is proved once, for the scheduler, and carried over by the refinement. For
`SentMeansMailed` the invariant adds that whatever a pod is about to record as sent
has been mailed (`ResultsTrue`).

The last three are about an absence of faults, and their two hypotheses are needed.
`OneWindow`: the job ticks in one hour of the day, or the hour does not change;
`DeliveryHourChange` is what happens without. `OneAdministrator`: retry requests do not
overlap; with two, a copy listed before a delivery is saved after it, and a sent row is
pending again. Both hold of the instance `DeliveryRuns`. The invariant is `Quiet`, for
as long as there was no fault: by the scheduler's exclusion one pod at most has work
(`Steady`); its groups have no row in common (`Apart`) and their rows are still due
(`HeldDue`); every row's mails and refusals agree with its status and count, but for
the one message under way (`RowTrue`, `Counted`); and what a retry is about to reset has
failed and is as it was listed (`ListTrue`). The last holds because a failed delivery is
due to no run until a retry resets it. `MaxRetries > 0` is assumed, as the code queues
with `max_retries` 3 (`DeliveryAssumption`).

`AppointmentGroups_proofs`, from `NoneAssumption`, `IdsAssumption` and
`NumbersAssumption`, for any numbers of requests, participants, slots, reservations
and any limits:

| Theorem | Statement |
|---|---|
| `AppointmentsTyped` | `ApptSpec => []ApptTypeOK` |
| `AppointmentsNotDoubled` | `ApptSpec => []OneLivePerSlot` |
| `AppointmentsFit` | `ApptSpec => CapacityKept` |
| `AppointmentsWithinMaximum` | `ApptSpec => MaximumKept` |
| `AppointmentsOfOpenGroups` | `ApptSpec => BookedWhileOpen` |
| `AppointmentsAreABook` | `ApptSpec => ImplementsBook` |
| `CourseGroupsCompose` | `Spec => ApptSpec /\ TeamSpec` (of `MCCourseGroups`) |
| `CourseGroupsTyped` | `Spec => []TypeOK` (of `MCCourseGroups`) |

`AppointmentsFit` and the two after it are about a step that relies on what another step found out: between
`Check` and `Insert` other requests cancel, save notes, add and delete slots, update
and delete the group. The invariant `ApptInv` adds for every request (`RequestInv`):
it stands between lock and commit exactly if it holds the lock (`LockHeld`, so there is
one such request); the group is not deleted then (`OpenWhileLocked`); and once checked,
there is still a seat in its slot and one for its participant by the limits in force
(`SeatLeft`). The limits cannot change under the lock, and only an insert adds a
counted reservation (`OnlyInsertBooks`): everything else leaves counts or lowers them,
which is the lemma `SeatsStay`. There is a lemma per action, most by `OutsideStep`
(nothing that the locked request relies on grows) or `RequestOnlyStep`.

The refinement needs no more of the invariant. `Insert` is the sheet's `Book`, with the
checks true at that moment because of `OpenWhileLocked` and `SeatLeft`, and since there
are no more seats on the sheet than reservations counted (`SeatsAreRows`). A note's save and a cancellation's save of a whole row are
`BringBack`, `Cancel` or nothing, by what has become of the row in the meantime; every
other statement is an instructor's action or leaves the sheet alone (`SheetStays`).

`MCCourseGroups` is about one of two services that share no row. The composition
implements both (each step is one of that service's or leaves its variables alone), so
all that is proved of `ApptSpec` and `TeamSpec` holds of it, the types first.

`GroupMembers_proofs`, for any numbers of calls, students and teams and any group set,
from `SetsAssumption`, `TeamsAssumption`, `NobodyAssumption`, `StudentsAssumption` and
`TeamBoundsAssumption`:

| Theorem | Statement |
|---|---|
| `TeamsTyped` | `TeamSpec => []TeamTypeOK` |
| `NobodyStays` | `TeamSpec => []NobodyStranded` |
| `LeadersAreMembers` | `TeamSpec => []LeaderIsMember` |
| `RoomIsKept` | `TeamSpec => RoomKept` |
| `OneTeamIsKept` | `TeamSpec => OneTeamKept` |
| `PlansPlaceEvenly` | `TeamSpec => PlacedEvenly` |

`TeamInv` adds what each call may still rely on after other calls have run between its
statements (`CallTrue`). The row it is about to delete or save is, if it is still there,
the student's in that team (`HoldsRow`): a primary key is not given twice, and a save
moves a row to nobody else. Of the memberships it has seen, there are in its team fewer
than the limit, counted with all it still plans to insert (`HasRoom`), and in a set with
one team per student there is none of that student in another team by the time it
inserts (`HasLeft`), unless a statement has failed or it is `lost`. Both are about `saw`, which other calls can only shrink: that is
why the counts outlive the reads they come from, and why they say nothing of two calls
that overlap. `LeadersInv`, for calls in turn: what a call read of a leader is still
true, and a team whose leader is no member of it is one the call at work will mend.

`PlansPlaceEvenly` is about a fold of unknown length. `PlacingExists` shows that the fold
is a function on the prefixes of the order, `PlacedOneByOne` that consecutive values
differ by `Place`; `PlanIsFair` is then an induction on the prefix, written as a smallest
counterexample, over what holds of a partial plan: sizes are members plus planned, teams
that got someone exceed no other with room by more than one, and whoever has not been
placed found every team full.

`Gamification_proofs`, for any numbers of workers, rules, currencies and badges, from
`RulesAssumption`, `WorkersAssumption` and `BoundsAssumption`:

| Theorem | Statement |
|---|---|
| `GamTyped` | `GamSpec => []GamTypeOK` |
| `BalanceKept` | `GamSpec => []BalanceIsLedger` |
| `AnnouncedPerAward` | `GamSpec => []ChainPerAward` |
| `GatesHold` | `GamSpec => []GatesOutsideOverlap` |
| `AwardsRecorded` | `GamSpec => []EveryAwardRecorded` |
| `RewardsGiven` | `GamSpec => ImplementsRewards` |

`GamInv` is about every call of `Emit` under way, at any depth of any stack (`FrameOK`).
For the balance: between the read and the write of an award, what was read is what is
there, since the row is locked or there was none (`Reads`). The ledger's sum is a fold over a
set in an order nobody knows: `AnyOrder`, a smallest counterexample, shows that any order
gives the same, and `SumWithOneMore` that a new row adds its delta. For the chains: the awards about to be announced count, with those announced, against the times
the badge came to be held (`AnnouncedOnce`); a call that waits for an inner one has made
its announcement (`Waiting`). For the gates: past a rule's gate, cooldown and limit still
hold of the firings there were when the call began (`Gated`), since the passing of time
only adds to the age of a firing and takes firings out of the window. For the evaluations: of the rules a call still has to do, only the one
at work can have a row in the ledger for this event (`Fresh`), which needs that no two
calls have one event (`OwnEvents`).

The refinement is read off the same parts. `ApplyTransaction` is `Award` of the row it
inserts, since what it read is the balance (`Reads`) and no row has its event and rule;
an award of a badge is `Give`, or nothing if the learner has it; `EmitBadgeEarned` is
`Announce`, since the call about to announce is counted in `AnnouncedOnce` and so leaves
room for one more; all other statements give nothing (`NothingGiven`).

`ContentJobs_proofs`, for any numbers of workers, claims, edits and deaths, from
`JobBoundsAssumption`:

| Theorem | Statement |
|---|---|
| `JobsTyped` | `JobsSpec => []JobsTypeOK` |
| `JobsRunOnce` | `JobsSpec => []RunsOnce` |
| `JobsOutcomeIsTrue` | `JobsSpec => []OutcomeIsTrue` |
| `BackgroundServicesCompose` | `Spec => GamSpec /\ JobsSpec` (of `MCBackgroundServices`) |
| `BackgroundServicesTyped` | `Spec => []TypeOK` (of `MCBackgroundServices`) |

`JobsInv` is about the copies that may still be saved over the row. Until an edit queues
the job again there has been one claim, its worker is the only one past the claim, and no
copy says `queued` (`OneClaim`); every copy that says completed was made when the content
was there (`CompletedKnown`); and without deaths, failed rollbacks and edits content is there only with a
worker about to report it or a row that does (`NothingElseLeft`). The composition with
the rules engine implements both, as that of `MCCourseGroups` does.

The inductive invariants of these modules were checked by TLC on small instances before
they were proved (that of the group sets to a bounded depth). Every safety property of
the passing runs is proved; so are `CallbackOnce` and `BookedWhileOpen`, which follow
from the refinements the runs check. Liveness stays with TLC, as TLAPS
does not reach it: `OverdueTurnedIn`, `TurnInReported`, `EveryDeliveryTried`,
`EmitReturns`, `JobSettles`.
