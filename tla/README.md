# IceCoreVerdict: specifications, model checking and proofs

IceCoreVerdict keeps the verdict on contaminated ice cores. A case is opened, a
baseline of samples is frozen, evidence is gathered, hypotheses on the source of
the contamination are judged, remediation is planned and verified, an
independent reviewer signs, dispositions decide what each sample may be used for,
and the case is archived. This directory holds TLA+ modules of that program, the
TLC configurations that check them, and theorems TLAPS proves about them.

## 1. The system

| Component | Source | State | Operations |
|---|---|---|---|
| Case aggregate | `internal/domain` | the `Aggregate`: status, revision, baseline, evidence with custody sequences, hypotheses, actions, reviews, corrective items, dispositions, who did what | one `Decide...` method and one event per command, `Apply`, `Rehydrate`; matrices computed from the records |
| Case storage | `internal/storage` `store`, `commit`, `events`, `checkpoint`, `paths` | per case `transaction.json`, `events.jsonl`, `requests.json`, `checkpoint.json`; a mutex per case; the quarantine set | `Open`/`scan`, `Load` (recovers), `Commit`, `ReadCheckpoint` |
| Idempotency index | `internal/storage/idempotency.go` | `requests.json`: request_id to revision and stored response | `IdempotentResult`, entry by `Commit`, `UpdateIdempotentResponse` |
| Command service | `internal/application/service.go` | none of its own | `Create`, `Execute`, views |
| Mailboxes | `internal/application/mailbox.go` | a queue of 32 tasks and one goroutine per case | `submit`, `loop` |
| Archive | `internal/archive` | `archives/<case>.json` | `Build`, `Save`, `Read`, `Verify` |
| Audit query | `internal/storage/audit.go`, `query.go` | none | `QueryEvents`, `Events`, `List` |
| HTTP API, process | `internal/api`, `cmd/server` | none | decoding, status codes, start, shutdown, self-check |

A request reaches `Service` through the API, waits in the mailbox of its case, and
is served by that case's goroutine: look the request_id up, load the case,
decide, commit, load again, and for `archive` save the document and complete the
stored response. Each storage call holds the case's mutex; reads (`Get`,
`Events`, `AuditEvents`, `VerifyArchive`) do not pass the mailbox and take the
same mutex between the worker's calls. A read recovers a pending transaction
just as a command does.

What is hard in it:

- *long legal histories*: an aggregate with twelve operations whose guards refer
  to each other's records; most mistakes would need five or more commands by
  several people to show;
- *client-supplied order*: custody numbers, collection, verification, closing and
  due times come from clients; only revisions are the program's own;
- *failure between file operations*: a commit is four renames with a directory
  sync each, and a removal; the process may die, the power may fail, or an
  operation may return an error after any of them;
- *retries*: a client that got an error, or no answer, repeats its request_id
  while the failed commit may still be completed by a recovery;
- *two paths to one file*: `Commit` and recovery replace `requests.json` from a
  transaction, `UpdateIdempotentResponse` without one;
- *queues and cancelled contexts*: a caller may leave while its task is running.

What makes each component correct: the aggregate loses no record and changes one
only in what its own life asks for (`RecordsPermanent`), releases nothing unsafe in
a decided case, lets nobody approve work of their own; the storage gives back after
any failure a case that loads, holds every acknowledged request once and never less
than a decision was based on; the service tells a client that repeats its request
of what was recorded; the archive holds what the events say; the
audit pages show every event once. The hazards are listed, each at its line, in
`PROJECT.json`.

## 2. Modules

```
CaseLifecycle        abstract: statuses and verdicts of a case
   ^ implemented by
ContaminationCase    the aggregate, one action per command
CaseProperties       what must hold of it          MCContaminationCase  scenarios
CaseLoops            its loops, one iteration a step   MCCaseLoops      scenarios
CaseProofs           theorems on types, duties, reviews, releases
  <- CaseRefinement  theorem: the case implements CaseLifecycle
  <- CaseRecords     theorems on custody, hypotheses, verdicts, steps, and on
                     work after a rejection
     <- LoopProofs   theorems on the loops of CaseLoops

CommitLog            abstract: an append-only log without repetitions
   ^ implemented by
CaseStore            files, mutex, worker, failures      MCCaseStore    symmetry
StoreProofs          theorems on it, with the refinement of CommitLog
   ^ and, its storage calls one step each, by
CaseService          answers, repetitions, archive       MCCaseService  scenarios
ServiceProofs        theorems on it, with the refinement of CommitLog

CallContract         abstract: what callers of the service are promised
   ^ implemented by
Mailbox              callers, queues, loops, shutdown    MCMailbox      calls
MailboxProofs        theorems on it, with the refinement of CallContract

CaseEvents           the events and their statuses, used by CaseService and
AuditQuery           filters, pages, cursors             MCAuditQuery   filters
AuditProofs          theorems on it
```

### ContaminationCase

The variables are the fields of `Aggregate` (`aggregate.go:11-26`), the ones keyed
by an identifier as functions over the identifiers in use. Every action is one
`Decide...` method followed by `Apply` of its event: the guard holds all the
refusals of the method, `Record` the revision check of `Apply`.

| Action | Command | Code |
|---|---|---|
| `CreateCase` | creation | `case_rules.go:10-39`, `aggregate.go:71-76` |
| `FreezeBaseline` | `freeze_baseline` | `case_rules.go:41-105` |
| `AddEvidence` | `add_evidence` | `investigation_rules.go:17-72` |
| `EvaluateHypothesis` | `evaluate_hypothesis` | `investigation_rules.go:86-180`, `projections.go:88-139` |
| `PlanRemediation` | `plan_remediation` | `remediation_rules.go:34-118` |
| `VerifyRemediation` | `verify_remediation` | `remediation_rules.go:120-187` |
| `SubmitReview` | `submit_review` | `remediation_rules.go:189-222`, `projections.go:150-183` |
| `ApproveReview`, `RejectReview` | `complete_review` | `review_rules.go:14-86` |
| `CloseCorrectiveItem` | `close_corrective_item` | `review_rules.go:88-135` |
| `RecordDispositions` | `record_dispositions` | `review_rules.go:137-260` |
| `ArchiveCase` | `archive` | `review_rules.go:286-298` |

Abstractions, and why they are faithful:

- a command is a record of what the rules read; commands refused for their form
  alone (a blank field, an unknown enumeration value) are never sent;
- a threshold is a metric together with the set of values its comparator lets
  through (`compare`, `projections.go:194-210`); metric names and units travel
  together. An action without a threshold carries `NoThreshold`, and its outcome
  is then what the witness says;
- digests, values, sources and scopes are members of small sets; instants are
  small numbers, 0 is the zero time. `CollectionGrace` is the window before the
  freeze in which evidence may have been collected;
- `HighScore` keeps the rounding to three decimals of `investigation_rules.go` as
  an inequality between integers;
- `LatestRetests` returns all retests that share the latest time, and `Covered`
  asks for one of them that was verified: the map iteration of
  `RemediationCoverageMatrix` picks any, so that a submission succeeds exactly when
  some order lets it succeed;
- `ComputedPassed` is a closed form of the loop in `DecideVerifyRemediation`, which
  recognises its first element by identifier; this one, `RetestCovers`, `Complete`,
  `ConflictEvidence` and `Covered` are compared with the loops in `CaseLoops`;
- what a client may send beyond the rules is kept where the code keeps it: a sample
  is frozen with any disposition, scope and basis its client gives it (`Marking`;
  `case_rules.go:56` does not look at these fields), and has them until the decision
  replaces them; an action is planned with the retest list and the time of
  verification it was sent with, of which the coverage matrix reads the time;
- defaults are part of the command: a finding sent without assignee or due time
  counts as one that names the lead or the time seven days on;
- texts (titles, summaries, reasons, explanations) survive only as "given or not".

Definitions such as `ItemSettled_Open` stand before the definition they spoil.
They show that a property notices such a mistake and are used by no
specification.

### CaseLoops

Four functions of the aggregate are loops whose order matters or might:
`completenessFor` over the evidence sorted by custody number,
`recomputeHypothesisComparison` over the pairs of hypotheses,
`DecideVerifyRemediation` over the retest list, and `RemediationCoverageMatrix` over
a Go map. `ContaminationCase` states what they return. `CaseLoops` adds to the case
the local variables (`acc`) of a running loop and what it has still to visit
(`todo`, a sequence, or a set where the order is the map's), and runs any of them
over the records of any reachable case. The case stands still meanwhile, as
each storage call hands out an aggregate of its own. In the body of a loop a
`continue` is a branch that leaves `acc` alone, an early return ends the list.
The sort by custody number is what it leaves: `Chain`, the listing of a sample's
evidence in strictly increasing custody. `CustodyKept` proves that no two pieces of
a sample share a number, so that there is one such listing and the sort cannot
depend on the order of the map.

### CaseStore

One case directory and all that touches it. `disk` is what processes see,
`survivors` the directories a power loss may leave: a rename adds the new
directory to them, a directory sync leaves only the present one. `plan` is the
list of file operations the holder of the mutex has still to do: `CommitPlan` for
`Commit`, `ApplyPlan` for recovery, `UpdatePlan` for `UpdateIdempotentResponse`, so
that a crash, a power loss or an error (`Fail`) can come between any two.

| Actions | Code |
|---|---|
| `Step`, `Fail` | `atomicWrite` and `syncDir`, or the error return behind them |
| `BootRecover`, `BootDone` | `scan` on start; a case that cannot be loaded is quarantined |
| `Receive` | `mailbox.loop` takes the next task |
| `Lookup` | `IdempotentResult` and the answer from the stored response |
| `LoadRecover`, `Load` | `Load` before the decision |
| `Commit`, `Committed` | `Commit` up to its first write, and its return |
| `Reload`, `Save`, `Update`, `Updated` | the second `Load`, `archive.Build`, `UpdateIdempotentResponse` |
| `Publish`, `Published`, `PublishFails` | `writeAtomic` of the archive file: rename, directory sync, error; not under the mutex |
| `Refuse` | every error answer that is not a failed write |
| `ReaderRecover`, `ReaderDone` | a read that finds a pending transaction |
| `Crash`, `PowerLoss` | the environment |

An event is represented by the request_id that appended it, a checkpoint or a
root digest by the log it closes; a command appends one event, as every
`Decide...` method does. Which commands the domain accepts is left open: a request
that was loaded may be committed or refused. Request kinds differ only in what
the code makes of them (`create` wants no case, `archive` has the extra steps),
and a repeated request_id may come with another kind.

Two assumptions about the environment:

- **the file system journals metadata in order**: what survives a power loss is
  the directory as it was at some moment since the last sync. With renames that
  persist independently, the storage is not safe: a crash after the rename of
  `transaction.json`, a restart whose recovery renames `events.jsonl` before it has
  synced anything, and a power loss can leave the event without its entry in the
  index, and the retry then appends it again (`commit.go:47`);
- **the case directory itself is durable**: its entry in `cases/` is never synced
  (`commit.go:70`, `paths.go:31`).

The archive file lies in a directory of its own, so that `document` and `documents`
survive a power loss independently of `disk` and `survivors`.

### Mailbox

A call is one HTTP request that reaches `submit`. `caller` is where its goroutine
stands, `left` says that its context has ended; `jobs` is the channel of a case's
mailbox, `hand` the task its loop runs, `done` the channel a task is answered
through. `loops` names each loop after the call that started it, so that a second
loop for a case would show.

| Actions | Code |
|---|---|
| `Submit`, `Enqueue`, `GiveUp`, `Receive` | `submit`: `get`, and the branches of its two selects |
| `Leave` | the client goes away; `net/http` ends the context |
| `Take` | `loop` takes a task, and answers it at once if its context has ended |
| `CarryOut`, `Finish` | the task has its effect, and its result is sent |
| `Shutdown`, `Exit`, `Timeout`, `ServeFails` | `main.go:61-97`; `Stop` is what the end of the process does to all of them |

What a task does to a case is the single step `CarryOut`, which `CaseStore` and
`CaseService` detail; a task may end in an error with or without it. `CallContract`
says what a caller may rely on: a call has its effect at most once, success is
reported only of a call that had it, and a call that was over for its client
when another one was made never takes effect after that one. It rests on the
order of the queue and on the test of the context before a task is run.

### CaseService

`Create` and `Execute` from the lookup to the answer, with the storage calls as
single steps that may fail: `txn` holds the transaction of a commit that failed
half-way, which any later load completes. The domain is what `CaseEvents` says of
statuses; within the statuses a command asks for it may accept or refuse. `log`
holds request, event and status, `index` the stored responses, `document` the number
of events the archive file closes. `told` keeps what clients were told, so that
two answers to one request can be compared; `verify` is a verification under way.
A request_id may come with several actions where a scenario says so. The case
may have been brought to any status before (`Beginnings`), an archived one with its
document. `Crash` stands for the death of the process and its next start: the scan
recovers the case, or the recovery or the reading fails, which may leave the
transaction partly applied, and the case is `quarantined` (`store.go:45-59`). A
lookup still answers from the index then, but whatever loads the case is refused
(`LoadRefused`, `store.go:70-73`) until a later start finds it in order.

### AuditQuery

A client asks with a filter, an offset and a limit and follows the cursors, with a
new limit each time, while commands append events that are legal in the status of
the case. `shown` are the revisions on the pages so far. A cursor is the revision of
the last event shown; its digest adds nothing, as the log is append-only. The
matches and the trajectory are gathered by the loop over the events
(`audit.go:92-117`), a function of the number of events visited (`InOrder`). The
handler's checks (`handlers.go:77-131`) are the assumption on `Filters`, `Limits` and
`Offsets`. Actor and time window are tests of one event each, the actor stands for
both.

## 3. Properties and runs

| Run | Bounds | Shows |
|---|---|---|
| `case_flow` | flow: one sample, three pieces of evidence, three actions, one rejection with one item, 20 events; evidence: two samples, any custody number, time and digest, 6 events | `TypeOK`; `LifecycleSpec`: the case implements `CaseLifecycle`; `ReviewedMaterialFrozen`; `RecordsPermanent`; `SecondApprovalRestsOnNewWork`; `CustodyIntact`; `HypothesesRestOnCompleteSamples` |
| `case_release` | release: two samples, overlapping retests with any outcome at earlier, equal or later times, 16 events; contested: hypotheses that contradict each other before remediation and after a rejection; duty: one pool of people for all duties; retest: every list of up to three retest records | `ReviewReadiness` with several retests and after a rejection; `SafeRelease` with failed actions and contested sources; `ConfirmedUncontested`; `BlockedGateTraps`; `DutySegregation`; `VerdictIsConjunction` |
| `case_loops` | loops: two samples, evidence in either order of custody, three hypotheses, every retest list of up to three; matrix: four actions, passed or failed at earlier, equal or later times, every order of the map | `InvestigationLoops`, `RetestLoop`, `CoverageLoop`: the loops and their closed forms agree |
| `case_store` | three requests, each any number of times as any kind; any number of failures | `TypeOK`, `CrashLeavesLoadableCase`, `AckedSurvive`, `ExactlyOnce`, `DecisionsRestOnDurableLog`, `ArchiveDigestKept`, `ArchivedHasDocument`; `CommitLogSpec`: the files implement `CommitLog` |
| `case_store_live` | two requests, with fairness | `RequestsEnd` |
| `mailbox` | two calls for one case and one for another that may hang, mailboxes for one task, with fairness | `TypeOK`, `OneAtATime`; `CallContractSpec`: the mailbox implements `CallContract`; `CallsReturn`, `ShutdownDrains` |
| `service` | any two actions, or dispositions, archive and a third command, or two request_ids for four actions each; from any status; up to three failures, a crash may end in quarantine; with fairness | `AnswersAgree`, `ArchiveTrusted`, `VerifySound`; `CommitLogSpec`: the service implements `CommitLog`; `RecordedIsTold`, `DocumentFollows` |
| `audit` | up to six events, six filters, limits 1 to 3, offsets 0 and 2, with fairness | `PagesTile`, `TrajectoryUnbroken`, `LastPageComplete`, `FollowersFinish` |
| `case_retest_repeat` | retest lists with repetitions | violates `VerifiedMeetsThreshold` (finding 1) |
| `case_duty_evaluator` | an evaluator who reviews | violates `ReviewerIndependent` (finding 2) |
| `service_retry` | a creation that fails behind its transaction file, repeated | violates `RecordedNotRefused` (finding 3) |
| `audit_offset` | an offset beyond the last match | violates `OffsetsAnswered` (finding 4) |

A run on the aggregate takes one or several scenarios (`MCContaminationCase`): what
the clients of a case send, and how many events the case may come to. A case
stays in its scenario, and `MCNext` is `Next` of `ContaminationCase` with the commands
of the scenario in place of all commands.

Why the bounds are enough. In the aggregate every property relates at most two
records of a kind, a sample and a person; each scenario has the two records, and
its event bound leaves room for every command of the scenario. What the bounds
cut is the archiving behind `release`, which nothing here depends on, and histories
that verify a failed action again and again.
`CHECK_DEADLOCK FALSE` in these runs: an archived case, and one that has used up
its commands, accepts nothing more. In `CaseStore` nothing but the set of requests is bounded; three requests give
a log with two proper prefixes, so that an old and a new transaction, index and
checkpoint can be mixed up with a third one, and deadlock is checked.

In `Mailbox` a capacity of one is enough for a full queue with another caller
waiting in the send, before or after the loop has come to the task; the code's 32
only makes this rarer.
Deadlock is not checked there, since a process that is down stays down. In
`CaseService` `MaxFaults` bounds failures and crashes: three allow a commit that fails,
a start that fails to recover it and quarantines the case, and a failed save after
a start that recovers it; requests
may come any number of times, and deadlock is checked. In `AuditQuery` six events
leave three pages and events appended between them; a full log and a client that
has finished end a behaviour, so deadlock is not checked. In `case_loops` the event
bounds are above the longest history of the records the loops read;
`CHECK_DEADLOCK FALSE` as for the case itself.

Fairness (`FairSpec` in `CaseStore`): the holder of the mutex goes on, a process that
went down is started again, and the worker is strongly fair, since a `sync.Mutex`
passes a waiting goroutine over only finitely often (its starvation mode). No
fairness is asked of clients, readers or failures, so `RequestsEnd` also holds
when every file operation fails.

Fairness in `Mailbox`: loops run (except in a case whose storage hangs, where a task
may never finish), a caller whose answer or whose ended context is there
returns, and a sender is strongly fair, as a Go channel serves its blocked
senders first come, first served. Clients need not leave, and the deadline of
`Shutdown` (`main.go:95`) need not pass. In `CaseService` the worker works, and each client
repeats its request for ever, which is what a client must do to learn how a
failed request ended; failures are limited by `MaxFaults`. No fairness makes a
process with a quarantined case start again, so both liveness properties except a
case that stays quarantined. In `AuditQuery` a client
goes on as long as it is given cursors, and the log stops growing at `MaxLog`: a
client that reads more slowly than the case grows never finishes.

`ShutdownDrains` shows what ends without the deadline: a full queue of a case that
works, tasks whose clients left, and a task that hangs for a client who left do not
keep the process from stopping. What does is a call whose task hangs and whose client stays (`HeldUp`);
the deadline is there for it. In a hung case nothing but its own context frees a
caller, so `CallsReturn` speaks of the cases whose storage works, next to one whose
storage does not.

In `ArchiveDigestKept` power losses are excepted on purpose. A response completed
by a rename that was not synced yet can be read by a retry, which is answered
from it; a power loss then takes the digest back. The archive is rebuilt by the
next retry, so nothing is lost for good.

## 4. Findings

1. `remediation_rules.go:167` recognises the first retest by its identifier. A list
   in which the first identifier comes back starts the conjunction anew at its
   last occurrence, and the values before it no longer count, although
   `README.md:17` promises that the result is recomputed from the linked evidence.
   `VerdictIsConjunction` shows that the verdict is right when no record is listed
   twice.
2. `Apply` does not count the evaluator of a hypothesis among the investigators
   (`aggregate.go:104-110`), so whoever judged the hypotheses may sign the review;
   `BENZHI_README.md:13` speaks of a reviewer without an investigation duty.
3. `IdempotentResult` reads the index without recovering (`idempotency.go:31-41`).
   When a creation failed after its transaction file was written, the repetition
   finds no record, the load behind it recovers the case, and the client is told
   that the case exists; the next repetition gets the success. Other commands
   can be refused in the same way. Nothing is lost or done twice: `CommitLogSpec`
   and `RecordedIsTold` hold.
4. `QueryEvents` does not clamp an offset beyond the matching events
   (`audit.go:136-140`), unlike `Events` (`query.go:18-20`): the slice bounds are
   reversed, the handler panics and the request is not answered, although the
   handler's own check only asks for an offset that is not negative
   (`handlers.go:185`).

Read from the code and the model, without a run of their own:

- `RemediationCoverageMatrix` keeps the first of several retests with the latest
  time, in the order of a Go map (`projections.go:155-168`). With a passed and a
  failed retest of the same `verified_at` a submission is accepted or refused at
  random, although `README.md:17` lets a case go to review only when the latest
  retests passed. `CoverageLoop` shows that ties are the only case the order decides.
- `DecideFreeze` stores the disposition fields a client sends with a sample, and
  nothing clears them before the decision, so that up to then a view of the case may
  show a sample as released (`case_rules.go:56-103`, `aggregate.go:77-87`). The
  decision replaces them for every sample; `SafeRelease` is about the decided case.
- A case resubmitted after a rejection straight from the investigation does not
  pass the hypothesis gate again (`remediation_rules.go:189-195`). No document asks
  for it; `SafeRelease` holds regardless.
- The stored response of a command carries the status `statusAfter` computes from
  the event type (`service.go:199-218`), the direct answer that of the reloaded
  case. They differ for evidence added under remediation, so that a repetition
  reports another status. `AnswersAgree` shows that action, revision and archive
  digest never differ for a request_id used as intended.
- A request_id used again for another command is answered from the record of the
  first one. If that record turns up only between lookup and commit, after a
  commit that failed behind its transaction file, the answer names the second
  command, which was never carried out (`commit.go:81-83`, `service.go:190-197`).
  `AnswersAgree`, `ArchiveTrusted`, `RecordedIsTold` and `DocumentFollows` therefore ask
  for one command per request_id (`OneCommandEach`) where they must; `CommitLogSpec`
  and `VerifySound` hold without it.

## 5. Proofs

Every safety property of a passing run is also a theorem, for every value of the
constants that satisfies the assumptions below. The sets of people, samples,
records, commands, requests, calls, cases and filters may be of any size, infinite
too, and the bounds of the runs (`MaxRevision`, `MaxFaults`, `MaxLog`, `Capacity`) are
any numbers, so histories of any length are covered. TLC evaluates the
assumptions in every run on their module.

| Module | Assumption | Says |
|---|---|---|
| `ContaminationCase` | `TimesAssumption` | instants are positive numbers |
| | `SentinelAssumption` | the markers for "nobody" and "no threshold" are no person and no threshold |
| | `CommandAssumption` | a command has the fields of its type |
| `CaseStore` | `SentinelAssumption`, `AbsentAssumption` | the markers for "no request" and "no file" are no request and no content of a file |
| `CaseService` | `ServiceAssumption`, `AbsentAssumption` | scenarios pair requests with actions, a case begins in one of its statuses, the markers stand apart |
| `Mailbox` | `MailboxAssumption` | a call is for one case, a mailbox has room for a task, "no call" is no call |
| `AuditQuery` | `QueryAssumption` | filters, limits and offsets are those the handler lets through |

| Theorem | States | Rests on |
|---|---|---|
| `CaseProofs.TypeCorrect` | `TypeOK` | inductive as it stands |
| `CaseProofs.DutiesSegregated` | `DutySegregation` | `DutyInv` |
| `CaseProofs.ReviewsReady` | `ReviewReadiness` | `Begun`; nothing `Ready` looks at changes under review |
| `CaseProofs.ReleasesSafe` | `SafeRelease` | inductive as it stands |
| `CaseRefinement.LifecycleImplemented` | `LifecycleSpec` | `CourseInv` |
| `CaseRecords.CustodyKept` | `CustodyIntact` | `CustodyInv` |
| `CaseRecords.HypothesesFounded` | `HypothesesRestOnCompleteSamples` | `TypeOK`, evidence only grows |
| `CaseRecords.ConfirmationsUncontested` | `ConfirmedUncontested` | `TypeOK`, evidence only grows |
| `CaseRecords.VerdictsConjoin` | `VerdictIsConjunction` | `VerdictInv` |
| `CaseRecords.RecordsKept` | `RecordsPermanent` | `BoundsInv`, one lemma for each kind of record |
| `CaseRecords.ReviewedKept` | `ReviewedMaterialFrozen` | `Begun` |
| `CaseRecords.GateTraps` | `BlockedGateTraps` | `Begun` |
| `CaseRecords.SecondApprovalsEarned` | `SecondApprovalRestsOnNewWork` | `NewWorkInv`, `ReviewReadiness`, `CourseInv` |
| `LoopProofs.CoverageComputed` | `CoverageLoop` | `CoverageInv` |
| `LoopProofs.RetestComputed` | `RetestLoop` | `RetestInv` |
| `LoopProofs.InvestigationComputed` | `InvestigationLoops` | `CompletenessInv`, `ComparisonInv`, `CustodyKept` |
| `StoreProofs.StoreTyping` | `TypeOK` | `StoreInv` |
| `StoreProofs.LoadableAfterCrash` | `CrashLeavesLoadableCase` | `StoreInv` |
| `StoreProofs.AcknowledgedSurvives` | `AckedSurvive` | `StoreInv` |
| `StoreProofs.AppendedOnce` | `ExactlyOnce` | `StoreInv` |
| `StoreProofs.DurableDecisions` | `DecisionsRestOnDurableLog` | `StoreInv` |
| `StoreProofs.DigestHasDocument` | `ArchivedHasDocument` | `StoreInv` |
| `StoreProofs.DigestStays` | `ArchiveDigestKept` | `StoreInv` |
| `StoreProofs.FilesImplementCommitLog` | `CommitLogSpec` | `StoreInv`, `SafeLogInv` |
| `ServiceProofs.ClientsAgree` | `AnswersAgree` | `StoreInv`, `ArchiveInv` |
| `ServiceProofs.VerificationSound` | `VerifySound` | `VerifyInv` |
| `ServiceProofs.ArchivesTrusted` | `ArchiveTrusted` | `ArchiveInv` |
| `ServiceProofs.ServiceImplementsCommitLog` | `CommitLogSpec` | `StoreInv` |
| `MailboxProofs.Typing` | `TypeOK` | `MailboxInv` |
| `MailboxProofs.OneTaskAtATime` | `OneAtATime` | `PlaceInv` |
| `MailboxProofs.MailboxImplementsContract` | `CallContractSpec` | `MailboxInv` |
| `AuditProofs.PagesTileMatches` | `PagesTile` | `AuditInv` |
| `AuditProofs.LastPagesComplete` | `LastPageComplete` | `AuditInv` |
| `AuditProofs.TrajectoriesUnbroken` | `TrajectoryUnbroken` | `AuditInv` |

`StoreInv` of `StoreProofs` and `StoreInv` of `ServiceProofs` are two invariants, each of
its own module.

### Why the strengthenings are needed: the case

- `Begun` (a case without events has no status) excludes a second creation over
  records; in the code `Execute` never creates and `Create` finds the case.
- `DutySegregation` looks at the collectors, executors and witnesses the records
  name, the code at the sets `Investigators` and `Witnesses` that `Apply` fills
  (`aggregate.go:88-141`). `DutyInv` says that the sets cover the records, and that an
  approval is only there while the case is under review or decided, when nobody
  takes up a duty: the way back to the investigation is a rejection, which is only
  accepted as the first opinion (`review_rules.go:40-42`).
- `CourseInv` ties the status to the reviews: none up to the first review, a
  single rejection in a second investigation. With it each command is a step of
  `CaseLifecycle` or leaves statuses and verdicts alone.
- `SafeRelease` needs no strengthening: it speaks of decided and archived cases, the
  one step into a decided case replaces the disposition of every sample under the
  release rule, and in the two statuses nothing it compares changes any more.
  Whatever clients had marked samples with before does not matter.
- `CustodyInv` adds that no record was entered at a later revision than the
  present one, so the new record is the last in the order of entry.
- `VerdictInv` adds to the verdict that the evidence of a retest is on record; as
  evidence is never rewritten, the values a verdict was taken from stay
  (`JustifiedStays`).
- `NewWorkInv` says of every closed item what `AfterRejection` demanded when it was
  closed, that the first rejection left at least one item, and that a second
  opinion exists only on a case under review; `ReviewReadiness` then gives that
  every item is closed.

The step of each theorem goes through the commands; a command that cannot disturb
the invariant is dealt with together with the others like it (`OneWriter` in
`CaseRecords`: evidence and hypotheses have one writer each).

### The loops

`LoopsOverCases` gives that `LoopSpec` implements `Spec` of the case, so that the
theorems on the case hold in `CaseLoops`. Each invariant says what the local
variables hold after part of the visits: `CoverageInv` for the actions walked in
whatever order, `RetestInv` that the values from the last occurrence of the first
identifier on are conjoined, `ComparisonInv` that a hypothesis has the
contradictions of the pairs gone through, `CompletenessInv` that the part of the
chain walked is unbroken. `RetestComputed` needs no bound on the list and
`CoverageComputed` none on the actions.

### The storage

The proof ties every directory a power loss may leave to the one processes see.
`DiskInv` says of each of the former that it recovers to a log whose requests are
exactly those of its index, to the same log as `disk` or, while a transaction is
on disk, to one event less, and that it recovers every entry `disk` has. Neither
`ExactlyOnce` nor `AckedSurvive` is inductive without it, since a recovery after a
power loss starts from any survivor. `PlanInv` says that what is left of a plan tells
what has reached the disk (`Applied`), and `PhaseInv` what the worker may rely on
between its calls: no transaction is pending from the decision on, and a request
that was committed is in every survivor. `DigestInv` carries the archive digest
along: the document is durable before the index says so. The proof is about the file
system section 2 assumes; with renames that persist independently `DiskInv` is
false.

For the refinement the abstract log is `SafeLog`, what is sure to survive.
`SafeLogInv` says that it is the log of a survivor and at most one event behind what
`disk` recovers to, so that `Commit`, each crash and each recovery is one step of
`CommitLog` or a stutter.

### The service

`Log` and `Idx` are what recovery would make of the log and the index. `RecordInv` says
that each request in the log has its entry and each entry its place in the log,
`AheadInv` that recovery adds at most the last command and never to an archived
case, `WorkerInv` that a worker whose request turns up after its lookup finds it as
the last event. From these answers agree and the service implements `CommitLog`.
`ArchiveInv` holds where no request_id serves two commands: only the response of an
archived case's `archive` leads to a document, in the index, the worker, the answers
and the verifications under way. Without that condition a record of another
command would be answered with its document (section 4).

### The mailboxes

`PlaceInv` says that a case has one loop, and that a task is in a queue at most once
and, while it is there, neither in a hand nor carried out; `CallInv` and `ResultInv` tie this to where the
caller stands and what it was answered. `OrderInv` is what the last promise of
`CallContract` needs: when a call was over for its client before another one was
submitted, a task of the first that the loop still holds is finished before the
second one is carried out, and one that is still queued is dropped for its ended
context.

### The audit query

Appending to the log only appends to the matches of a filter (`InOrder` is a loop,
so this needs an induction over the natural numbers, stated for a set of them:
`Induction`). `AuditInv` says that what was shown is the part of the matches from
the offset on, and that the cursor is its last element; a page continues there.

### What stays with TLC

`RequestsEnd`, `CallsReturn`, `ShutdownDrains`, `RecordedIsTold`, `DocumentFollows` and
`FollowersFinish`, since liveness under fairness is beyond the prover; and the four
violations of section 4, which are counterexamples. Recursion is not proved about
in general: the one recursive definition a theorem needs, `InOrder`, is a function
on an interval of numbers.

## 6. Not modelled, and the plan

Left out for good: JSON forms, digests as bytes (a hash is taken as injective, so
that the sections of an archive cannot be told apart), the HTTP handlers but for
the checks of the audit query, flags and configuration, the self-check (a client
that sends one fixed sequence of requests), texts, the comparison of free-text
threshold values, the arithmetic of temperatures, rates and ranks, the views
(`Get`, `List`, `Events`: one load and a projection of it), temporary files left by a
crash, the growth of the set of mailboxes.

Not decided by a property, with the reason in `PROJECT.json`: the two durability
assumptions of `CaseStore` (`commit.go:47`, `commit.go:70`), the retry answered from an
index that is not yet synced (`idempotency.go:69`), the mailboxes that are never
given up (`mailbox.go:26`) and the status of stored responses (`service.go:186`). A
corrective item closed in time without an explanation blocks every submission
dated after its due time (`remediation_rules.go:206`); no document says otherwise.

What is left of the plan are proofs around the properties that need fairness, as far
as they do not need it:

1. `Mailbox`: a caller that waits is never without a step to come, its own or that of
   its case's loop, stated by where its task is instead of by ENABLED;
2. `CaseStore` and `CaseService`: every phase of the worker and every plan of the holder
   has a file operation left that ends it, and each step but a failure or a crash
   brings the worker nearer to its answer;
3. `AuditQuery`: each page with a cursor brings the client strictly nearer to the end of
   the log.
