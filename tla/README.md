# Email-Scanner: verification project

Email-Scanner reads a Gmail mailbox once a day, classifies each message with
Gemini, labels it and saves a reply as a Gmail draft; it never sends.  A hosted
variant runs the same pipeline on a server for one connected account, on a
schedule or on request, and can undo a run.  What is hard about it is not the
classification but the bookkeeping: drafts and labels live in Gmail, the memory
of what was done lives in small JSON files, calls fail or take effect without
an answer, worker threads interleave, the process may die between any two of
these writes, and the owner sends and discards drafts all the while.  This
directory models that bookkeeping in TLA+, checks it with TLC and proves the
central parts with TLAPS.

## Inventory

Each part of the system, the state it keeps, its operations, and what makes it
correct.  `PROJECT.json` lists the same parts with their source files.

| Part | State | Operations | Correct when |
|---|---|---|---|
| Daily run (`daily_triage.py`) | `daily-state.json`: one record per message (status, draft id, draft policy) and the date of the last finished run; in memory: plans, draft index, worker pool | select, plan, limit, refresh, execute a plan, finish, cancel | no message gets two drafts; processed only after its draft is recorded; the day is done only when everything the run fetched is handled (what lies past its read limit is not fetched, see the divergences) |
| Planning (`triage.py`, `drafting.py`, `message_safety.py`, `classify.py`, `triage_config.py`) and approval (`approve_account.py`, `check_readiness.py`, `readiness.py`) | `account.json`, templates, confirmation, approvals | `plan_message`; edit, review, approve; load | what is drafted was approved, for this account and configuration; what was approved and is safe is drafted |
| Limits (`triage_limits.py`) | none | draft limit, write budget | never more writes than allowed; deferred work is not lost |
| Rollback journal (`rollback_journal.py`) | `rollback/<group>-<offset>.json`: entries with draft id, labels, what was undone | record, complete, mark progress, find the latest | every change of a run can be undone, once |
| Retry queue (`retry_queue.py`) | `retry-queue.json`: attempts and due time of each failed message | due, update | failed messages come back, boundedly often |
| Draft log, campaign (`campaign.py`, `campaign_audit.py`) | append-only logs of draft ids and of trashed messages | campaign run, undo of a log | one reply for each recipient who may get one; every draft in a log; an undo takes back exactly a log |
| Gmail access (`gmail_*.py`) | quota schedule | retry, throttle, labels | bounded retries, quota respected |
| Hosted runner (`hosted_runner.py`) | `backfill-job.json`, the files above | run if due, retry, history chunks, undo | one operation at a time, interrupted history resumes, undo is exact |
| Requests (`hosted_run_request.py`) | `run-now-request.json`, `cancel-run-request.json` | request run, undo, cancel; consume | a request is served at most once; what an ended run left of a cancellation stops no later one (a late request may, see the divergences) |
| Hosted control (`hosted_control.py`) | pending OAuth states | begin, complete, disconnect | a state is used once, before it expires |
| Connection (`connection.py`, `connection_archive.py`, `connection_tokens.py`, `connection_kms.py`, `connect_account.py`) | the connection record, sealed token, the files of the account, archives | connect, disconnect, restore | one account at a time; nothing of it left behind or lost by a crash; no consent outlives its connection |
| Schedule and lease (`connection_schedule.py`) | lease file | `is_due`, acquire, renew, release | one run per day, one holder |
| Private runtime (`private_runtime.py`) | run lock, `daily-status.json` | lock, atomic write, status | files are old or new, never torn |
| Backup (`encrypted_backup.py`) | the last backups | create, verify, prune, restore | a kept backup was verified |
| Gemini client (`gemini_client.py`) | throttle lock, interval and last call; one client; call count | analyze one, many in a pool, in batch groups | every message gets its own answer or error; calls keep their distance; a stopped scan stops |
| OAuth broker (`oauth_broker.py`, `broker_*.py`) | invites, states, sealed pickups, each with a time to live, in memory | start, callback, pickup; collect, connect | states and pickups serve once; a credential is lost only by a named cause |
| Pages, setup and notification commands | configuration, rendered pages | read, write once | validated input |

How they interact: the hosted runner takes the connection's lifecycle lock,
consumes a request, decides what is due, and calls the daily run with the retry
queue's ids, a history chunk, or nothing (a scan of current mail); the daily run
takes the run lock, reads the state, and lets its worker threads call Gmail and
write the draft log, the rollback journal and the state; the runner then updates
the retry queue and the backfill file.  Web pages write request files and read
status files.  Everything outlives a process through these files only.

The behaviours that are hard to test are listed in `PROJECT.json` under
`hazards`, each with its line and the properties that watch it.

## Modules

| Module | Models | Proofs |
|---|---|---|
| `DailyTriage` | the pipeline of a run with its journals, and the undo | `DailyTriageProofs`, `DailyDraftProofs` |
| `HostedRunner` | the files of the connected account under runner, dashboard and timer | `HostedRunnerProofs` |
| `ConnectionSlot` | abstract: what the one slot promises | refined in `HostedConnectionProofs` |
| `HostedConnection` | sign-in, disconnect, archive, restore; implements `ConnectionSlot` | `HostedConnectionProofs` |
| `OAuthBroker` | the broker's three stores under threads, and the operator's commands | `OAuthBrokerProofs` |
| `GeminiAnalysis` | the analysis of a scan: threads, throttle, batch groups, cancellation | `GeminiAnalysisProofs` |
| `MessagePlanning` | what is planned for one message, a function of its arguments | used in `DraftingPolicyProofs` |
| `DraftingPolicy` | the configuration and approvals that give `MessagePlanning` its arguments; extends it | `DraftingPolicyProofs` |
| `Campaign` | one reply to everybody under a label, its log and its undo | `CampaignProofs` |

Each module has an `MC` module with the constants of its small instances and a
configuration per run.  `HostedRunner` takes the daily run as one step, whose
inside is `DailyTriage`; `DailyTriage` takes the plan of a message as any choice,
which `MessagePlanning` makes; `GeminiAnalysis` supplies the answers that
`MessagePlanning` considers; `HostedConnection` decides which account the files
of `HostedRunner` belong to.

## Plan

1. **Core** (done): `DailyTriage` with its proofs.
2. **Hosted operation** (done): `HostedRunner` with its proofs.
3. **Connection** (done): `ConnectionSlot`, `HostedConnection` and `OAuthBroker`
   with their proofs, and the proof of the refinement.
4. **Deciding** (done): `GeminiAnalysis`, `MessagePlanning`, `DraftingPolicy`
   with their proofs.
5. **Campaign** (done): `Campaign` with its proofs.
6. **Safety** (done): every safety invariant and action property the passing runs
   check is a theorem.  Liveness stays with TLC.
7. **Next**: state the operators of `MessagePlanning` as lemmas of their own where
   the step proofs of `DraftingPolicyProofs` expand them, and lift what
   `HostedRunner` assumes of a daily run (it handles some of its messages and
   fails on the others) to a statement about `DailyTriage`.

## DailyTriage

State, by where it lives:

| Variables | Code |
|---|---|
| `draft`, `labels` | Gmail: whose reply each draft id is and whether it exists; the program's labels of each message |
| `state`, `dailyDone` | `DailyState` in `daily-state.json`: records, and whether `last_daily_date` is today |
| `journal`, `undone`, `stamp` | the rollback manifest of each run group, its `undone_at`, and the time `latest_summary` compares |
| `log` | the ids in the draft logs |
| `retry`, `backfill` | `retry-queue.json` (membership), `backfill-job.json` |
| `proc`, `kind`, `group`, `smem`, `jmem`, `plan`, `pc`, `lock`, `cancel` | the process: what it does (`proc` tells the steps at the end of a run or an undo apart), its `DailyState` and `RollbackJournal` in memory, the plans, the place of each message in the pipeline, the persistence lock, the owner's stop request |
| `runs`, `trouble` | bounds |
| `exposed` | history variable of the properties |

Actions, in the order of a run:

- `StartRun` is `_run_locked` up to the preview: the same-day guard, the
  selection of messages (all current mail, queued messages or a history chunk),
  reading with failures, `already_processed_for_draft_policy`, planning with
  `reconcile_existing_drafts`, `--max-drafts` and then `--limit`.  Messages are
  numbered as their ids are ordered, which decides who keeps a shared draft;
  `Place` is where Gmail lists them, the order in which a run takes them and in
  which the read limit cuts the rest off.
- `Refresh` lists the drafts again before the first write.
- `Begin`, `Enter`, `CreateDraft`/`CreateFails`/`CreateAnswerLost`, `LogDraft`,
  `JournalDraft`, `RecordDraft`/`PersistFails`, `ApplyLabels`/`LabelsFail`,
  `JournalLabels`, `Complete` are `_execute` and `execute_daily_plan`, one
  action for each call or file write another thread, a crash or the owner can
  come between.  The thread lock is `InThread`, the persistence lock `lock`.
- A run ends in three steps, between which it may die: `FinishJournal` completes
  the journal, `CloseDay` marks the day (at once, where there is nothing to
  write), and `ReportRun` is the runner's update of the retry queue and of the
  backfill file.  `FinishCancelled` ends a run that was told to stop.
- `StartUndo`, `UndoEntry`, `FinishUndo`, `MarkUndone` are `_undo_group`, one
  entry at a time: its two Gmail calls with every combination of outcomes (done,
  failed before or after taking effect) and the `mark_progress` that follows a
  success; then the records are saved, and the group is marked.
- `RequestCancel`, `Crash`, `OwnerRemovesDraft`, `NewDay` come from outside.

Abstractions.  The content of a plan is whether it has a reply and which topic
labels it adds; any choice of both is possible for each message, except that
plans of the messages in `AlwaysReply` always reply.  A run group has one
manifest, so a history job is one chunk; a chunk that fails without any failed
message, blocked starts (missing labels or files), dry runs and the confirmation
prompt are left out, since they write nothing.  Delays and attempts of the retry
queue become a choice of any queued messages.  Entries of an undo are taken in
any order.  The day changes only between runs.  `exposed` records the messages
for which the code gave up the knowledge of a living draft, so that the
properties can say that nothing else ever does: a crash or failed save between
`drafts.create` and `state.record_draft`, a lost answer of `drafts.create`, an
undo that drops the record of another run's draft, and a completion without a
reply that overwrites a record naming a draft.

### Properties and runs

| Run | Question | Properties |
|---|---|---|
| `daily_live` | do two workers, failing calls and saves, a stop request, a retry and the owner's own hands at the drafts break the journals; are shared drafts of an older version separated, do failed and deferred work keep the day open, do all locks and slots get released? | `TypeOK`, `DraftedOnce`, `ProcessedAfterDraft`, `DailyDoneMeansHandled`, `RunEnds` |
| `daily_restart` | what survives a crash at any step, lost answers and failed saves, with the history chunk resumed; is an undo complete when its calls fail, when it dies halfway and is repeated? | `IInv` (with `DraftedOnce`), `RecordedDraftUndoable`, `UndoneDraftsGone` |
| `daily_limit` | the promise that a day with deferred work is not done | `DoneDayHidesNothing` (violated) |

`DailyDoneMeansHandled` is about every message, not only those a run took on: when
the day is marked done, each is complete or processed and shares its draft with
nobody, or it was never fetched, either because the run had read as many as it
may read of those listed before it (`PastReadLimit`) or because the run was a
retry.  The first exception is what `daily_limit` shows against the code's own
comment, the second is the divergence of the retry; both are below.

A crash between `drafts.create` and the state record makes a second draft; such
messages are in `exposed`, the exceptions `DraftedOnce` allows by name.

Bounds.  Two messages are enough for two workers, for one conversation or two,
for one message failing and the other not, and for a limit that admits one.
`daily_live` has three: of three messages that share a recorded draft one keeps
it, a run reads two of them, and what it does not read lies past its read limit.
`daily_limit` reads one of three.  Gmail lists the newest first in all runs.  Two
runs are a run and what happens to it later: a repetition, a retry, a
resumption, an undo.  One or two
disturbances put a failure, and a second one into its recovery, at every step.
There are always enough draft ids that creation does not run out.  The kinds of
disturbances are spread over the runs so that each stays exhaustive in a few
minutes; `MaxRuns` and `MaxTroubles` are the only bounds in guards.  Because
`MaxRuns` ends the behaviours, and because an idle account really may stay idle,
the runs do not check for deadlock; that no run blocks halfway is `RunEnds`.

Fairness (`FairSpec`, used by `daily_live` alone): weak fairness of ending or
refreshing a run, of each message's worker steps and of the undo, which are
loops of running threads whose Gmail calls return or raise after at most five
attempts (`gmail_execute`).  Nothing makes runs start, owners act or calls fail.

### Proofs

`DailyTriageProofs` proves `TypeCorrect == Spec => []TypeOK`;
`DailyDraftProofs` proves

- `Invariant == Spec => []IInv`,
- `OneDraftPerMessage == Spec => []DraftedOnce`,
- `UndoIsComplete == Spec => []UndoneDraftsGone`,
- `RecordedDraftsAreUndoable == Spec => []RecordedDraftUndoable`,
- `ProcessedOnlyWithDraft == Spec => ProcessedAfterDraft`,
- `DoneDaysAreHandled == Spec => DailyDoneMeansHandled`,

for any finite set of messages and any drafts, labels, conversations, limits,
number of workers, kinds of runs and disturbances, from the named assumptions of
`DailyTriage` (messages are numbers, the empty draft id is no draft, the
processed label is no topic label, limits are natural numbers).

`DraftedOnce` alone is not inductive: a state in which the record forgets the
one living draft satisfies it, and the next run breaks it.  `IInv` adds what
accounts for the living drafts of a message at each position of the pipeline
(`Accounted`: the saved record and the record in memory, or, between creation
and record, the plan; none at all when a draft is about to be created), where a
message can be in each phase (`Phases`), that only handed-out ids are named and
only by their message or a later one, which is what makes the sharing rule of
`draft_is_shared_with_another_message` safe (`NamedDrafts`), what an undo in
progress has done (`Undoing`), and that undone drafts stay gone and groups are
not reused (`Progress`).

Two more parts carry the last three theorems.  `Undoable` says of each message
that the drafts its records name, and the one they are about to name, are in the
log and in the journal of some group, unless they are gone: a draft is logged and
journaled before it is recorded, and the entry of a resumed group is written over
only where its old draft is dead.  The case that makes it hard is a failed save
of the journal, which leaves the journal in memory ahead of the file; `Secured`
says what may still happen to such a message.  `Settling` says what the processed
label and the end of a message rest on (`Grounded`: both copies of the record
name the reply of the plan, and no earlier message shares it), and that the
shared draft of an older version is never recorded anew (`Inherited`), so that
sharing only ever decreases.  `ReadInOrder`, for the end of the day: while a scan
is selected or at work, it took on as many of the messages listed before an
unread one as it may read.

The step proof has one case per action; worker actions share frame lemmas
(`WorkerOwn`, `WorkerOthers`, `WorkerRest`) that say what a step of one worker
leaves alone.  `IInv` is inductive given `TypeOK`; TLC checks the same `IInv` in
`daily_restart`.  Model-checked only: liveness (`RunEnds`).

## HostedRunner

One connected account: its directory, the runner that a timer starts every
minute (and a path unit when a request file appears), and the dashboard.

| Variables | Code |
|---|---|
| `enabled`, `bundle`, `pending` | the connection record; `account.json` with its two approvals (none, whole, or mixed after a failed save); `pending-label-setup.json` (none, matching, or outdated) |
| `request`, `cancelFile` | `run-now-request.json` (scope, group, count, whether too old); `cancel-run-request.json`, with the run it was meant for, which the file does not name |
| `backfill` | `backfill-job.json`: group, number of messages, next offset |
| `status` | the outcome of `last_run` in `daily-status.json` |
| `retries` | `retry-queue.json`: attempts of each message, and whether its next attempt has come |
| `journals` | the run groups with a journal that is not undone, in the order of `latest_summary` |
| `lastDone`, `handled` | `daily-state.json` |
| `runner` | the runner: where it is in `run_if_due`, what the run is for, its messages and failures |
| `saving`, `reading` | a `save_settings` holding the lock; a `request_cancel` between its read and its write |
| `day`, `window` | the local date; before, within or after the grace period |
| `astray`, `orphaned`, `passed` | history of the properties (`astray`: the cancel file was not meant for the run at work), and the group inside `status` and `reading`, which the files do not name |
| `orders`, `trouble` | bounds |

The actions follow `run_if_due` from one file write to the next, since a crash,
a cancellation or the dashboard's lock-free read can fall between any two:
`Start` (lock, discard the cancel file, consume the request), `Decide` (the
reasons to stop and what the run is for), `Connect` (token and authorization),
`UndoStarts`, `UndoEnds`, `Labels`, `PreflightStarts`, `PreflightEnds`,
`RunStarts`, `RunFinishes`/`RunCancelled`/`RunBreaks` (the daily run as one
step), `Settle` or `SettleHistory`, `Advance`, `Publish`, and `Crash` anywhere.
The dashboard has `RequestRun`, `RequestUndo`, `ReadRunning` and `WriteCancel`,
`SaveStarts` and `SaveEnds` or `SaveFails`; `RequestExpires`, `TimePasses` and
`RetryComesDue` are the clock.

Abstractions.  What a daily run does to a message is `DailyTriage`'s subject;
here it handles some of its messages and fails on others, completes its journal
or leaves none.  It reads the cancel file at its checks: a file that is there
when it starts always stops it, a later one may.  The times in the retry queue
are one bit, so which of several due messages are taken first is any choice of
the right size.  An undo opens any of the handled messages and, when no call
failed, marks the group; its entries are `DailyTriage`'s.  A save of settings
that fails stops before, between or after the files of the bundle.  Discarding a
cancel file may fail, at the start and at the end of a run, which the code
swallows (`DiscardFails`); discarding a request succeeds, and files are readable.
A request to cancel is written whenever the dashboard gets to it, however many
runs have come and gone since it read the status (`WriteCancel`).  A history scan has
`ChunkSize` messages in each pass (50 or 1000 in the code, by the length of the
list).  When every name of a group is taken, a run finds nothing to change, so
that behaviours can go on.

### Properties and runs

| Run | Question | Properties |
|---|---|---|
| `hosted_requests` | do requests, undo and cancellation stay apart from each other, through crashes, expiry and files that cannot be removed; is the account ever enabled over half-saved settings, does the dashboard see the truth, is a message ever lost between history scan and retry queue? | `IInv`, `BundleCommitted`, `HistoryAlone`, `UndoLatest`, `RunningIsTrue`, `NothingDropped`, `CancelReachesItsRun` |
| `hosted_live` | do history scans end, and are retries served? | `BackfillEnds`, `RetriesServed` |
| `hosted_disabled_retry` | the promise that daily runs remain paused | `DisabledRunsNothing` (violated) |

`CancelReachesItsRun`: a run is cancelled only by a request for it.  The file
names no run, so this rests on its being discarded in time: what an undo, a crash,
a request between two passes or a failed removal left behind must be gone before
the next run asks.  The exceptions are what the code cannot tell apart: a request
that was read under one run and written under another, and a file that could not
be discarded when the run started either (`astray`).  Both are reached in
`hosted_requests`; the divergences below quote what the code says of them.

`hosted_disabled_retry` is a disagreement of the code with its own error message,
quoted in `PROJECT.json` under `findings`: a save of settings that fails leaves
the account disabled so that "daily runs remain paused", and a due retry runs.

Bounds.  Two messages and passes of one make a history scan of two passes, with a
runner in between.  Two run groups are a run and a later one, which is what an
undo has to tell apart.  Two attempts let a message fail, be retried and drop
out.  Two operations of the owner and two disturbances put every operation into
every step of another and a failure into its recovery.  The queue has room for all messages in these runs, as
5000 entries have for a history scan of at most 5000; what overflows is
forgotten, which is a listed hazard.  Groups are symmetric except in
`hosted_live`.  One day is enough for one scheduled scan and the end of its
window; the runs have no deadlock, because the timer always comes again.

Fairness (`FairSpec`, used by `hosted_live` alone): weak fairness of `Start`
(the timer), of the runner's steps and of the end of a save (running processes
get on, their calls return or raise), and of `TimePasses`.  Nothing makes the
owner act, retries come due or calls fail.

### Proofs

`HostedRunnerProofs` proves, for any length of the history, sizes, groups,
owner and disturbances, from the named assumptions of `HostedRunner`,

- `TypeCorrect == Spec => []TypeOK` and `Invariant == Spec => []IInv`,
- `HistoryIsAlone`, `UndoIsOfLatest`, `EnabledMeansCommitted` and
  `RunningIsShownTruly`: `[]` of the invariants of `hosted_requests`,
- `NothingIsDropped == Spec => [](QueueSize >= Newest => NothingDropped)`,
- `CancelReachesItsRunHolds == Spec => CancelReachesItsRun`.

`IInv` is what each of them needs from its surroundings.  `Locked`: a save
disables the account and keeps the runner out, and a request exists only while
no runner works, so it is consumed before anything can change under it.
`Phases`: which kind of run reaches which step.  `UndoWaits`: the group of a
waiting undo is the latest already.  `ShownRunning`: at each step, who answers
for a status that says running.  `PassAccounted`: the messages of a pass, from
its start over its results to the moment they count as checked.  `Meant`: while a
run is at work, a cancel file is its own or astray.  The step proof
has one lemma for each part and in it one case for each group of actions;
`UpdatedKeeps` is the fact about the queue that needs the room.  Model-checked
only: the two liveness properties.

## ConnectionSlot and HostedConnection

`ConnectionSlot` is abstract: one holder, whether its credential is stored,
whether a consent of it is in force, and the six ways they change (connect,
sign in again, approve, withdraw, forget, vacate, the last three only in that
order).  `HostedConnection` is the code that carries it: files, threads and a
lock.

| Variables | Code |
|---|---|
| `record` | `connection.json` |
| `active` | the files of the active directory, each with the account it is of |
| `archive`, `manifest` | per account, the archived files and `archive-manifest.json` |
| `signin` | the pending OAuth states of `HostedControl` |
| `callback`, `leaving` | the threads in `/oauth/callback`, the thread that disconnects |
| `lock` | the lifecycle lock (`flock` of the state root) |
| `exchanged`, `given`, `held`, `broken`, `stranded` | history: exchanges of a state, consent given in this connection, what was to be kept when a disconnect listed the directory, a disconnect that stopped halfway, a token that may be left without a record |
| `trouble`, `disconnects` | bounds |

A sign-in is `BeginConnect`, perhaps `StateExpires`, `TakeState` (the browser is
back), `Exchange`, `Prepare` (lock, occupancy check), `StoreToken`, `Publish` or
`Cleanup`, and then, without the lock, `FetchLabels` and `SaveCatalog`.  A
disconnect is `AskDisconnect`, `BeginDisconnect`, `ClearArchive`, `Revoke`,
`DisposeEntry` for each file (`leaving.todo`, taken in the order of `Rank`, that
of the names), `WriteManifest`, `RemoveActive` (which silently leaves what it
cannot remove), `UnlinkRecord`; `DisconnectFails` is an entry or the manifest that
cannot be written.  Removing an earlier archive and the locks is taken to
succeed.  `Crash` ends the process between any two. `SaveSettings` and `Run` are what the connected account does
under the lock, in one step each, since `HostedRunner` and `DailyTriage` have
their insides. `Restore` has no caller in the source, so it is an act of the
operator while nothing else is under way.  What Google answers to a revocation
changes nothing in the files; encryption is not modelled.

`connection_life` checks

- `ImplementsSlot`: `HostedConnection` implements `ConnectionSlot`, with
  `holder <- record`, and credential and consent what is in the active directory
  while the slot is held;
- `Inv`, whose safety is in `NoStrayCredential` (vacant and unlocked, no token,
  but for a sign-in that died or could not clean up between its two writes),
  `OwnFiles` (a held slot has only files of its account) and `ConsentFresh` (an
  approval in force was given in this connection, whatever was restored or left
  behind); `LockHeld`, `SigninHolds` and `DisconnectHolds` make it inductive;
- `SingleUse` of a state, `ArchiveWhole` of a disconnect that was not interrupted
  before, and `ThreadsEnd`.

`OwnFiles` leaves out the label catalog: `FetchLabels` and `SaveCatalog` run
without the lock, so the catalog may be that of an account that has just left.

Bounds: two accounts, two states in two threads, two disconnects and two
disturbances.  A second account is what must not get the first one's files; the
second disconnect repeats one that failed, or follows a reconnection; one
pending state at a time reaches the cap.  Deadlock is not checked, because
states and disconnects are used up.  Fairness: weak fairness of each sign-in
thread and of the disconnect; a thread that can go on does, and a lock that is
held is released by a thread that can go on.

`HostedConnectionProofs` proves, for any accounts, states, threads and bounds,
`Invariant`, `StateIsSingleUse`, `ArchiveIsWhole` and `SlotImplemented`, the
refinement.  The assumptions are `NobodyAssumption`, that no sign-in thread is
named like the lock's other values, and bounds in `Nat`.  `LockHeld` ties the
lock to the one thread whose transaction is under way; `SigninHolds` and
`DisconnectHolds` say what that thread found and may therefore rely on, step by
step, as no other can have changed it.  `DisconnectHolds` is where a repeated
disconnect matters: what the first attempt moved is in the archive only as long
as no attempt was broken off.  For the refinement `SlotInit` and `SlotNext` show
each action of the code to be a step of the slot or a stutter; `Untouched` says
which few actions can change the slot at all.  Only `ThreadsEnd` is model-checked.

## OAuthBroker

| Variables | Code |
|---|---|
| `invites`, `pending`, `pickups` | the three stores of `oauth_broker.py` |
| `minted` | the invite each state was handed out for |
| `thread` | what each thread of the web worker is doing |
| `operator`, `tokenFile`, `connected` | `broker_client.py collect`; the file between collect and connect; the token store |
| `exchanged`, `fetched`, `told`, `before`, `sealed`, `lost` | history of the properties |

`Start` and `Mint` are `/start`; `Callback`, `Check`, `Exchange`, `PutPickup` and
`Mark` are `/callback`, which looks at the invite again, but marks it only after
the exchange; `Collect` and `WriteFile` are the collect command, `Connect` and
`RemoveByHand` the connect command and what it tells the operator to do;
`Connect` is one step, as `HostedConnection` has what happens between storing the
token and publishing the record; `Expire` is any time to live, `Restart` the host that spins the process down and
seeds the same invites again.  Sealing, PKCE and the pages are not modelled.

`broker` checks `Inv` (`Once`: a state is exchanged once and a credential
answered to one pickup; the rest of `Inv` makes it inductive), `SingleUseInvite`
(two sign-ins of one invite succeed only if the second was past its check before
the first was told), `CredentialKept` (a sealed credential is somewhere on its
way, or a named cause took it: replaced by such an overlapping sign-in, expired,
wiped by a restart, lost with the answer to a pickup, or fetched while the file
is in the way) and `FileUntilConnected`.

Two invites tell whose credential is whose; three states over two threads are an
overlap and a later sign-in; states, threads and invites are symmetric.  Deadlock
is not checked: when the states are used up, nothing happens.

`OAuthBrokerProofs` proves `Invariant`, `InviteIsSingleUse`, `CredentialIsKept`
and `FileIsKeptUntilConnected` for any invites, states and threads.  `Once` is
not inductive: it needs that a state is in one place only (`Placed`: not handed
out, stored, or taken by one thread, which alone can put its credential) and
that a pickup holds a credential nobody has fetched (`PickedUpOnce`).
`SingleUseInvite` needs `ToldCloses`: an invite whose sign-in was told is not
open, so whoever passes the check has seen no sign-in of it told; a restart,
which opens it again, forgets what was told with it.  Nothing of this module is
model-checked only.

## GeminiAnalysis

| Variables | Code |
|---|---|
| `mode`, `total` | whether the scan is analysed message by message or in batch groups, and how many |
| `next`, `future`, `collected`, `results`, `failedGroup` | the executor's queue, its futures, those `as_completed` has handed out, the list of results, the exception of a group |
| `planned`, `phase` | the classification each message was planned with; the main thread |
| `thread` | the request each thread is making |
| `throttleLock`, `interval`, `since` | `_throttle_lock`, `_adaptive_interval`, and the time since `_last_call_time` |
| `clients`, `cancel` | the shared client, the owner's request to stop |
| `calls`, `late` | history of the properties |

A request is `Throttle` (take the lock, compute the wait), `Wake`, `GetClient`
and `CreateClient`, `Call` or `PermanentError`, and `Report`, which adapts the
interval and begins the next attempt.  A pool thread does `TakeItem`, then a
request or, for a group, `BatchEnds`.  The main thread does `Begin`, `Collect`,
`PoolEnds` or `Drained`, `Plan` for each message, where it asks once more for what
has no result, and then for a reply where the approvals allow one and the answer
carried none (phase `replying`, `_generate_global_reply`: at most two requests,
each with one attempt), and `AllPlanned`.  `Tick` lets the time pass in beats; sleepers
hold the throttle lock, as in the code.  A failed analysis inside `plan_message`
counts as unknown; whether it and other messages go on to a request for a reply is
any choice, which `DraftingPolicy` makes.  `classify` and `generate_text` report
nothing about an empty answer (`EmptyAnswer`).  Messages for which nothing is asked
(automated, empty) are left out.

`gemini` checks `Inv` (`TypeOK` with the bound on requests for each message: those
of the pool, as many again in the plan, and two for a reply; `OwnResult`, `OneClient`, and what makes them inductive), `CancelStops`, `Spaced`
(between two calls passes the interval in force when the second is made, though
other threads change it while the first sleeps) and `AnalysisEnds`.

Bounds: one or two items, two threads and the main thread, two attempts; intervals
from 10 to 40 hundredths of a second, so that success, quota and transient errors
each reach a bound.  Two items over two threads finish out of order, and one waits
for the throttle of the other.  Deadlock is not checked: a scan is analysed once.  Fairness: weak
fairness of the clock, of the main thread and of each worker, whose calls return
or time out and whose turn at a lock comes.

`GeminiAnalysisProofs` proves `Invariant`, `CancelIsHeeded` and `CallsAreSpaced`
for any number of messages, threads and attempts and any intervals, the main
thread being none of the workers and `Free` no thread.  `Pacing`: who sleeps has
the lock, and long enough to go; as only who has the lock reports, the interval
cannot grow under a sleeper, from which `Spaced` follows.  `PoolHolds`: an item
waits, runs in one thread, or is completed.  `MainHolds`: the main thread plans
one message after the other.  `CallsCounted`: requests made about a message, at
each position of the one thread that makes them (`Tries` of a reply are its own).  `CancelHeeded`, in the proofs
alone, says that a request to stop finds the last message not yet begun, unless
it came too late.
Only `AnalysisEnds` is model-checked.

## MessagePlanning and DraftingPolicy

`MessagePlanning` has no variables.  `Plan` is `plan_message` and what the daily
run adds: reply safety of the headers (`Delivery`), the classifier's answer
(`Parsed`, `Valid`), labels (`CategoryAdd`, `YearAdd`, `Conflicts`), permission
(`Confirmed`, `Permits`, `CarriesProtected`), the template or the generated reply
with its fallback (`AllReplyable`, `ByCategory`, `Reply`) and the review label.
Text is reduced to what these decide by: a year the body mentions, whether it is
meaningful, whether a reply passes validation.  Two attempts at a reply count as
one verdict.

`DraftingPolicy` extends it with the state its arguments come from.

| Variables | Code |
|---|---|
| `profile`, `wording` | `account.json`; the templates |
| `confirmation`, `approval`, `reviewed`, `names` | `taxonomy-confirmation.json`, `ai-drafting-approval.json`, the template approval, and the account each names |
| `tool` | `approve_account.py`, between showing, the typed sentence and its two files |
| `run`, `plan` | a run that has loaded the configuration, then the approvals; the plan of the message |
| `email`, `labels` | one message and its labels, which later runs find again |
| `typed`, `edits` | history: what the owner stated; bound |

The owner edits (`EditProfile`, `EditWording`), reviews (`ReviewWording`),
approves (`ShowReview`, `TypeSentence`, `WriteConfirmation`, `WriteApproval`,
`WriteFails`, `ToolDies`), removes approvals, has one of an earlier version, or
saves the form (`SaveSettings`).  A run is `LoadProfile`, `LoadApprovals`,
`FetchEmail`, `PlanMessage`, `Execute`, `EndRun`.  A digest is what it was taken
of.  Once a run has loaded the approvals it reads none of the files again, so
owner's actions are left for after it; between its two reads they all happen.

`planning` checks `Inv`, whose safety is in `BulkApproved`, `ProtectedApproved`,
`PersonAnswered` and `YearWritten`, and `DraftApproved`: every draft goes back to
a statement of the owner that allows it in this mailbox (`Allowed`) and to one by
which the category was reviewed as it is (`Reviewed`); and the other direction,
`SafeMessageDrafted`, `UndraftedIsShown` and `ReadyMeansDrafts`: what was
approved is drafted, what is not is shown, and a readiness report is kept; and
`OneCategoryLabel` over repeated runs.

Bounds: two mailboxes, a category and the fallback, one year, seven shapes of a
message, eleven answers of the classifier (clear ones of each category and
sender, one doubt at a time, none at all; all answers with one doubt reach the
same states), three first configurations, daily and unlabelled runs, one edit and
one statement: a statement and the edit that outdates it, or an edit inside the
review, which is what the digests are for.  The fallback is the category of
automated mail, which is therefore labelled, and the owner may protect the labels
of a category, of a year and of the review.  Deadlock is not checked, since edits
and statements are used up.

`ProtectedApproved` is about every protected label the message has or gets, but
for one: the review label that this very plan adds (`Carried`), because the
planner adds it after it has asked for permission.  A review label the message
already has counts like any other.  The divergence is described below.

`DraftingPolicyProofs` proves `Invariant`, `DraftsAreApproved`,
`SafeMessagesAreDrafted`, `UndraftedAreShown`, `ReadinessIsKept` and
`OneCategoryIsLabelled` for any categories, labels, messages, answers, edits and
statements.  Assumed are what the configuration loader demands (every category,
year and the review label has a Gmail name of its own, triage_config.py:137-142)
and first configurations, messages and answers of their types; any label may be
protected.  The argument goes from the files to the plan: a document
says what the owner typed a sentence for (`Founded`), what the approval tool is
about to write was typed (`ToolHolds`), a run that plans does so with files that
fit its mailbox and are still as it read them (`RunHolds`), and a plan is what
`plan_message` makes of those arguments (`PlanHolds`).  What is left for each
theorem is then about `MessagePlanning` alone, and is proved as lemmas about its
operators, one for each way to a reply.

The proof found what the run's single statement cannot show.  An approval of
categories binds no digest, so the statement that allows a draft and the one by
which its category was reviewed may be two different ones: `DraftApproved` has two
quantifiers, and the behaviour is described under the divergences below.

## Campaign

| Variables | Code |
|---|---|
| `drafts` | Gmail: every draft there ever was, its author, message, state and version |
| `run`, `logs` | `campaign.py LABEL BODY`, and the log of each run |
| `undo`, `trashed` | `campaign.py --undo LOG`, and what its own log lists |
| `unlogged`, `unlisted`, `undone`, `edited` | history of the properties |
| `runs`, `undos`, `touches` | bounds |

A run is `StartRun` (aliases, exclusions, approval, limit), `ReadExclusions`,
`Scan` (any part of the mail may be read, the newest safe message of each
recipient is kept), `Confirm`, and `CreateDraft` (up to five attempts, whose
answers may be lost) and `RecordDraft` for each; `EndRun` may come anywhere.
A message has a set of labels.  A label is typed in one spelling and found by Gmail
in any case (`SameLabel`, with `Lower` for `str.lower`), whereas `StartRun` and
the approval compare it as it is typed.  An undo is `GetDraft`, `TrashMessage` and
`RecordTrashed` for each logged id, `FinishUndo` or `UndoStops`.  The owner
writes, edits, sends and deletes drafts in between.

`campaign` checks `Inv` (`OneDraftEach`, `OnlyTargets`, `OnlyApproved`, and what
makes them inductive), `LogExact` and `UndoExact`
(`UndoOnlyLogged`, `UndoComplete`, `TrashListed`).  `OnlyApproved`: under a label
the profile protects, in whatever case it is typed, or with an approval, a run
writes to each approved recipient at most once and to nobody else.  `OtherCase`
excepts a run for a protected label in another case than the profile's and without
an approval; `campaign_label` is the run that shows it against the message of the
code (`ProtectedApproved`, violated).  Other named exceptions: a draft
whose answer was lost or whose id was in hand when the run died (`unlogged`), the
same of a message on its way to the Trash (`unlisted`), and a draft the owner
edited between the two calls of an undo (`edited`).

Bounds: one run, two undos (one interrupted, one that repeats it), three drafts,
which also bound the lost answers, two touches of the owner; seven messages with
two senders that are one person, an owner with two addresses, unsafe mail, two
labels, one of them protected and typed in either case, and an exclusion label.  Deadlock is not
checked: a campaign is over once.

`CampaignProofs` proves `Invariant`, `LogIsExact` and `UndoIsExact` for any mail, any aliases and exclusions, and any number of runs,
drafts and undos.  `RunTold` keeps what was read when the run started;
`RunGoesOn` says of the list still to do that it has nobody twice, nobody who may
not get a reply, and nobody who has one but the recipient whose draft is in hand,
and that list and drafts together keep to the limit.  `LogHolds` and `UndoGoesOn`
do the same for the logs and for an undo between its calls.  Among messages of
one date the selection (`Targets`) is any choice, as Gmail's order decides there.
That the newest message of each recipient is the one answered is the definition
of that selection and is not claimed as a property.  Nothing of this module is model-checked only.

## Divergences met on the way

Three disagreements of the code with its own words are checked by runs, and quoted
in `PROJECT.json` under `findings`:

- `hosted_disabled_retry`: after a save of settings that failed, a due retry runs
  on an account whose daily runs "remain paused".
- `daily_limit`: with account-wide drafting and `--max-drafts`, a run does not
  fetch more than it may draft (daily_triage.py:405-411).  The mail behind that is
  neither failed nor deferred, so the day is closed over it (1283, 1395), against
  daily_triage.py:1281-1282, "Deferred work means the day is NOT done."  The
  message is not lost, the next day's scan finds it.
- `campaign_label`: the protection of a campaign label is looked up as it is typed
  (campaign.py:733), the label itself in any case (gmail_reader.py:10-17), so a
  protected label typed in another case gets drafts without an approval, against
  campaign.py:737-739 and README.md:66, "Campaign runs require an inspected
  recipient list and account-bound approval before drafts can be created".

Others, which the models take as the code has them:

- An undo removes the record of a message when the undone entry has no draft
  (hosted_runner.py:381), even if the record names a draft of another run; the
  next scan drafts again, against README.md:52, "without drafting the same
  message twice".  `DailyTriage` names this in `exposed`.
- `record_draft` replaces the draft id of an entry when a resumed chunk drafts
  again (rollback_journal.py:100), against DETAILS.md:76, "Undo journals retain
  every change in the run".
- A retry runs in mode `daily` and without `--history-scan`
  (hosted_runner.py:566-591), so it ends the day, against daily_triage.py:878,
  "Only a finished current-mail scan satisfies the daily schedule."
- A cancelled scheduled scan leaves the day open and the timer starts it again a
  minute later, against hosted_dashboard.py:371-373, "no additional emails will
  be processed."
- A cancellation is written without the lock and names no run
  (hosted_run_request.py:119-121), against its docstring, "Request cooperative
  cancellation of the connected mailbox's live run." (107).  If the run it was read
  under has ended by then, it stops the one that follows; and a runner that cannot
  discard an old request goes on with it (hosted_runner.py:438-441).
  `CancelReachesItsRun` names both.
- A cancellation between two passes of a history scan is discarded by the next
  runner (hosted_runner.py:439) while the status still says running, against
  hosted_dashboard.py:332-334, "then the scan will stop."
- A disconnect that is repeated after a failure removes the archive the first
  attempt filled (connection_archive.py:149), against connection_archive.py:26-28,
  by which the journal is kept.  `ArchiveWhole` is about disconnects that were not
  interrupted before.
- A version 1 approval lists categories without a digest, and the approval tool
  writes it only while some category is generic (approve_account.py:84-91).  So an
  owner may approve generated replies for a category, switch them off, remove the
  confirmation and rewrite the category, review it again in that mode, and switch
  them on: a run drafts for the new category under the approval of the old one
  (drafting.py:348-361), against DETAILS.md:119-120,
  "approval artifacts are digest-bound".  `DraftApproved` therefore asks for an
  approval and a review, perhaps of two statements.  Likewise such an approval
  keeps working after `draft_all_replyable_messages` is turned on; readiness
  refuses it, a run does not.
- The review label is added (triage.py:954-969, daily_triage.py:456-498) after
  protected labels were looked for among those of the message and of the plan
  (triage.py:834-839), and nothing keeps an owner from protecting it
  (account_profile.py:373-380): a reply is then generated for a message that gets
  a protected label with it.  The next run finds the label and refuses.
  `ProtectedApproved` names the exception.
- Where the classification carried the reply, the safe fallback is built inside an
  `except` block (triage.py:863); if the signature is refused there, the run
  breaks, instead of "draft generation and safe fallback failed; not drafting".
- A campaign excludes the senders under a label but selects by reply address, and
  goes on without what it could not read of that label (campaign.py:416).
- The state of an invite is marked after the exchange, so two overlapping
  callbacks of one invite both succeed (oauth_broker.py:467), the case
  `SingleUseInvite` names.
- `drafting.confirm_bulk_at_runtime` is called by nothing; `Lease.acquire`
  (connection_schedule.py:96) reads and then writes, so that two owners could hold
  one fence, but no production path uses it.

## Not modelled

- Text: prompts, parsing of mail and of answers, wording and validation of replies,
  previews, reports and pages.  They are choices of the models, limited to what
  control depends on.  The dashboard and the status pages are routing and rendering
  over the operations above.
- Cryptography: sealing, PKCE, envelope encryption and key management; a file has
  its content or not.
- Building and validating configuration, discovery of categories, migration of
  older documents: single processes that write once, whose results are the initial
  states of `DraftingPolicy`.
- Expiry and notification (functions of a record and a time), the local notifier
  and the metrics: nothing depends on what they write.
- The encrypted backup after a run: it copies what the other modules describe,
  verifies the copy and keeps the last thirty.
- The Gmail quota throttle: it delays calls of one process and changes no result.
- The lease: no production path acquires it.
- A retry queue that overflows in a run: the instances have room for all messages,
  and the theorem about `NothingDropped` says so.

## What is proved and what is not

Every safety invariant and action property that a passing run checks is a theorem
for all values of the constants that meet the assumptions (`NothingDropped` as
long as the retry queue has room for the whole history).  Beyond the prover,
and with TLC alone, are liveness and ENABLED: `RunEnds` (`daily_live`),
`BackfillEnds` and `RetriesServed` (`hosted_live`), `ThreadsEnd`
(`connection_life`) and `AnalysisEnds` (`gemini`).  `SlotImplemented` is a
refinement of safety; `ConnectionSlot` states no fairness.  No theorem rests on
induction over data.
