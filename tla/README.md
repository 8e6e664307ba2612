# ViralDNA: TLA+ models and proofs

ViralDNA turns a reference video into a production plan and lets a team generate
images and videos for it with paid remote providers. Its backend
(`src/services/api/src/viral_dna_api`, below `api/`) is one FastAPI process on one
event loop over SQLite databases. This directory models the parts of that backend
that are hard to test: where requests, background tasks, a restart or a remote
provider interleave.

1. [Inventory](#1-inventory) — what the system consists of, and what is hard in it
2. [Modules](#2-modules) — which module stands for what, action by action
3. [Runs](#3-runs) — what TLC checks, within which bounds, and what it shows
4. [Fairness](#4-fairness)
5. [Proofs](#5-proofs) — what holds for every value of the constants
6. [Where the code disagrees with its documents](#6-where-the-code-disagrees-with-its-documents)
7. [Not modelled](#7-not-modelled)
8. [Plan](#8-plan)

## 1. Inventory

| Component | State | Operations | Hard behaviour | What makes it correct |
| --- | --- | --- | --- | --- |
| Identity database, `api/accounts/repository.py` | users, password hashes, invitations, sessions, edit leases | login, password and member administration, session renewal, lease acquire / renew / release | passwords are verified before the transaction, the clock is read before the lock | a revocation is complete; nobody revives a session or displaces a live lease |
| Edit authorization, `api/accounts/authorization.py`, `fencing.py` | request contexts, short leases, the transaction in progress | authorize, fenced transaction, release in `finally` | decided at the door, written much later; leases taken one by one; process stop | a commit happens under the request's own leases; short leases are given back and successors spared |
| Image batches, `api/image_batches.py` | batch rows with items, a task per batch, a child per item | preview, create, dispatch, follow, stop, resume, recover, pause | run and membership are saved one after the other; stop races dispatch; anything may fail | nothing is paid for again without being asked for; an ended batch is settled; every batch ends |
| Generation runs, `api/production.py` | run rows, a task per run | enqueue, claim, finish, cancel, retry, recover, trash, restore | statuses are read and written without a lock | at most one live run per picture; an ended run stays ended unless a tool's result is recovered |
| Remote video orchestration, `api/video_generation/orchestrator.py`, `production.py` | provider task rows, the project lock | submit, poll, time out, cancel, retry, resume after a restart | the outcome of a submission may be unknown; a restart between submit and save | no ordinal is paid for twice; no job is forgotten; a run that is over has no task at work; every run ends |
| Depth jobs, `api/control_assets/jobs/service.py`; enhancement jobs, `api/video_enhancement/service.py` | job rows, one worker slot, cancellation events | submit, retry, claim, commit, complete, cancel, recover, shutdown | claim and cancellation take different locks; commit and row are two saves | one active job per subject; terminal states stay; a failed job left nothing behind |
| Account storage, `api/account_storage/catalog.py`, `sync.py`, `transfer.py` | the device's entries, files and batches; the connection and its task; a server's entries, files, uploads and commits | capture, trash, restore, purge; pair, start, disconnect; build, announce, upload, commit, receipt; expiry | calls and answers get lost, either side stops, both archives are edited while a batch is out, another server is paired | a receipt is true; batches do not overlap; nothing purged comes back; what is due arrives |
| Storyboards, `api/skill_workflow/service.py` | attempts, checkpoint artifacts, revisions of the shot manifest, the registered task | compile, ask, record, compile shots, save, fail, cancel, recover, edit | the paid answer and the row that knows of it are two saves; a task is cleaned up by whoever reads the workspace; people edit meanwhile | a saved answer is never asked for again; an edit is not covered; every attempt ends |
| Production decisions, `api/production.py`, `upstream_changes.py`, `candidate_lifecycle.py` | candidates, what is adopted per picture and clip, freshness flags, the project's step | generate, publish, finish, select, adopt, reject, withdraw, archive, restore, edit, advance | results come in minutes after they were asked for; decisions in any order | what is adopted can be used; its flag tells whether it is out of date; results take no decision back |
| Timeline, preview and export, `api/timeline*.py` | timeline documents, preview and export jobs | edit, render, export, list, cancel | a job listed before its task is registered; a cancellation that saves what it read | not modelled, section 7 |
| Media staging, managed assets, gates and later stages of a skill project, analysis pipeline, providers, libraries, web client, scripts | documents and one-off jobs | stage, provision, plan, analyse | restart in the middle | not modelled, section 7 |

How they interact. Every HTTP request passes the authorizer, which takes or checks
edit leases in the identity database; its business transactions attach that
database and check the leases again (`FencedConnection`). A batch enqueues image
runs and schedules their tasks; a run calls a provider; video runs hold the
project's lock for as long as they generate. Depth and enhancement jobs commit into
the same projects. What runs deliver becomes candidates, which people adopt; adopted
and generated candidates are captured into the account's archive, which a task copies to
a server. A storyboard is written by a task of its own and edited over the same manifest.
Trashing a project pauses its batches first and then cancels its
runs. At start `recover()` is called on runs before batches. All of it shares one
event loop, so the interleaving points are the `await`s, calls handed to threads,
and the moments a process may stop.

`PROJECT.json` lists every hazard at its line, with the properties that would catch
it going wrong.

## 2. Modules

```
MCAccounts ──── Accounts ──── Accounts_proofs
                    │               │
MCEditFence ─── EditFence ─── EditFence_proofs

GenerationRuns ──── ImageBatch ──── MCImageBatch
                      ┊     │
      PaidSubmission ┄┘     └────── ImageBatch_proofs
        (abstract)

MCVideoRuns ────── VideoRuns ───── VideoRuns_proofs
MCLocalJobs ────── LocalJobs ───── LocalJobs_proofs
MCStorageSync ──── StorageSync ─── StorageSync_proofs
                   Storyboard ──── Storyboard_proofs
                   Adoption ────── Adoption_proofs
```

Solid lines are `EXTENDS`. `ImageBatch` implements `PaidSubmission`, the abstract
specification of a queue of paid work, under a refinement mapping. Definitions keep
the names of the source; those whose name describes a mistake (`LogoutKeepsLeases`,
`StopStatusOnly`, `PutEntryAnew`, `CheckpointRecorded`, ...) are the mutated forms listed in
`PROJECT.json` and occur in no specification.

### Accounts

`api/accounts/repository.py`. Each writing operation of `AccountRepository` runs in
one `BEGIN IMMEDIATE` transaction and is one action. What it reads *before* the
transaction is a parameter of the action and ranges over everything it could have
read:

- `t` of the lease calls is the time read before waiting for the write lock: any
  time of the last `BUSY_TIMEOUT`;
- `h` of `Login` and `ChangePassword` is the hash the password was verified with,
  in an earlier transaction: any hash the user ever had.

`user[u].last` numbers the hashes of a user (a salted hash never repeats), so a
session can remember which hash opened it (`session[s].hash`, a history field).
Rows are records, a missing row is `NoRow`. `holder` keeps whom a token was issued
to after its row is gone, because tokens are random and never issued again. A user's
phone (the username) and password hash are the numbers of their values in the order they
were set. `Login` is the second transaction: its inputs are the phone and the hash that the
first one found, out of all the user ever had, and it compares both with the row again.
`hash` and `phone` of a session row are history: what it was opened with.

| Action | Code |
| --- | --- |
| `Login` | `login`, second transaction, with the session it replaces |
| `RenewSession` | `renew_session` |
| `Logout`, `ChangePassword` | the same names |
| `CreateMember`, `Invite`, `SetMemberPassword`, `ChangeMemberPhone`, `RemoveMember`, `ResetLink`, `RestoreMember`, `Activate` | member administration; `DropAccess` is `_revoke_member_access` |
| `DisableAccount`, `EnableAccount` | `update_account` (its status) |
| `AcquireLease`, `RenewLease`, `ReleaseLease` | `lease(action)` |

### EditFence

`create_project_authorizer` and `FencedConnection`, over `Accounts`. A request goes
through the phases *peek* (does the tab own all leases?), *take* (acquire short ones
one by one, in the order of sorted ids), *require* (each one checked), *handler*,
*tx* (inside a business transaction), *cleanup* (the `finally` block). `writer` is
the write lock of the identity database, which a business transaction has from its
first checked statement to its commit; while it is taken no action of `Accounts` is
enabled except the clock. The editor id of a batch request is fresh, so the request
stands for it. `Restart` is a stop of the process at any phase.

A call may also raise: the identity database stays locked beyond the 15 seconds that
sqlite waits, and `lease()` lets the `OperationalError` through. In the loops before the
handler that leads to the clean-up (`CallRaises`); in the clean-up, which catches
`AccountError` only, it ends the loop and abandons what was not released yet
(`ReleaseRaises`). `over` is history: when a request was abandoned or killed. A request is not
cancelled on its own: the authorization runs in plain ASGI middleware, which a client's
disconnection does not cancel.

A tab that reuses its editor token in a later tenure of the same project is the
same editor, in the code as in the model: the fence identifies session, editor and
token, not the tenure. Which project a nested resource belongs to is an input.

### GenerationRuns and ImageBatch

`GenerationRuns` has the rows and tasks of image runs; `ImageBatch` adds batches and
their children.

- `FAILED` is split by what its error code says: "failed" bought nothing,
  "uncertain" has a code of `image_batches.UNSAFE`. `bought` is a history field: what
  the provider really did, which the status may not tell, since a cancellation that
  read the row while it ran overwrites a result (`CancelRead`, `CancelSave`). That a "failed"
  run bought nothing is what the code makes of it: two of these codes are given after the
  provider has answered, with no picture in the answer or with broken metadata
  (`gateway.py:1034` and `:479`); whether such an answer is charged for, the code does not know.
- `Claim` is the transaction that moves a run from queued to running; `Finish` saves
  the answer without looking at the row again, as the code does.
- `DispatchCheck` reads the batch's status under the batch lock and then waits for the project
  lock; `Dispatch` inserts the run under both, `SaveMembership` saves the item afterwards. The
  child is "checked" and then "enqueued" in between and holds the batch lock, which
  `Stop` takes too: a stop cannot come between the look and the insertion.
  "enqueued" is the crash window that `recover()` reconciles.
- `Fresh` is preview's verdict on one picture. Whatever else preview looks at
  (prompt, references, which pictures are asked for) is the choice `want`.
- `StoreFault` and `TaskFails` are the except branches of `execute_item` and of
  `run`: an exception may come from any call of the store.
- `TrashBegin`/`TrashFinish` are the halves of `trash_project`; a second
  cancellation reaching a task in the handler of the first one ends it unsaved.
- `Restart` is the stop of the process together with `recover_generation_runs` and
  `recover()`, which run before any request is served.

Left out: heartbeats, candidate ids, costs, estimates, approvals, budgets, streamed
candidates, and the bound of the semaphores (a waiting child starts at any time,
which covers every bound). A provider call that was handed to a thread and commits
after its task was cancelled, and the graceful shutdown (which does what a crash and
the trashing do), have no actions of their own.

`PaidSubmission` promises, for each key, that work is submitted again only after its
last submission is known to have bought nothing. The mapping takes the pairs of
batch and picture for keys, the runs which that batch's own dispatches inserted for
its submissions, and derives `outcome` from their statuses and `bought`. What a user
asks for explicitly (retry of a run) is not a submission of the batch.

### VideoRuns

The runs of one shot of one project. A run goes through its ordinals one by one; for
each one it saves a row as `pending_submission`, calls the provider, saves the id,
polls and saves each change. `worker[r].seen` is the orchestrator's own copy of the
rows, read once, and "saving" is the window between an answer and the row that
records it. `job` is the provider: what it was asked and what became of it, changed
by `Provide` at any moment and read only through answers. `lock` is the project
lock, held while a run generates and while a retry is created.

- `HearAccepted`, `HearRefused`, `HearNothing`: the answer to a submission, or none
  (which may also be a job that *was* accepted).
- `Follow`, `PassOver`: a row of an earlier attempt, by `provider_task_id` and status.
- `CancelRead` → `CancelSave` → `CancelTask` for each row of a list read once →
  `CancelFinish`, while the task is still running. A killed task's save may or may not
  reach the database. A row is saved as CANCELLED when the job really was cancelled, and also
  when the adapter took a 404 or 409 for that: Seedance (`adapter.py:158`), Bailian (`:138`)
  and Gemini Omni (`:267`) do, MiniMax does not. The job then goes on, or has ended, as it
  would have.
- `RetrySave` → `RetryCopy` for each ordinal → `RetryDone`: the retry's row is saved
  and visible before the provider tasks are copied.
- `Crash`, `Shutdown`: a shutdown cancels the tasks first; both recover.

Preparation and submission are one step (nothing is saved or read in between that
the model has). The cancel event is set only right before the task itself is
cancelled, so the orchestrator's tests of it have no action. `HearGarbled` is a reply
that is not JSON, which the adapter turns into a refusal. `misread` is history: the jobs
whose garbled acceptance was taken for a refusal or whose 404 or 409 for a cancellation.

### LocalJobs

Depth and enhancement jobs have the same life, so one module has both; `service`
says which, for where they differ: shutdown (a depth service sets the events of the
busy tasks only, enhancement of all, and starts nothing afterwards), the end of a
stopped job (enhancement: interrupted when shutting down), and the commit (a depth
result is refused when its source has changed).

The state lock of a job orders the two halves of a cancellation (`CancelRead`,
`CancelSave`) against `Commit`, `Complete` and `Fail`; it does not order them against
`Claim`, which is a transaction of the store. `CancelSignal` sets the event after the
lock is released, and only if the job was seen running. `Submit` saves the row,
`Schedule` creates the task after a notification, both under the subject's lock.

`Commit` hands a depth result to the project, `Complete` saves the row, `Told` writes the
diagnostics of a depth job, all inside one `try`. `LateError` is an error of any of them after the
commit: the except branch (`Fail`) then saves a failure, over a delivered depth result too. A
claim or a save of the except branch may fail in its turn (`ClaimNothing`, `FailUnsaved`): the task
ends and the row stays active until the next restart. `mishap` is history and says of each
job which of these has happened: "overtaken" (claimed between the halves of a cancellation that saw it
queued), "unrecorded" (a late error of a delivered depth job), "unsaved" (no row for its end).
`retry` is `Submit` for the subject of a job that is over. Progress reports keep the
status and are left out.

### StorageSync

One account's device and the servers it may be paired with. An entry is generation
history: its files never change, its metadata do, and a version stands for
`updated_at`. The device's side is `catalog.py` (`entry`, `blobs`, `jobs`, `lastTarget`)
and `sync.py` (`conn`, `worker`); a server's side is `transfer.py` (`remote`, `stored`,
`inbox`, `commits`).

| Action | Code |
| --- | --- |
| `CaptureFile`, `CaptureEntry` | `capture_candidate` keeps the files, then writes the row; a purge or a restart may come between |
| `Trash`, `Restore`, `Purge` | the same names; `OnlyOf` are the files no other row names |
| `Prepare`, `Confirm`, `Start`, `EnsureWorker` | pairing and starting the task; `SelectSyncTarget` forgets the receipts of another server |
| `Disconnect` → `Disconnected` | the task is stopped, the server is told (or cannot be reached), the connection is forgotten |
| `TakeJob`, `BuildJob` | one round of `worker()`: the oldest job that is ready, else a new one of what is pending and in no unfinished job |
| `Begin`, `SendChunk`, `Finish`, `Uploaded`, `CommitStart`, `Receipt` | `send()` with the handler of each call on the server; each call may be done and its answer lost (`Unanswered`) |
| `CallFails`, `UploadMissing`, `CommitRefused`, `NoReceipt`, `FileGone` | the calls that fail or are refused, the client's time-out, and the file that is gone |
| `CommitEntry`, `CommitEnd` | `commit()` writes entry by entry in a thread that goes on when its caller gives up |
| `ServerTrash`, `ServerRestore`, `ServerPurge` | people at the server's archive |
| `CleanUp`, `CleanUpMidway` | `cleanup_incomplete`, between two attempts or in the middle of one |
| `RestartServer`, `RestartDevice` | a stop of either process |

A file is one chunk; offsets, hashes, quotas and reservations are left out (a refusal is
one more way for a call to fail). The catalog's transactions are one step each.

### Storyboard

The writing of a storyboard in `skill_workflow/service.py`, for one run of one project.
`steps` are the rows of the attempts, `ckpt` the checkpoint artifacts (`ckpt[i]` is made
from the answer attempt *i* got), `manifest` the revisions of the shot manifest by who
wrote them. A worker is the background task (`worker["task"]`) or a reader of the
workspace that cleans up a running step without a task (`worker["reader"]`); it has its
own `copy` of the checkpoint, as the code has.

- `Compile` → `Register` → `Start`: the row is saved under the project lock, the task is
  registered afterwards, and a task cancelled before it starts never runs its body.
- `Answer`, `Record`, `CompileShot`, `SaveManifest`, `SaveBase`, `Finish`, `Complete`: the
  writes of `_run_storyboard_compilation` in their order. `Write(w)` is the write of the
  place a worker is at; a cancellation that meets it may come before or after it.
- `Stop` → `Draft` → `Base` → `End`: `_stop_storyboard`, in a task that fails or is
  cancelled, or by `Recover`.
- `EditPrompts` is `put_storyboard_prompt_draft`, refused while a task is at work;
  `EditWhole` is `put_shot_manifest`, which is not.

Outlines, gates, costs, the run's own status and the rewriting of single shots are left out.

### Adoption

One shot of a production project: its pictures and its clip, the runs that make
candidates for them, and what people decide. What people do holds the project lock and
names the revision they saw, so each decision is one step; a picture is generated outside
the lock, so its run is `Begin`, `Publish`, `Finish`, with anything in between. How rows of
runs change is the subject of `GenerationRuns` and `VideoRuns`.

- `Noted` is `upstream_changes.py`: a change of the inputs is noted beside a result and takes
  nothing away. Time is the number of runs so far, which is what its comparison of two time
  stamps comes to (`Older`). `version` is a history field: which inputs these really are.
- `Finish` is `save_image_completion`: whether the run keeps its hands off what people have
  made of the picture meanwhile (`Preserves`) is read at the end. `Recover` is
  `recover_image_generation_output`, `MakeClip` the whole video run under the lock.
- `Select`, `ApprovePicture`, `ApproveClip`, `Reject`, `RevokePicture`, `RevokeClip`,
  `ArchivePictures`, `RestorePictures`, `ArchiveClips`, `RestoreClips`: the same names in
  `production.py` and `candidate_lifecycle.py`. `UseFrame`, `UseSourceVideo` and
  `LeaveSourceVideo` take the picture or the clip from the source video.
- `Edit`, `EditShot`: changes of the inputs; `Enter`, `Advance`: the gates of the steps.

## 3. Runs

| Run | Distinct states | Question |
| --- | --- | --- |
| `accounts` | 1,463,000 | Do sessions, passwords, phones and leases stay consistent when logins, changes of either, administration, renewals and lease calls interleave, each with what it read earlier? |
| `edit_fence` | 982,000 | Do two batch requests and a tab, competing for two projects, only write under their own leases, and give the short ones back, whichever call raises? |
| `image_batch` | 826,000 | Does one batch of two pictures, with stop, resume, a user who cancels and retries its runs, and a crash or trashing, pay once and end settled? |
| `image_batch_live` | 339,000 | Do two batches and single generations of one picture, with a crash, a fault of the store or a failing task, have at most one live run, keep what may be bought, and end? |
| `video_runs` | 145,000 | Does a run of two videos, cancelled, answered with garbled replies and restarted twice at any point, forget no job that may be paid for? |
| `video_runs_live` | 242,000 | Is a run that is over really over, is nothing paid twice, and does every run end, when a user cancels and retries, replies are garbled, missing or wrong, and the process restarts? |
| `local_jobs` | 253,000 | Do the jobs of both services keep their terminal states, deliver nothing after a failure and end, with an error at any of their steps? |
| `storage_sync` | 111,000 | Does what is due arrive, once and truthfully, when calls are lost, either side stops, another server is paired and both archives are purged? |
| `storyboard` | 260,000 | Is a paid answer kept and an edit spared, wherever the writing of a storyboard stops, and does every attempt end? |
| `adoption` | 814,000 | Do decisions and results, in any order, leave what is adopted usable and its flag truthful? |
| `image_batch_stale_preview`, `video_retry_crash` | | The disagreements of section 6: TLC finds the violation. |

Each module has one type invariant. The other properties:

| Property | Kind | What it says | Run |
| --- | --- | --- | --- |
| `SessionsCurrent` | invariant | a session was opened with the hash and the phone that are stored now, for an active user | `accounts` |
| `LeasesBacked` | invariant | a lease row, live or expired, has its session | `accounts` |
| `RenewalNeverRevives` | action | a session that is gone stays gone, none outlives its absolute limit | `accounts` |
| `HolderKeepsLease` | action | a live lease keeps its holder, whatever time others read before the lock | `accounts` |
| `CommitsOwnLeases` | action | a commit happens under the request's own leases and session | `edit_fence` |
| `ShortLeasesEnd` | invariant | a short lease ends with its request; after a broken-off release or a stop of the process at most `LEASE_SECONDS` later; the exception is a session that expired before the release | `edit_fence` |
| `CleanupSparesSuccessor` | action | the release in `finally` leaves a successor's lease alone | `edit_fence` |
| `PaysOnce` | refinement | `PaidSubmission`: nothing that may be bought is dispatched again | `image_batch` |
| `StopIsFinal` | action | a batch that is not running dispatches nothing, not even a child that had found it running before it waited for the project lock | `image_batch` |
| `EndedIsSettled` | invariant | an ended batch has no open item | `image_batch` |
| `OneLiveRun` | invariant | at most one run of a picture is queued or with the provider | `image_batch_live` |
| `UnresolvedKept` | action | an item never lets go of a run that may have bought something | `image_batch_live` |
| `BatchEnds` | liveness | an open batch ends | `image_batch_live` |
| `PaidOnce` | invariant | over a run and those it retries, at most one job per ordinal may be paid for, those aside of which a reply was misread | `video_runs_live` |
| `JobsKept` | invariant | the row of a job that may be paid for names it, or says it is not known, unless a reply about it was misread | `video_runs` |
| `OverIsOver` | invariant | a run that is over has no task at work | `video_runs_live` |
| `RunEnds` | liveness | a run ends | `video_runs_live` |
| `OneActiveJob` | invariant | concurrent submissions share the active job of a subject | `local_jobs` |
| `TerminalStays` | action | terminal states stay, except of a job that is "overtaken" or "unrecorded" | `local_jobs` |
| `NothingLeftBehind` | invariant | a cancelled or failed job has delivered nothing, with the same exceptions | `local_jobs` |
| `StopStartsNothing` | action | an enhancement service that is stopping starts no engine | `local_jobs` |
| `JobEnds` | liveness | a job ends, or is "unsaved" and waits for a restart | `local_jobs` |
| `SyncedIsOnServer` | invariant | a version counts as synced only after the connected server completed a batch with it, and it has an entry | `storage_sync` |
| `OneBatchPerEntry` | invariant | an entry is in one unfinished batch at most, so no batch overtakes a newer one | `storage_sync` |
| `NoResurrection` | action | what was purged on a server stays purged, what was trashed is brought back by a person alone | `storage_sync` |
| `DueIsSynced` | liveness | what a person wants on the server gets there, unless a file it takes was purged | `storage_sync` |
| `SavedAnswerReused` | invariant | the model is not asked again for inputs whose answer has been saved | `storyboard` |
| `EditStands` | action | a worker puts its manifest over no edit that was there when it began | `storyboard` |
| `StepEnds` | liveness | no attempt keeps running for ever | `storyboard` |
| `AdoptedUsable` | invariant | what is adopted is a candidate of its own picture or clip that nobody has rejected or deleted | `adoption` |
| `FlagsTellAge` | invariant | where the flag beside an adopted result is off, its prompt and its images are the current ones | `adoption` |
| `ChoicesKept` | action | no result that comes in takes back an adoption, a selection in its own run, a rejection or a deletion | `adoption` |

`PROJECT.json` names, for every property of every passing run, a small mistake in the
code's place that the property catches.

### Bounds

| Run | Instance | Why it is enough |
| --- | --- | --- |
| `accounts` | owner and a member, 2 sessions, 2 editors, 1 project; clock to 4, at most 2 hashes and 2 phones a user, 1 invitation; session 2, absolute limit 3, renewal 1, lease 2, invitation 2, busy wait 1 | leases of different projects do not touch each other; two sessions, hashes and phones give every race of an old password, phone or session with a new one; the clock passes every limit and an old reading of it falls on either side of an expiry |
| `edit_fence` | 1 user, 1 session, 1 tab, 2 requests, 2 projects; clock to 3, session 3, lease 2 | two requests and a tab give a predecessor, a successor and a bystander; two projects give a request that is refused at its second lease; passwords and phones do not change here, `accounts` has them. The lease of a release that raised lives on while the clock passes its end |
| `image_batch` | 2 pictures, 1 batch, 1 user, 3 runs, 1 of them by the user, 1 crash or trashing | two pictures for the batch lock and a partial end; the third run is the one after a resume or a retry |
| `image_batch_live` | 1 picture, 2 batches, 1 user, 2 runs, 1 by the user, 1 crash or fault | the two batches and the single generation compete for the same picture |
| `video_runs` | 2 ordinals, 1 user, 1 run, 2 restarts; cancellations and garbled replies | a run that stops between its ordinals, is resumed, and stops again; what a retry takes over is the matter of the other run |
| `video_runs_live` | 1 ordinal, 1 user, 2 runs, 1 restart; cancellations and garbled replies | ordinals are handled one after the other; a request races the task at each of its steps |
| `local_jobs` | both services, 2 subjects, 2 users, 2 jobs, 1 restart | one job waits for the slot that the other has; two users submit for one subject or cancel one job; any number of the errors of `LateError`, `ClaimNothing` and `FailUnsaved` |
| `storage_sync` | 1 entry of 2 files, 2 servers, 2 versions, 3 batches, 1 trouble | two versions for a batch that is older than the entry; the third batch is the one after another pairing; two files for an upload that stops half-way. Two entries that share a file only matter to purging, which `OnlyOf` has |
| `storyboard` | 2 inputs, 2 attempts, 2 shots, 3 revisions, 2 troubles | an attempt that is continued and one for other inputs; one shot compiled and one to come; an edit between two revisions of the task's own |
| `adoption` | 1 picture and the clip, 2 runs, 3 candidates, 1 edit of each | a result that comes in beside an adopted one, and one of its own run that was selected early |

`MaxRuns` bounds what users ask for, never what a batch has promised (`Room`), so a
bound does not keep a batch from ending. `image_batch` has no `fault`: after a fault
of the store a user's explicit retry of a run that the item no longer follows is
followed by the batch's own submission, see section 6. Its retries are also why
`OneLiveRun` is checked in `image_batch_live`, which has none. The passing runs leave out, as
`Hazards`, what the properties do not hold with (section 6): `video_runs_live` a crash inside a
retry, `storage_sync` a task that is started while a disconnection waits, `storyboard` a
reader between the row and the task of an attempt, and `adoption` edits of a whole shot beside a
first picture of another status, rejections beside an adopted result, retries after an edit and
replaced images beside unreviewed clips. Where instead single jobs are what a property has to except, the run
has the hazard and the property names the job's history: the misread replies of the video runs and
the mishaps of `local_jobs`.

Larger instances of `Adoption` were checked apart from the runs, without a violation: one
picture with 3 runs and 2 candidates, 2 runs and 4 candidates, 3 candidates and 2 edits
(up to 4.5 million states), and two pictures with 2 runs, 2 candidates and 1 edit (2.8 million); with
4 runs and 4 candidates, too many states to finish, all behaviours of up to eleven steps.

Deadlock is not checked where the system may stop: bounded users have nothing left to
ask for, and everything has ended or is synced. In `accounts` and `edit_fence` it is.

Symmetry is used in runs without liveness: editors and sessions (`accounts`), requests
(`edit_fence`), pictures (`image_batch`).

## 4. Fairness

- `ImageBatch`: a batch task and its children take their steps, a claimed run gets an
  answer, a request that has begun finishes. The event loop schedules every ready
  task, semaphores and locks are FIFO, and every provider call has a timeout.
- `VideoRuns`: the same for the steps of a run's task; "no answer" (`HearNothing`) and the
  deadline of the poll loop (`Timeout`) are among them. Nothing is assumed of the
  provider: `Provide` has no fairness.
- `LocalJobs`: strong fairness of a task's steps. A task waits for its state lock and for
  the worker slot, which requests and other jobs take and give back; asyncio hands both
  on in the order of waiting, so a task that can get them again and again does get them.
  Engines run subprocesses with a time limit. An error is one of the steps a task may take: fairness
  takes neither side.
- `StorageSync`: the task's steps (`WorkerStep`; the client times out after a minute), the
  restart of the task (`EnsureWorker`, called at start and with every admitted generation), the
  end of a disconnection, a commit on the server. Strong fairness of `CleanUp`: a batch that
  gets no chunk again and again is past its seven days some time. `DueIsSynced` has two premises
  of its own: people at the server stop trashing and restoring some time (`PeopleRest`), and no
  file that is needed was purged.
- `Storyboard`: the event loop runs a request and a task to their ends and the author has a time
  limit. `Recover` is fair because the client reads the workspace every two seconds while a step
  is running (`src/apps/web/src/skill-workflow/SkillExperience.jsx:1091`), and reading it recovers.

Users, crashes and faults have no fairness anywhere. `Accounts`, `EditFence` and `Adoption`
have no liveness property: leases and sessions end by the clock, and decisions are people's.

## 5. Proofs

TLAPS proves the following for every value of the constants that satisfies the named
assumptions. Liveness under fairness is outside what it can prove, and so is what a recursive
definition computes for every input; `Lineage` in `VideoRuns` is the smallest set that is closed
under being retried for that reason.

### Accounts_proofs

Assumptions: `AccountsAssumption`, `NoRowAssumption`: the owner is a user, durations and
bounds are natural numbers, `NoRow` is no row. Any number of users, tokens, editors and
projects.

| Theorem | Statement |
| --- | --- |
| `AccountsTypeCorrect` | `AccountsSpec => []AccountsTypeOK` |
| `RevocationComplete` | `AccountsSpec => []SessionsCurrent` |
| `NoLeaseLeftBehind` | `AccountsSpec => []LeasesBacked` |
| `RevocationWins` | `AccountsSpec => RenewalNeverRevives` |
| `LeasesKeepHolders` | `AccountsSpec => HolderKeepsLease` |

- The two invariants are proved together. `SessionsCurrent` is not inductive alone: a login that issued a token twice could
  overwrite a session. `TokensRemembered` (a token that opened a session has a holder)
  excludes it. A change of the hash, phone or status of a user and the deletion of the user's
  sessions are one transaction, which is what both theorems rest on; the lemma
  `DropAccessEffect` says what that deletion does.
- `RevocationWins` adds `SessionsBounded` (no expiry beyond the creation time plus the
  absolute limit). Only a login makes a missing session appear, and only under a fresh
  token (`LoginOpens`); only a renewal moves an expiry (`RenewalExtends`).
- `LeasesKeepHolders`: identity transactions delete leases with their sessions
  (`LeasesFollowSessions`, from `LeasesBacked`); a lease call that read the time before it
  waited for the lock looks at an earlier time, at which a lease that is live now was live
  too (`LeaseCallsRespectHolder`).

### EditFence_proofs

Assumptions: those of `Accounts_proofs` and `EditFenceAssumption`: projects are numbers,
tabs and requests are different editors.

| Theorem | Statement |
| --- | --- |
| `TypeCorrect` | `Spec => []TypeOK` |
| `RequestsAreClients` | `Spec => AccountsSpec` |
| `WriterKeepsLeases` | `Spec => []WriterOwnsLeases` |
| `FencedCommits` | `Spec => CommitsOwnLeases` |
| `ShortLeasesGivenBack` | `Spec => []ShortLeasesEnd` |
| `SuccessorSpared` | `Spec => CleanupSparesSuccessor` |

- `RequestsAreClients` is a refinement: what batch requests, their clean-up and process
  stops do to the identity database are steps of `Accounts` or stutters, so every theorem
  above also holds of the composition.
- The inductive invariant is `TypeOK`, `WriterOwnsLeases` and `WriterHoldsLock` (an open
  transaction has the write lock). A step of another request or of the identity database
  that moves a lease is enabled only when the lock is free, so no transaction is open
  (`OpenTransactionsKept`).
- A commit then owns its leases by `WriterOwnsLeases`, its session exists by
  `LeasesBacked`, and its user is active by `SessionsCurrent`.
- `ShortLeasesEnd` is not inductive alone: a clean-up that gives nothing back (its session is no
  longer valid) may leave a lease only if that lease is of this very session. `OwnSession` says so of
  every request at work, and `InvalidStays` that an existing session which is no longer valid does
  not become valid again, so such a lease can never be used. `NothingTaken` says that a request
  which has not begun has nothing to give back. `LeasesAhead` says that no lease ends later than
  `LEASE_SECONDS` from now, which bounds what a broken-off release or a stop of the process leaves;
  afterwards nobody renews it, as the editor id was the request's own.
- A release in the clean-up deletes a row only if session, editor and token are the request's
  (`ReleaseLease`), so a successor is spared whatever was read before; `NothingTaken` excludes that
  the set of taken leases shrinks in any other step.

### ImageBatch_proofs

Assumptions: `RunsAssumption`, `BatchAssumption`: finite sets of pictures, batches and users (`Room`
counts the rows they may still insert), natural bounds, hazards among the six. Any number of
pictures, batches, users, runs, restarts and faults.

| Theorem | Statement |
| --- | --- |
| `TypeCorrect` | `Spec => []TypeOK` |
| `EndedBatchIsSettled` | `Spec => []EndedIsSettled` |
| `StoppedForGood` | `Spec => StopIsFinal` |
| `NeverLetGo` | `Spec => UnresolvedKept` |
| `OneRunAtATime` | neither `cancel` nor `retry`: `Spec => []OneLiveRun` |
| `SubmittedOnce` | with `fault` or `trash` one batch, with `fault` no `retry`: `Spec => PaysOnce` |

The first four hold under every hazard. The inductive invariant adds to `TypeOK` and
`EndedIsSettled`:

- `RowsOK`: what a row's status tells about what was bought, except where a cancellation has
  overwritten it; a task at work has a running row; when a batch inserted a row, every earlier row of
  the picture had left queue and provider, and those never return; a cancellation that has been saved
  has ended what it cancels;
- `ItemsOK`: an item names a run of its own picture and its child the same one; an item without a
  child in a running batch is over; a child that has checked has a running batch, because it has the
  batch lock that a stop waits for (`StoppedForGood` rests on this, not on a guard of `Dispatch`, which
  looks at the picture's live runs only); a batch that is not open has no task, and a task that is not
  running no children; a stopping batch has no item left to dispatch. `EndedIsSettled` follows from
  these at the last child, at a failing task and at a restart;
- `RoomOK`: the rows there are, those that running batches owe and those of retries under way are at
  most `MaxRuns`. It is what makes `TypeOK` inductive (a dispatch never lacks a place), and shows
  that the bound stops users only.

Each action is shown to do one of a few things to the rows (`RowSteps`: they go on, a user adds one, a
batch dispatches one) and to the batches (one item, one child or one batch changes), and the parts of
the invariant are shown once for each of these.

`OneRunAtATime` then needs only that dispatch and `create_image_run` look at the live runs under the
project lock. With cancellations it fails: a cancellation that read a row as active saves
`cancellation_requested` over an end that came meanwhile, beside the run that was allowed since. With retries it fails because they hold no lock (section 6).

`SubmittedOnce` is the refinement of `PaidSubmission`. That no picture is submitted while an earlier
submission of the same batch is open (it waits, runs, or may have bought something) has the
strengthening `OneOpen`: a picture has at most one open submission, and that submission is held by
something that keeps the batch from dispatching again. It is held by

- the item that names it, or the child that inserted it and has not saved its membership yet;
- an item that names another run which `resume` will never take for a harmless failure (`Sticky`), or
  that is completed or skipped;
- nobody, after a stop of the process or a failing save between dispatch and membership, while its row
  is still queued and unscheduled (`Orphan`). The batch then is open without a running task or
  interrupted, and only `recover()` comes between it and the next resume: it links the run to the
  item.

The last one is where the hypotheses come from. With two batches, the other one may follow and finish
the orphan, so the row is no longer queued when the first is resumed; with retries after a fault, a
user may do the same to it. Section 6 has both sequences. TLC checks `PaysOnce` with `crash`,
`trash`, `cancel` and `retry` on one batch; the theorem also covers any number of batches without
`fault` and `trash`.

### VideoRuns_proofs

Assumptions: `VideoAssumption`: at least one ordinal, natural bounds, hazards among the four. Any
number of ordinals, users, runs and restarts. One theorem names the hazard it excludes; the others
hold under all four. The properties except the jobs about which a reply was misread, so garbled replies
and a 404 or 409 to a cancellation are no reason for a hypothesis.

| Theorem | Statement |
| --- | --- |
| `TypeCorrect` | `Spec => []TypeOK` |
| `OverForGood` | `Spec => []OverIsOver` |
| `NothingForgotten` | `Spec => []JobsKept` |
| `NothingPaidTwice` | `"crash_in_retry" \notin Hazards`: `Spec => []PaidOnce` |

`video_runs` and `video_runs_live` have the same three hazards; `video_retry_crash` shows that the
exclusion in `NothingPaidTwice` is needed. The inductive invariant adds to `TypeOK` and `OverIsOver`:

- `SoundRows`: every copy of a row (the durable one, the task's, a cancellation's, a retry's) that
  gives a job up names a job that is lost, cancelled or misread;
- `RunsInOrder`, `LockKept`: only the newest run is queued or generating, and the project lock has
  one holder. A cancellation that read its run too early can only make an ended run
  `cancellation_requested` again, which no task acts on;
- `WorkerSees`: the task's copy, read once, knows of every row there is and its id. It is ahead of
  the rows by one id between an answer and its save, and behind them only in what a cancellation
  saved;
- `CancelSees`, `CopyWaits`: an id once read stays the row's id; a run whose rows are being copied
  has no task, no job and no row yet to be copied;
- `JobsApart`: an ordinal of a run is submitted once. `Len(job)` is bounded by it (`JobsBounded`);
- `Kept`: in every run of a lineage, the row of an ordinal, or the entry still to be copied into it,
  accounts for each job of that ordinal that may be paid for and was not misread: by its id, or as an unknown outcome
  in the run that submitted it. An ordinal without a row has therefore no such job (`SubmitStep`),
  and a run without an unknown outcome passes all of them to its retry by their ids
  (`RetrySaveStep`, `LineageGrows`). `JobsKept` is `Kept` for the run that submitted, `PaidOnce`
  for the lineage.

`RowsFrame` says once for all what a save must do for `Kept` to stand (`RowGoesOn`); each action
that saves a row is shown to do it.

### LocalJobs_proofs

Assumption: `LocalJobsAssumption`. Any number of subjects, users, jobs and restarts, and an error at
any step. `CleanFailures` and `TerminalIsFinal` speak of the jobs that are `Orderly`: neither claimed between
the halves of their cancellation nor hit by an error after their result was committed. Both do occur
in the code (section 6); the theorems say that they are the only ways out, and that they
spoil the job they happen to and no other. Enhancement jobs know the first one only, as they are
delivered by their row.

| Theorem | Statement |
| --- | --- |
| `TypeCorrect` | `Spec => []TypeOK` |
| `SharedJob` | `Spec => []OneActiveJob` |
| `CleanFailures` | `Spec => []NothingLeftBehind` |
| `TerminalIsFinal` | `Spec => TerminalStays` |
| `ShutdownStartsNothing` | `Spec => StopStartsNothing` |

The inductive invariant adds to `TypeOK` and `OneActiveJob`:

- `RequestsApart`: two submissions, or two cancellations between their halves, are never
  about the same job (the locks of subject and job), and a stopping service has none;
- `NotYetScheduled`: a job whose submission is still on its way has no task;
- `CancelSeesTruth`: a row a cancellation has read is still active when it saves, because
  commit, completion and failure wait for the state lock; what was read as running is not
  queued again; and what was read as queued still is, if the job is orderly, for a claim in between
  marks it as overtaken;
- `RowFollowsTask`: an orderly job whose task is at work is running or being cancelled;
- `DeliveredAccounted`: an orderly job that was delivered is between commit and row,
  succeeded, or interrupted;
- `WaitingAreStopped`: what waits in a stopping enhancement service has its event set.

### StorageSync_proofs

Assumptions: `SyncAssumption` (every entry has its files, no server is `NoTarget`), and
`NoLateStart`: the task is not started again while a disconnection waits, which does occur
(section 6). Any number of entries, files, servers, versions, batches and troubles.

| Theorem | Statement, each under `NoLateStart` |
| --- | --- |
| `TypeCorrect` | `Spec => []TypeOK` |
| `SyncedReceipts` | `Spec => []SyncedIsOnServer` |
| `OneBatch` | `Spec => []OneBatchPerEntry` |
| `NothingResurrected` | `Spec => NoResurrection` |

A receipt speaks of the server connected now, and a commit of the server it was sent to. What
ties them together is the rest of the invariant:

- `WorkerConnected`: a task is at work only for a confirmed connection that is not being left, on
  an unfinished batch, and what it calls is the server the receipts are of. This is what
  `late_start` breaks;
- `CommitsWrite`: the entries a commit has written are on its server, and so are all entries of a
  completed batch: `commit()` writes them before it completes the job, and a purge leaves the row;
- `Receipts`: where something is synced a server has been selected;
- `Capturing`: an entry whose files are being kept may get another version (for the types).

Every step is shown to be good for the rest (`StepGood`: types, the batches keep what they send,
no new open batch but a built one, no entry of a server forgotten), so `OneBatchPerEntry`,
`CommitsWrite` and the receipts need one argument each, not one per action.

### Storyboard_proofs

Assumptions: `StoryboardAssumption`; for the last two also `NoPeek`: nobody reads the workspace
between the row and the task of an attempt. Any inputs, shots, attempts, edits and troubles.

| Theorem | Statement |
| --- | --- |
| `TypeCorrect` | `Spec => []TypeOK` |
| `AnsweredOnce` | `NoPeek`: `Spec => []SavedAnswerReused` |
| `EditsNotCovered` | `NoPeek`: `Spec => EditStands` |

The inductive invariant adds to `TypeOK`:

- `OneAttempt`: only the last attempt can be running, and one worker at most is at it;
- `CkptKnown`: a checkpoint that a row or a worker names is there, for the same inputs, and a
  worker's copy of it is the artifact;
- `OneAnswer`: the same inputs have one answer at most, a completed checkpoint means a success, and
  whoever asks or is about to ask has none. It is inductive because an attempt begins only without
  a checkpoint or to continue the one there is;
- `EditsSeen`: a worker's copy knows of every revision there was when it began, and since then only
  whole edits have been made.

### Adoption_proofs

Assumptions: `AdoptionAssumption`, and `NoSharedEdit`: no edit of a whole shot while its first
picture has another status than the shot (section 6); for the last theorem `NoHazards`, which excludes
the other three as well. Any number of pictures, runs, candidates and edits.

| Theorem | Statement |
| --- | --- |
| `TypeCorrect` | `NoSharedEdit`: `Spec => []TypeOK` |
| `AdoptedStaysUsable` | `NoSharedEdit`: `Spec => []AdoptedUsable` |
| `DecisionsStand` | `NoSharedEdit`: `Spec => ChoicesKept` |
| `FlagsAreDated` | `NoHazards`: `Spec => []FlagsTellAge` |

The invariant of the first three is `TypeOK /\ AdoptedUsable`, which is inductive as it stands. Each step does one of
three things to a picture or clip: it keeps what is adopted and its candidate's status, takes the
adoption back together with the status, or adopts a usable candidate of the same picture or clip
(the lemmas on `Keeps`, `Opens` and `Adopts`); candidates are added at the end and never change
their run. `DecisionsStand` rests on it: a result that is not preserved meets a picture without an
adopted candidate (`AdoptedAt`).

`FlagsTellAge` compares inputs, which the code does not keep; the code compares time stamps. The
strengthening `Dated` says why that is enough:

- `FlagDated`: where the flag is off, the run of what is adopted was created after the last change
  noted beside the item;
- `RunDated`: a run created after the last change has the current prompt (no retry brings an older
  one), and a clip is made while nobody decides;
- `ClipDated`: a clip of a run after the last change was made from images that are still adopted,
  because an image that is replaced or taken back is noted as a change of the clip.

The last one failed at first, and rightly: the model let a frame of the source video replace an image
without a note beside the clips made from it. TLC has the counterexample, at 4 runs and 4 candidates,
beyond the run's bounds: the clip of the old image is later adopted with its flag off. The code does
the same (`approve_source_keyframe` notes a replacement only with impact), so `UseFrame` now belongs to
`quiet` like the other ways of replacing an image (section 6).

### What is only model-checked

All liveness: `BatchEnds`, `RunEnds`, `JobEnds`, `DueIsSynced` and `StepEnds`. Every invariant and
every action property of the runs is stated by a theorem, some under hypotheses on the hazards that are
named with it. `WriterKeepsLeases` and `RequestsAreClients` are proved and no run repeats them.

## 6. Where the code disagrees with its documents

Each of these two is a run whose property TLC finds violated.

| Run | What the code does |
| --- | --- |
| `image_batch_stale_preview` | `image_batches.py:3` says unknown outcomes are never resubmitted automatically. Whether the last run of a picture is unknown is looked at in preview only; a single generation that becomes unknown while the item waits is followed by the batch's submission (`image_batches.py:331`). `PaysOnce` speaks of the batch's own runs and holds. |
| `video_retry_crash` | A retry's row is saved before its source's provider tasks are copied; a restart in between schedules the retry without them, and it submits what is still being worked on (`production.py:6442`). |

What follows was met while modelling. Where a constant is named, TLC shows it with that member
added to `Hazards`; the rest was read in the code and is outside the models.

Projects and leases:

- A release that meets a locked identity database ends the release loop of the request, since only
  `AccountError` is caught there (`accounts/authorization.py:319`; sqlite waits 15 seconds,
  `accounts/repository.py:166`). This lease and the ones after it keep their projects from everyone else
  until they expire; `ShortLeasesEnd` bounds how long.

Image batches and runs:

- After a resume, `recover()` links an item without a run to the *first* run tagged with batch and
  picture, which is the earlier one; the run that was being dispatched at the crash stays queued and
  is followed by nobody (`image_batches.py:625`).
- `resume()` looks at the latest batch only, so two batches of a project can be open
  (`image_batches.py:539`); `OneLiveRun` keeps them from submitting the same picture at once.
- Retrying an image run does not hold the project lock: two retries both find no live
  run and both insert one (`production.py:6983`, against the refusal at `production.py:6655`).
- After a fault of the store, a user's retry of an unknown run and a resume of the batch
  submit the same picture twice.
- A run whose membership could not be saved belongs to no item. With two open batches the other one
  finds it by its picture, schedules it and follows it to its end; the resume of the first then finds
  no run of its own under way and submits the picture again (`image_batches.py:539`). A trashing does
  the same when its pause comes between dispatch and membership while it waits for the project lock.
  `SubmittedOnce` therefore assumes a single batch with `fault` or `trash`.
- A second trashing cancels a batch task in the handler of its first cancellation, which
  skips the save of the interrupted items (`image_batches.py:494`).

Video runs:

- A provider's reply that is not JSON is saved as a refusal of a submission it may have
  accepted (`video_generation/providers/seedance/adapter.py:24`).
- A cancellation answered with 404 or 409 counts as cancelled, also when the job has just
  succeeded or goes on (`video_generation/providers/seedance/adapter.py:158`,
  `bailian/adapter.py:138`, `gemini_omni/adapter.py:267`); the row says CANCELLED
  (`video_generation/orchestrator.py:678`) and a retry submits, and pays, again.

  Both runs contain both. `JobsKept` and `PaidOnce` except these jobs (`misread`); without the
  exception TLC finds either one violated.

Depth and enhancement jobs:

- `cancel()` reads a job as queued and saves CANCELLED under the state lock; the claim takes the
  store's lock only and can fall in between. The job says cancelled, runs to its end and delivers
  (`control_assets/jobs/service.py:219`; "overtaken").
- The `try` of a depth job goes on after its result was committed: with the save of its row
  (`control_assets/jobs/service.py:362`) and the diagnostics (`:363`). A failure of either saves FAILED
  over a delivered result (`:365`; "unrecorded").
- A claim or a save of the except branch that raises leaves a job active without a task, and
  its subject without another job, until the next restart ("unsaved").

  The run contains all three; `TerminalStays` and `NothingLeftBehind` except the jobs of the first two,
  `JobEnds` those of the third.

Account storage:

- `start()` or an admitted generation while `disconnect()` waits for the server starts a new task,
  which outlives the connection and goes on sending to the server that was left; its receipts then
  count for the next one (`account_storage/sync.py:228`, `late_start`).
- A batch that names an entry purged on the device ends the task with an error that `worker()` does
  not catch, each time it is started again (`account_storage/sync.py:384`; `DueIsSynced` excepts it).
- When a batch is completed, its receipt is lost and a file of it is purged on the server,
  the repeated upload finds neither part file nor blob and fails for ever (`account_storage/transfer.py`;
  `DueIsSynced` excepts it).
- `release_finished()` releases the reservation of a run whose row is not saved yet
  (`account_storage/sync.py:321`); a purge unlinks files inside its transaction; receiving an asset
  overwrites what was edited by hand.

Storyboards:

- The workspace read between the row and the task of an attempt calls the attempt failed while its
  task works; it may say so after the attempt has succeeded (`skill_workflow/service.py:2673`, `peek`).
- A cancellation or stop during the author's call leaves no request id, so the paid call is repeated,
  against what `recover()` says of itself (`skill_workflow/service.py:4965`).
- A stop between the save of the manifest and that of the checkpoint's new base makes the next
  continuation refuse with a conflict that blames an edit by hand.
- A revision's number is read and saved in two steps, so two may tie; `put_shot_manifest` takes no
  lock and checks no revision; `retry_step` creates a pending row that nothing executes.

Production decisions:

- An edit of image fields or locks of a whole shot copies the shot's aggregate status and flag onto
  the first picture: an adopted first picture beside an unadopted second one is no longer approved,
  does not count at the gate and is cleared by the next late result (`production.py:11309`,
  `edit_shot` with two pictures). `upstream_changes.py:1` says: "Input freshness is advisory and never
  revokes a human adoption decision." The web client sends the locks this way.
- Rejecting a candidate beside an adopted clip leaves the clip its adoption and the rejected
  candidate's flag; rejecting another image takes the adopted one back without noting the clip
  (`reject_beside`).
- A retry after an edit of the prompt repeats the old prompt with a new time stamp, so its result
  counts as up to date (`retry`). An image replaced, also by a frame of the source video
  (`production.py:5779`), while only unreviewed clips were made of it leaves them unnoted (`quiet`).
- A picture published early and adopted while its run works, which then fails, stays adopted and does
  not count at the gate. A late result moves the project back to the images. Adopting one candidate,
  selecting another and withdrawing the first leaves two selected.

Timeline exports (not modelled):

- A list of exports between the row and the task of a new one saves it as interrupted, and a second
  request for the same export starts another (`timeline_export.py:309`).

## 7. Not modelled

- *Timeline, preview and export*: the document is refused by revision number; rendering is ffmpeg.
  Export jobs have hazards of the kind `LocalJobs` shows (above), in one small service.
- *Account storage beyond synchronisation*: limits, reservations and grace of the quota ledger,
  bootstrap, object replicas, assets; chunk offsets and hashes; the expiry of device tokens.
- *Skill workflow beyond the storyboard*: briefs, styles, gates, look tests, the later stages (G5 to
  G8) and the rewriting of single shots are documents that each follow from the last, validated and
  saved in one request; their branching is in the data.
- *Production projects beyond one shot's decisions*: the revision history, groups of shots with one
  clip, clip preparation, budgets and estimates; optimistic revisions inside the project lock, so a
  lost update there is refused by a number.
- *Identity: bootstrap and creation of accounts* (once, before any session), *login
  throttling* (a counter in one transaction), *storage device tokens, audit rows, read
  marks*.
- *Providers' protocols, downloads, prompt composition, media staging and managed assets, ffmpeg,
  depth and enhancement engines*: they appear as an answer, a failure or no answer.
- *Trashing a project while a video run generates, several shots at once*: the project
  lock makes them wait for each other.
- *Analysis pipeline, link ingestion, libraries, settings*: one task per record that a restart marks
  interrupted, and single-record reads and writes.
- *Migration and deployment scripts*: run by hand with the service stopped.
- *Web client*: whatever it may send arrives as a request at any moment; that it reads the workspace
  while a step runs is the only thing assumed of it.

Most of the source that no module maps is of these kinds: request and document validation, prompt
texts, media commands, provider protocols, and the user interface. It is long, has little control a
model checker would exercise, and is left to the repository's tests.

## 8. Plan

Done, in the order of what is worst when it goes wrong: who may write (`Accounts`,
`EditFence`), what is paid for (`ImageBatch`, `VideoRuns`, `Storyboard`), what is delivered and kept
(`LocalJobs`, `StorageSync`), what people have decided (`Adoption`), and the proofs of every safety
property of all of them.

What would add most next:

1. A ledger for `account_storage/service.py`: used and reserved bytes against the limit, with the
   release of reservations whose run row is not saved yet.
2. Export and preview jobs: creation against listing, cancellation against the last save.
3. `Adoption` with a group of shots that share a clip, and with clip preparation.
