# tg-sign-plus in TLA+

tg-sign-plus runs scheduled "sign-in" tasks on Telegram accounts: a FastAPI
service on one asyncio event loop, with an APScheduler, a database, and one
Telegram client per account. Nearly everything that can go wrong in it happens
between two `await`s. This directory holds specifications of those parts, the
TLC runs that check them, and proofs checked by TLAPS.

    tlc  -config TaskExecution_safety.cfg MCTaskExecution
    tlapm TaskExecutionProofs.tla

`PROJECT.json` lists components, runs, hazards, findings and theorems, and maps
every definition to the source lines it stands for. Paths below are relative to
`src/`.

## 1. The system

| component | state it keeps | operations | talks to |
|---|---|---|---|
| Task execution (`backend/services/sign_task_executor.py`, `sign_tasks.py`) | `_starting_tasks`, `_active_tasks`, `_account_last_run_end`, log buffers, one asyncio task around each signer | `start_task_in_background`, `run_task_with_logs`, `_run_signer_once_with_timeout`, `_close_client_with_timeout` | account locks, semaphore, signer, history |
| Account locks, global semaphore (`backend/utils/account_locks.py`, `tg_session.py`) | an `asyncio.Lock` per account, one `asyncio.Semaphore` | acquire, release | task execution, both logins, chat refresh, session probe |
| Scheduler (`backend/scheduler/__init__.py`) | APScheduler jobs `sign-*` and `sign-exec-*`; the row's `next_scheduled_at` | `sync_jobs`, `_job_run_sign_task`, `_execute_sign_task`, `_schedule_range_execution`, restart recovery and catch-up | configuration store, task execution |
| Task management and configuration store (`sign_task_management.py`, `sign_task_config_repo.py`, routes) | the task rows | create, update, pause and resume, import, two ways to delete | scheduler |
| Run history (`sign_task_history.py`) | run records and flow lines; `last_run` on the row | save, read, clear, export, expire | scheduler (catch-up reads `last_run`) |
| Telegram client manager (`tg_signer/client_manager.py`) | `_CLIENT_INSTANCES`, `_CLIENT_REFS`, `_CLIENT_ASYNC_LOCKS` | `get_client`, `__aenter__`, `__aexit__`, `close_client_by_name` | signers, chat refresh, task cleanup, account deletion |
| Telegram logins (`backend/services/telegram.py`) | `_login_sessions`, `_qr_login_sessions` | phone start, verify, cancel, expire; QR start, status, password, cancel; delete account; probe | account locks, semaphore, session store |
| Chat cache (`sign_task_chat_cache.py`) | cached chats, their age | read, search, refresh, drop an invalid session | account lock, semaphore, client manager |
| Event runner, signer core (`tg_signer/event_runner.py`, `core.py`) | one chat's attempt, epoch, queue and result | `run`, `handle_message`, retries, callbacks, history scans | Telegram |
| Realtime logs (`task_flow_logger.py`, websocket in `routes/sign_tasks.py`) | a trimmed buffer and its published offset | append, snapshot, follow | task execution, browsers |
| Authentication (`core/auth.py`, `routes/auth.py`) | refresh-token rows | login, rotate, revoke | database |
| Pure parts (wait budget, timeouts, run summary, diagnostics, contracts, presets, schema) | none | functions of a configuration or a finished run | task execution |
| Everything else (frontend, CLI, AI tools, notifications, audit, migrations) | none the above depends on | I/O | |

What is hard in it:

* **Interleaving.** A scheduled job and a manual start of one task pass
  different gates. Other requests re-run `sync_jobs` over every task at any
  time. A chat refresh takes a shared client before it has the account's lock.
* **Cancellation and timeouts.** Every wait of a run has a timeout; a signer
  that timed out is cancelled and abandoned, and may go on. Shutting the
  scheduler down cancels its runs at whatever `await` they are in.
* **Retries.** Two nested loops retry a signer inside one slot.
* **Crash and restart.** Jobs are in memory; plans, rows and `last_run` are
  committed one after another.
* **Stale reads.** The cooldown is computed before it is slept through;
  `sync_jobs` works on a snapshot; QR polls answer sessions already replaced.

What makes each component correct:

* *Task execution*: a task is reported as running exactly while it is; never
  runs twice at once; the lock and the slot are given back on every path; an
  account rests between runs; a run ends.
* *Scheduler*: jobs follow rows; a plan that is shown is carried out; a paused
  task is left alone; every day has its run, and one.
* *Client manager*: a retired client is not handed out; counts agree with the
  users inside; no connected client is forgotten.
* *Logins*: session A never removes or closes its replacement B; lock and
  client are released on success, failure, cancellation and expiry; a pending
  code does not hold the lock.
* *Event runner*: a message is acted on once in an attempt; the result is not
  missed and nothing begins after it; what was given up can be tried again.
* *Run summary and diagnostics*: what is told of a run is what happened in it,
  though its log is cut at both ends.
* *Realtime logs*: a reader misses no line and sees none twice.
* *Authentication*: a refresh token is spent once.

## 2. The modules

| module | what it is |
|---|---|
| `AccountSlots` | abstract: what account locks and the semaphore promise to whoever drives an account |
| `TaskExecution` | `start_task_in_background` and `run_task_with_logs`, await by await; refines `AccountSlots` |
| `Scheduler` | one task's jobs and plan, under requests, crashes and restarts |
| `PhoneLogin` | the phone logins of one account: start, verify, cancel, expire, close |
| `QrLogin` | the QR logins of one account, which hold its lock over many requests; refines `AccountSlots` |
| `EventRunner` | one chat of a run: entry and response actions, updates, history scans, retries |
| `ClientManager` | the Telegram clients of one account: handed out, entered, left, closed |
| `RunReport` | a run and its log; the summary and the diagnosis made of the log |
| `TaskExecutionProofs`, `SchedulerProofs`, `PhoneLoginProofs`, `QrLoginProofs`, `EventRunnerProofs`, `ClientManagerProofs`, `RunReportProofs` | theorems about those modules |
| `NaturalsFacts` | least and greatest numbers, induction over numbers, as statements about sets |
| `MCTaskExecution`, `MCScheduler`, `MCPhoneLogin`, `MCQrLogin`, `MCEventRunner`, `MCClientManager`, `MCRunReport` | their instances for TLC |

The modules meet at the account's lock. `TaskExecution` has it with its runs;
the logins and `ClientManager` have it with everybody else as an environment
that takes it and gives it back (`Other`). What `TaskExecution` calls a signer
is a chain of `EventRunner`s inside a user of `ClientManager`. `RunReport` tells
`run_task_with_logs` a second time, from the side of what it writes down.
Operators that start with "Faulty" in their comment are plausible bugs, which
the properties must catch; no specification uses them.

### TaskExecution

A run is a coroutine; an action is what it does between two awaits. `pc[r]` is
the await in which run `r` is suspended:

| `pc` | await of the code |
|---|---|
| `created` | a background coroutine before its first step |
| `lock_wait` | `wait_for(account_lock.acquire(), ...)` |
| `cooldown` | the sleep for the rest of the account's cooldown |
| `slot_wait` | `wait_for(global_semaphore.acquire(), ...)` |
| `running` | `asyncio.wait({run_task}, timeout=task_timeout_seconds)` |
| `grace` | the short wait for a cancelled signer |
| `session_retry`, `task_retry` | the sleeps of the inner and the outer loop |
| `settle` | `sleep(2)` after success, with the lock and without the slot |
| `cleanup` | the shielded `_close_client_with_timeout` in the `finally` block |

`starting`, `active`, `lock` and `permits` are the service's fields. `child[r]`
is the asyncio task around `signer.run_once`: `cancelled` once its run timed out
and `detached` once its run was itself cancelled, for `asyncio.wait` does not
cancel what it waits for. `coolLeft` is what the code computes from
`_account_last_run_end`; `restLeft` is history, the rest the account really had
since a run last drove it. `cancelling` holds runs whose `cancel()` is not yet
delivered; delivery replaces the run's next step. `AcquireLock`, `BuildSigner`
and the like are whole segments of `run_task_with_logs`, the early failures
(credentials or session string missing) included.

Left out: the log buffer, the summary and history record, the arithmetic of
timeouts (every bounded wait may end at any moment), the order in which waiters
are served. A second cancellation of a run during its cleanup is not modelled:
nothing in the service cancels a run twice (`RunReport` has the case, for what is
then told of the run).

`AccountSlots` is the contract: an account has one owner, only its owner uses
it, at most `Limit` owners do at once. The refinement maps owners to lock
holders and users to runs between acquiring and releasing the semaphore. QR
logins keep it too, for their one account: the session that has the lock owns it,
and uses it while its client is connected. The clients in `reopened`, which are
connected with no lock held, are left out of `using` (`QrLoginProofs`). A start in
`broken` owns the account for good: only `FairSpec` promises that an owner gives
up, and QR logins implement `Spec`.

### Scheduler

Time is a sequence of instants, `DayLength` to a local day. `row`, `next` and
`lastDay` are persisted; `cron`, `exec` and `queued` are APScheduler's memory: a
job submitted is `queued` until its coroutine takes its first step, which is
where `_job_run_sign_task` reads the row. `Boot` and `PostStartup` are
`on_startup` and `_post_startup`, with requests served between them. `SyncJobs`
is `sync_jobs` as one atomic step (it has no await), with `Restore` for the two
recovery functions. Other tasks appear as the calls of `sync_jobs` their
requests make, `SyncForAnother`. `WriteThenCrash` is a crash between the commit
of a row and the commit that forgets its plan. `ranToday`, `owed` and `done` are
history for the properties.

Left out: cron expressions other than a daily time, time zones with daylight
saving, empty windows, the maintenance job, validation of a configuration.

### PhoneLogin

One account, whose lock is `lock`. An operation `o` is a request's coroutine:
`kind[o]` says which, `pc[o]` is its await, `target[o]` the session it starts or
names by its `phone_code_hash`. A session stands for the record `start_login`
keeps: `pending` is `_login_sessions`, `client`, `timer` and `left` are the
record's temporary client, expiry task and time to `expires_at`; `alarm` is what
is left of the expiry task's sleep, which differs from `left` once a wrong
password moved the deadline.

| `pc` | await of the code |
|---|---|
| `lock_wait` | `async with get_account_lock(...)` |
| `replacing` | the teardown of a session that `start_login` replaces |
| `sending` | the semaphore, `connect()` and `send_code()` |
| `discarding` | the teardown of a client whose start failed |
| `signing` | `sign_in`, `check_password` and what follows up to the stored session |
| `retiring` | `close_client_by_name` |
| `dropping` | the teardown at the end of verify, cancel and close |

`asyncio.wait_for` may cancel an operation in any of them. A teardown is
shielded: it ends first, then the cancellation is raised, which matters only to
`start_login`, in the middle of replacing (`stopping`). `Other` holds the lock
on behalf of runs, probes and chat refreshes.

Left out: the semaphore as a wait of its own (it is part of the await it comes
before), reconnecting a client that lost its connection, the session string and
profile that are stored, names with the same key `account_phone` for different
pairs. Telegram is taken to return a new hash for every code. QR logins share
the lock in their own way, which is `QrLogin`'s subject.

### QrLogin

A session holds the account's lock from `start_qr_login` to the end of
`_cleanup_qr_login`, over many requests, and whoever cleans up releases the
lock, whoever holds it. So `lock = s` is a session's, while an operation `o` is
a request's coroutine with its await `pc[o]` and its login `target[o]`.

| `pc` | await of the code |
|---|---|
| `replacing` | the cleanup of what the account still has registered, before the lock |
| `lock_wait`, `preparing` | the lock; the semaphore, `connect()` |
| `exporting`, `disconnecting` | `ExportLoginToken`; the client of a start that failed |
| `initializing` | `client.initialize()`, when the session is registered already |
| `importing`, `confirming` | a poll: `ImportLoginToken`; the user, the storing |
| `slot_wait`, `checking`, `retiring` | a password: the semaphore, `check_password`, the disconnect |
| `cleaning` | `_cleanup_qr_login` at the end of any of them |

The expiry task is the session's own (`timer`, `alarm`); `left` is the time to
`expires_ts`, moved by tokens and by `_extend_qr_expires`. `Scanned` is the update
that Telegram sends. `cleaning[s]` has two steps, because the client is stopped
before its storage is closed, and a poll that is confirmed in between may store a
session string. `reopened` are clients connected once more by a password request
whose session went away while it waited. `broken` are starts that ended with an
exception between the acquisition of the lock and the `try` (`StartBreaks`:
`build_proxy_dict` on a bad port, the configuration, the client's constructor):
they leave the lock taken and no session that would release it.

Left out: the migrations of a login token between data centres and the fallback
exports (further requests of the same await), and the cancellation of a request:
these routes set no timeout.

### EventRunner

`SignEventRunner` for one chat. Coroutines are named: `Run` is `run()`, `Retry`
the task of `_schedule_retry`, `Scan` the scan of the history, and the task that
handles an update is named by the version of the message it brings. `pc` is the
await each is in: `lock_wait` for `message_lock`; `thinking` (OCR, AI, download),
`acting` (a click or an answer), `asking` and `falling` (the AI fallback),
`follow` (actions that wait for no message), `entry` and `retry_wait` under it;
`reading`, `between`, `scanning` and `waiting` beside it.

| variables | fields |
|---|---|
| `index`, `epoch`, `retryCount`, `result` | `current_response_index`, `attempt_epoch`, `retry_count`, `result` |
| `processed`, `stale`, `attempted` | `processed_versions`, `stale_attempt_versions`, `clicked_versions` and `sent_captcha_versions` |
| `before`, `tracked`, `unhandled` | what a rescue scan leaves out, looks at again, and does not offer unchanged |
| `step` | which entry action, or which press of a click, is being done |
| `acted` | history: how often a version was acted on in this attempt |
| `todo`, `scanned`, `advanced`, `failures`, `suspended` | the scan |
| `actions`, `shown` | the chat's program; the message versions in the chat |

A message is a version number with an identity, the kinds of actions it lends
itself to (`Offers`) and whether its text is the result (`Result`). `Deliver` may
come late, twice or never. `Entry` and `Response` are `build_event_spec`.
Telegram, its users and the AI choose in `Choose`. A hard timeout or an error
of a request is `Fails`; a cancelled request counts as failed. A click may take
several presses, each a step of its own (`PressAgain`): a poem goes through the
buttons of its candidates, and a request that timed out is sent again.

Left out: what exactly a text or a keyboard must look like, the order of several
candidates on one keyboard, several chats behind one dispatcher.

### ClientManager

The registry of one account's key: `registered` is `_CLIENT_INSTANCES`, `refs`
is `_CLIENT_REFS`, `current` is `_CLIENT_ASYNC_LOCKS`, and `owner` says who has
acquired each lock object, for objects are replaced while somebody still holds or
awaits the old one. A user is a run's signer or a chat refresh; it enters its
client (a signer twice, one call inside the other) and leaves it. A closer is
`close_client_by_name`: the worker of a run at its end, or the deletion of the
account, which does not ask for the account's lock; the close of a login under
the account's lock adds no case to these. `Cancel` is the one cancellation of a
signer that timed out, in any await; its worker goes on to close the client and
to end the run, with the signer perhaps still inside (`late`). `ConnectEnds` is
a `connect()` that outlives its caller (`orphans`), `strays` are clients entered
after the key forgot them, or struck off by a failed start of another client.

Left out: how a client is built and stored, the retries of its start.

### RunReport

One run as `run_task_with_logs`, `run_once` and `sign_a_chat` tell it: its state
(`held`, `client`, `earned`, `success`, `cause`, ...) beside the log (`items`) it
writes. `BuildRunSummary` is `build_run_summary`, `Diagnose` is
`SignTaskDiagnostics` and the verdict of the canary; both read only the log. The
log in memory has lost its oldest items (`WindowLengths`), what the history keeps
has lost its latest (`KeptLengths`). `Mishap` counts how often a run leaves the
plain path.

Left out: wording, durations, items that neither reader looks at (they take room,
which is why the cuts are taken anywhere), matching of text lines.

## 3. The runs

| run | module, cfg | shows |
|---|---|---|
| `exec_safety` | `MCTaskExecution`, `TaskExecution_safety.cfg` | all safety properties and the refinement |
| `exec_live` | `TaskExecution_live.cfg` | every run ends; the fair `AccountSlots` is implemented |
| `exec_sessions` | `TaskExecution_sessions.cfg` | finding 1 |
| `sched_safety` | `MCScheduler`, `Scheduler_safety.cfg` | jobs, plans and days, under every request |
| `sched_onerun` | `Scheduler_onerun.cfg` | finding 2 |
| `sched_restart` | `Scheduler_restart.cfg` | finding 3 |
| `phone_login` | `MCPhoneLogin`, `PhoneLogin.cfg` | locks, clients and replaced sessions; requests are answered, sessions end |
| `qr_login` | `MCQrLogin`, `QrLogin.cfg` | the lock over many requests, clients, discarded logins; a start gets its turn |
| `event_safety` | `MCEventRunner`, `EventRunner_safety.cfg` | messages, results, retries and follow-ups of one chat |
| `event_rescue` | `EventRunner_rescue.cfg` | finding 4 |
| `client_manager` | `MCClientManager`, `ClientManager.cfg` | who is given a client, who stops it, what is left of it |
| `run_report` | `MCRunReport`, `RunReport.cfg` | what summary and diagnosis conclude is so |

**TaskExecution.** `StatusTruthful`: `is_task_running` tells the truth through
every timeout and cancellation. `LockHeldByLiveRun`: the lock is held exactly
between its acquisition and the final block. `SlotsConserved`: no permit is lost
or made up. `SignersExclusive`: awaited signers never share an account and stay
within the limit. `CooldownRespected`: the first signer of a run starts only
after a full rest, though other runs stamp the clock meanwhile.
`NoRetryBesideLateSigner`: no retry beside a timed-out call of the same run.
`ImplementsSlots` and, with fairness, `ImplementsFairSlots`. `RunEnds`.

**Scheduler.** `CronFollowsRow`, `PlanHasJob`, `PausedGainsNoPlan` and `DailyRun`;
each names in its comment what the code excuses.

**PhoneLogin.** `LockHeldInside`: the lock is held exactly inside an operation,
and never while a user looks for a code. `ClientsAccountedFor`: a client that may
be connected always has someone who will close it, and is closed once.
`NeverTakesReplacement`: a late verify, cancel or expiry of a replaced session
leaves its replacement alone. `RequestEnds`, `SessionEnds`.

**QrLogin.** `LockHeldInside`: a session has the lock from its start to the end
of its cleanup, so no cleanup releases the lock of anybody else; the exception is
a start that broke before its `try`, which keeps it.
`ClientsAccountedFor`, with the one exception `reopened`. `DiscardedStaysOut`: a
login that was discarded stores no session string, also when Telegram confirms it
during the cleanup. `StartEnds`: a start that waits gets the lock, though users
do not come back and deadlines move, unless a start broke: after that nobody does.

**EventRunner.** `HandledOnce`: in one attempt a message is acted on at most once
(a reply, a click carried through, a verdict of the AI, counted in `acted`), and
nobody works on one that was acted on or that another works on.
`GivenUpCanBeRetried`: the marks against double clicks are taken back.
`QuietAfterResult`: nothing begins once the result is known, but for what the AI
fallback decides and a further press of a click under way. `ResultNotMissed`: whoever looks at the result takes it, during
retries and beside other handlers. `FollowUpsDone`: actions that wait for no
message are done. `LockHeldInside`.

**ClientManager.** `HandedOutAlive`: who holds the account's lock gets a client
that is connected and not closed. `StoppedByItsOwn`: it is stopped only on its
holder's behalf. `NoneLost`: nobody's client stays connected. A late signer and a
deletion break the first and weaken the last; the properties say exactly how.

**RunReport.** `PassIsEarned`: a diagnosis of "pass" means that the result was
seen, or that the sign-in succeeded without having to see one, however the log was
cut. `SummaryTold`: the summary agrees with
the run about locks, client, attempt, cause. `NoFalseAlarm`: a clean success is
not called failed.

**Bounds.** *exec_safety*: four runs of three tasks on two accounts and one slot,
which gives a scheduled and a manual run of one task, two tasks on one account,
and two accounts competing for the semaphore; one task retry and two session
attempts let both loops be mixed; a cooldown of one tick separates having rested
from not having. *exec_live*: one account, three runs, and a cooldown of two
ticks, so that one run's sleep overlaps another's stamp. *sched*: days of four
instants, so a window can end within its day or cross midnight; four days, so a
plan can be made on one, lost on the next and made good after that; in
`sched_safety` a wide window, a single instant and one across midnight, so that
an update can move a task from one to another. *phone*: two requests at once and
two sessions, so that a session is replaced by one with the same phone number;
one renewal, so that an expiry task finds its deadline moved; one tick to live,
since only passed or not passed is told apart. Sessions with different numbers
are covered by the theorems, which hold for any `PhoneOf`. *qr*: two requests and
two sessions; tokens of one tick and an extension of two, so that a deadline
moves both ways; two renewals. *event*: two programs that between them use every
kind of action, with and without an assertion; three versions of two messages, so
that one message is edited and the result comes last; two retries, of which the
second is the last; two presses to a click, so that one is not the first; two failed reads suspend the scan. *client*: two runs with
two entries each, a refresh and a deletion; as many clients and locks as they
can use. *run_report*: two chats, two attempts and two mishaps, so that one
mishap can hide another; logs that end within and without every cut. `CHECK_DEADLOCK
FALSE` throughout: runs end, after `Shutdown` no request starts, `Scheduler`
stops at `Horizon`.

**Fairness.** `FairSpec` of `TaskExecution` is weak fairness of each run's own
steps and of the clock. The event loop resumes whatever is ready, and timers end
the lock wait, the semaphore wait, the signer and the cleanup. Nothing is assumed
of what no code obliges: that a signer returns (`SignerReturns`), that an
abandoned one unwinds (`LateSignerEnds`), that a run starts, that the process is
shut down. `RunEnds` therefore rests on the timeouts alone. In `PhoneLogin` the
timeouts (`wait_for` around each request) and the teardowns (steps of three
seconds each) are fair; users, Telegram, `Connect` and `CodeSent` are not. An
expiry task waits for the lock without a timeout: strong fairness stands for the
order in which `asyncio.Lock` serves its waiters, and `SessionEnds` supposes that
other holders give the lock back. In `QrLogin` the client's own timeouts end each
request to Telegram (`Proceed`), timers and cleanups are fair, and the lock is
served in order as before. Both hold for a bounded number of renewals: the code
lets a user who keeps sending wrong passwords keep a session open.

## 4. What is proved

Everything holds for every value of the constants that the named assumptions
allow; these say what kinds of things the constants are, that names differ and
that limits are natural numbers.

| module | theorems | of `Spec` |
|---|---|---|
| `TaskExecutionProofs` | `TypeCorrect`, `StatusCorrect`, `OneRunCorrect`, `LockCorrect`, `SlotsCorrect`, `SignersCorrect`, `CooldownCorrect`, `RetryCorrect` | every safety property of `exec_safety` |
| | `Refinement` | `Spec => ImplementsSlots` |
| `SchedulerProofs` | `TypeCorrect`, `CronCorrect`, `PlanCorrect`, `PausedCorrect`, `DailyRunCorrect` | every property of `sched_safety` |
| `PhoneLoginProofs` | `TypeCorrect`, `LockCorrect`, `ClientsCorrect`, `ReplacementsSpared` | every safety property of `phone_login` |
| | `OnePendingCorrect` | an account has one pending phone login at most |
| `QrLoginProofs` | `TypeCorrect`, `LockCorrect`, `ClientsCorrect`, `DiscardedCorrect` | every safety property of `qr_login` |
| | `Refinement` | a QR login implements `AccountSlots`, with a limit of one |
| `EventRunnerProofs` | `TypeCorrect`, `LockCorrect`, `RetriedCorrect`, `HandledOnceCorrect`, `QuietCorrect`, `ResultCorrect`, `FollowUpsCorrect` | every property of `event_safety` |
| `ClientManagerProofs` | `TypeCorrect`, `ClientsHandedOutAlive`, `HoldersClientsAreTheirs`, `NoClientIsLost` | every property of `client_manager` |
| `RunReportProofs` | `DiagnosisIsEarned`, `SummaryIsTold`, `AlarmsAreTrue` | every property of `run_report` |

Each module has an `InvHolds` (`ReportInvariant` in `RunReportProofs`),
`Spec => []Inv`, from which the rest follows. None of the properties is inductive
alone. So every safety property that a run finds to hold is also a theorem.

*TaskExecution.*

* `TypeInv` is the types without the range of `permits` (which follows from
  `SlotsConserved` and the size of a finite set) and adds `RetriesLeft`: a run
  that sleeps before a retry has one left. Without it the attempt counters
  could step past their bounds.
* `StatusInv` gives each flag the run it stands for and says that no two runs
  share one. `StatusTruthful` alone would let a run that ends clear the flag
  another run needs; uniqueness in turn needs the two gates' flags related to
  `pc`.
* `LockHeldByLiveRun` and `SlotsConserved` are inductive given the types.
* `SignerAwaited` ties `child` to `pc`: with the first two it yields
  `SignersExclusive`, and it is `NoRetryBesideLateSigner`'s reason.
* `RestInv` follows the account's rest through the awaits: a free lock means the
  code's clock is not behind the real rest, a sleeping run sleeps at least the
  rest that is missing, a run that waits for a slot has none missing. Only the
  holder of the lock can invalidate it, so it needs `LockHeldByLiveRun`.

*Scheduler.* Besides `TypeOK` and `CronFollowsRow`: `BootInv` (a process that is
down or starting has no jobs from before), `DayInv` (`last_run` is of a day that
has begun) and `OwedInv`, which carries `DailyRun`. A run that is owed was owed
since some opening of the window, and since then either a plan lies within the
window, or the cron job is still to come or submitted: there is always something
that leads to the run, whatever requests and restarts replace it by something
else. The arithmetic of days and hours, with a constant length of the day, is in
lemmas of its own (`Scale`, `Later`, `Apart`, `Unique`).

*PhoneLogin.* `TypeOK` and `LockHeldInside` go first. `StartInv` (a start has its
session to itself), `HandlingInv` (who is inside the lock handles its own
session) and `SessionInv` (a client is its pending session's, its start's or its
closer's) say who works on which session; `OnePending` holds because a start
tears down every session before it registers its own.

*QrLogin.* `StartInv` and `PhaseInv`: a session is started, registered, or cleaned
up, one after the other, and nobody knows a start that broke. The release of
whatever lock is found is right because the cleanup is of a session that still has
it: after a start that broke there is none, for none can begin. For the refinement every step is
sorted by what it does to the lock and the driven clients (`Shared`): most leave
both alone (`QuietSteps`), and each of the others is one step of `AccountSlots`.

*EventRunner.* The argument turns on `message_lock`. A step of a coroutine takes
the lock, keeps it or gives it up (`Shape`), all other steps leave its holder
alone (`Undisturbed`), though a result may be taken beside it. Hence `HoldersSaw`:
what a handler saw when it took its message (not handled, no result, this
attempt, this action) holds until it is through. `ResultTaken` and
`NotYetAttempted` complete the invariant. `Acts` carries `HandledOnce`: a version
that was acted on in this attempt is marked, or its handler still has the lock for
what follows (`Following`), or the run was cancelled in the middle of that
(`LeftBehind`), when the current action waits for no message and a scan left
behind finds nothing to begin. The types come after it: that an index
never moves past the program is `HolderSaw` again, the holder's action is there.
The bounds of `index` and `step` are stated by the domain of the program's two
parts (`Positions`), for the provers know nothing of what `SelectSeq` returns.

*ClientManager.* `Turns`: only the holder of the account's lock, a late signer and
a deletion are anywhere near a client, and a late signer was cancelled, so it only
leaves. `Counted`: the count is negative only during an exit, and whoever starts
the client is the only one counted. `Known`: a connected client is registered, or
somebody is about to stop it; a registered client that was closed is being
stopped. `Quiet` holds until a signer is late or the account is deleted: the count
is the number of the holder's blocks, the key's lock is there and nobody else has
it (`Owned`), and nothing is connected but the holder's client. The first three
hold whatever happens, so that the late exits, which replace the key's lock and
count under the next holder, cost `Quiet` only. `NoneLost` has its exception for
clients struck off because the proof asked for it: with one run and two
refreshes, more refreshes than the run has, it fails without.

*RunReport.* The properties speak of a log when it is read; `Inv` ties the run to
its log while it is written. `Sourced`: whoever tells of a result has it from an
engine that saw it. `Locking`: what of locks and client is in the log. `Story`:
how the run ended is the last, or only, item of its kind. `Counted`: the counters
of the only engine, wherever they are told. `Succeeded` and `Plainly`: what a
success was preceded by, and what a run without mishaps cannot have written.
`Places` follows the awaits: which locks are held, and how far from its end the
log may have an item about the run's ending (`Reach`); `Kept` is what was cut and
recorded. The cuts are the point: an item the summary needs must lie in what is
left. The ends of a log are within its last thirteen items, so `SummaryIsTold`
assumes that the window is no shorter (the code's keeps 1000 lines,
`task_flow_logger.py:19`); with two mishaps, as in the run, they are within
twelve, and with three TLC finds a log that a window of twelve cuts too short.
`DiagnosisIsEarned` assumes nothing of the cuts: the items that "pass" rests on
are missed when they are cut away. `AlarmsAreTrue` is about logs kept whole.

One lemma per part shows that `[Next]_vars` preserves it, with a step per action;
`InvHolds` combines them.

**Only model-checked**: liveness (`RunEnds`, `ImplementsFairSlots`, `RequestEnds`,
`SessionEnds`, `StartEnds`), since TLAPS has no support for it here. No liveness is
checked of `EventRunner` (its state space is too large) or `ClientManager` (every
wait in it has a timeout of its own). What a recursive function of the library
computes (`SelectSeq`) is not reasoned about; induction over numbers is, as a
statement about sets, which `NaturalsFacts` derives from the library's theorem
that finite sets are well founded under inclusion.

## 5. Findings

1. **Sessions beyond the limit** (`exec_sessions`). `README.md` says
   `TG_GLOBAL_CONCURRENCY` is the number of concurrent Telegram sessions. A
   signer that timed out gets 0.05 s of grace; the run then gives the slot back
   while the signer may still be leaving its session.
2. **Two executions in one window** (`sched_onerun`). `_execute_sign_task` clears
   the plan before it runs, and `last_run` is written at the end. Enabling any
   other task in between makes `sync_jobs` catch up the executing task as though
   it had not run.
3. **A plan not restored** (`sched_restart`). A restart drops a plan that lies
   ahead when the task ran that day for another reason, although `README.md`
   says plans are restored.
4. **A rescue scan outlives its run** (`event_rescue`). When `run()` times out,
   `wait_for` cancels `_wait_finished`, whose `finally` block cancels the wait for
   `finished` and not the scan it awaits. `tests/e2e/resource_efficiency_scenarios.txt`
   says it stops. The scan goes on to press buttons and to schedule retries.
Also seen, and the subject of no run. Where a document says otherwise it is named.

Scheduler and rows:

* Deleting a task through `DELETE /config/sign` or turning a range task into a
  fixed one leaves the one-shot job: it still executes the task.
* `sync_jobs` in the very instant a cron job is due moves it to the next day.
  `DailyRun` excuses this.
* An import keeps the row's plan. After a restart dropped its job, the task shows
  a plan nothing will carry out (`PlanHasJob` says exactly this much); and the
  day's run may come after the new window has closed (`DailyRun` excuses it).
* A cron job submitted before its task was paused still plans or runs it.
* A window across midnight is not recovered after a crash on its second day.

Realtime log (`sign_task_executor.py:875`, `routes/sign_tasks.py:1378`):

* `TaskFlowLogger` drops lines beyond 1000, but the offset of the first one left
  is published only when the run ends. After line 1000 a websocket gets nothing
  more until the end and then skips lines; the docstring of
  `get_active_logs_snapshot` calls the offset absolute.
* Lines logged between the last poll (every half second) and the end of the
  buffer are never sent; a reader that outlives a run keeps its index for the
  next one.

Runs and logins:

* **A lock nobody releases.** `start_qr_login` takes the account's lock
  (`telegram.py:763`), and what raises before its `try` (line 811), such as
  `build_proxy_dict` on a proxy with a bad port, leaves it taken with no session
  to clean up. Every later run, refresh or login of the account waits for it, until
  the service restarts. `tests/e2e/resource_efficiency_scenarios.txt:16` says that an
  invalid proxy must not leak. `StartBreaks` is a step of `QrLogin`; `LockHeldInside`
  and `StartEnds` name it as their exception.
* A second cancellation during the cleanup leaves the account's lock taken and
  saves nothing.
* `cancel_qr_login` deletes the account's row also when the account was there
  before (`telegram.py:711`). A password request connects the client again after
  its session went away (`telegram.py:1347`). A poll answers "success" although
  the login was cancelled meanwhile (`telegram.py:1028`). A start that is
  cancelled keeps the lock.

Event runner:

* A follow-up action that fails inside a retry is suppressed by that same retry.
* The flag that a message comes from the startup scan is read by every handler
  that runs meanwhile (`event_runner.py:3007`).
* The AI fallback asks neither for the result nor for that flag
  (`event_runner.py:2725`); neither does a click under way before its next press
  (`event_runner.py:1589`, `callback_actions.py:204`).

Clients:

* When a second attempt times out in a client its first one unregistered, the
  close finds no client and drops the lock; the late exits return early. The
  client stays connected, `client_cleanup_completed` is logged.
* A late exit or a forced close forgets the lock and the count of the next
  holder, whose own exit then returns early. Its client stays up, registered
  with a wrong count, and a later user may be handed one that nobody started.
* A start that fails strikes the key's client off the registry even if it is
  another's (`client_manager.py:370`): after a close, a late exit and a failed
  start by a refresh that got its client before, the key has forgotten a client
  that another refresh left connected.
* A refresh and a run may share a client, so one with `no_updates=True` serves a
  run. A signer cancelled while its client starts keeps its reference.

Summary and diagnosis:

* A successful run of several chats may show `summary.status` "failed".
* A picture recognised after the result fails a good run, and so does one that
  was recognised and never answered.
* `flow_truncated` looks at text lines only; a run whose log outgrew its memory
  may pass although its client was not closed.
* A run that failed after a match may be diagnosed "pass"; the canary guards
  against it.
* The summary of a cancelled run takes its attempt from the engine.

## 6. Not modelled, and why

Telegram itself, HTTP and the database appear only through what the code sees of
them. The frontend, the CLI, AI tools, notifications and audit hold no state the
rest depends on. The runtime contract, the event presets and the configuration
schema are tables and pure functions of a task's configuration; their results are
constants here. Migrations run once. Password hashing, cookies and rate limits are
libraries', and the refresh tokens are independent of the tasks. The signer core
(`core.py`) sends messages and cleans text; what the other modules suppose of it
is written in them. `PROJECT.json` gives the reason for each component.

## 7. What could follow

* The trimmed log buffer and its websocket reader, once the offset means what its
  docstring says: a reader then misses no line, which today it does.
* The rotation of refresh tokens by two requests at once.
* Runs, logins, refreshes, probe and deletion composed on one account, phone
  logins and refreshes shown to implement `AccountSlots` as runs and QR logins are.
  Today each module has the others as `Other`.
