----------------------------- MODULE Scheduler -----------------------------
(***************************************************************************)
(* The scheduler: APScheduler's cron and one-shot jobs of a sign task, the *)
(* plan persisted for it, and the API calls, crashes and restarts they     *)
(* live through.  The jobs are in memory, the rows in the database.        *)
(*                                                                         *)
(* The module follows one task.  sync_jobs and the restart recovery treat  *)
(* every task alone, so all that other tasks add are the calls of sync_jobs *)
(* their API requests make (SyncForAnother).  Nothing between two awaits   *)
(* is interrupted but by a crash, which may fall between two commits.      *)
(*                                                                         *)
(* Time is a sequence of instants, DayLength to a local day.  An instant   *)
(* begins when the jobs due in it become due; a job that is due runs       *)
(* before the instant ends, except that one added already past its         *)
(* misfire_grace_time is dropped.                                          *)
(***************************************************************************)
EXTENDS Integers

CONSTANTS
    DayLength,  \* instants in a day
    Horizon,    \* bound: the last instant
    SignAt,     \* the time of day of sign_at
    Windows,    \* the windows a range task may have, see WindowsAssumption
    None        \* no row, no job, no time

ASSUME TimeAssumption ==
    /\ DayLength \in Nat \ {0}
    /\ Horizon \in Nat
    /\ SignAt \in 0..(DayLength - 1)

ASSUME NoneAssumption == None \notin Int \cup {"fixed", "range"}

(* range_end may be a time of the next day; an empty window is not modelled. *)
ASSUME WindowsAssumption ==
    Windows \subseteq [start : 0..(DayLength - 1), length : 1..(DayLength - 1)]

VARIABLES
    now,      \* the instant
    phase,    \* of the process: "down", "booting" until _post_startup ran, "up"
    row,      \* the persisted configuration
    next,     \* the persisted next_scheduled_at
    lastDay,  \* the persisted local day of last_run
    cron,     \* next run time of the job sign-...
    exec,     \* run time of the job sign-exec-...
    queued,   \* jobs submitted whose coroutine has not started
    running,  \* a run of the task is in flight
    ranToday, \* history: a run started or ended today
    owed,     \* history: the window is open and nothing excuses a missing run
    done      \* history: a job executed the task since its window opened

vars == <<now, phase, row, next, lastDay, cron, exec, queued, running,
          ranToday, owed, done>>

jobs == <<cron, exec, queued>>

Rows == [mode : {"fixed", "range"}, enabled : BOOLEAN, window : Windows]

Day(n) == n \div DayLength

Hour(n) == n % DayLength

SameDay(w) == w.start + w.length < DayLength

Exists == row # None

Mode == IF Exists THEN row.mode ELSE None

Ranged == Mode = "range" /\ row.enabled

(***************************************************************************)
(* create_cron_trigger and the next time it fires, which is after now even *)
(* when the job it replaces was due now.                                   *)
(***************************************************************************)
CronHour(r) == IF r.mode = "range" THEN r.window.start ELSE SignAt

NextFire(r) == CHOOSE n \in (now + 1)..(now + DayLength) : Hour(n) = CronHour(r)

(* _parse_range_window: the window that opens on the local day of now. *)
Opens(r) == Day(now) * DayLength + r.window.start

(* Faulty: the end is always taken for a time of the next day. *)
ClosesNextDay(r) == Opens(r) + r.window.length + DayLength

Closes(r) == Opens(r) + r.window.length

RanToday == lastDay = Day(now)    \* _has_run_on_local_day

-----------------------------------------------------------------------------

Init ==
    /\ now = 0
    /\ phase = "booting"
    /\ row = None
    /\ next = None
    /\ lastDay = None
    /\ cron = None
    /\ exec = None
    /\ queued = {}
    /\ running = FALSE
    /\ ranToday = FALSE
    /\ owed = FALSE
    /\ done = FALSE

(***************************************************************************)
(* _restore_pending_range_jobs and _schedule_startup_range_catchups for an *)
(* enabled range task, both on the rows read when sync_jobs began: a plan  *)
(* in the future is restored unless the task ran today, one in the past is *)
(* dropped and, while the window is open and the task has not run today, a *)
(* new one is drawn from what is left of it.                               *)
(***************************************************************************)
PlanAhead(plan) == plan # None /\ plan > now

(* Faulty: a plan found in the database is taken for scheduled. *)
RestoreNothing(r, plan, job) ==
    \/ /\ PlanAhead(plan) /\ ~RanToday
       /\ exec' = job /\ next' = plan
    \/ /\ ~PlanAhead(plan) \/ RanToday
       /\ exec' = job /\ next' = None

Restore(r, plan, job) ==
    \/ /\ PlanAhead(plan) /\ ~RanToday
       /\ exec' = plan /\ next' = plan
    \/ /\ PlanAhead(plan) /\ RanToday
       /\ exec' = job /\ next' = None
    \/ /\ ~PlanAhead(plan)
       /\ ~RanToday /\ now \in Opens(r)..(Closes(r) - 1)
       /\ \E n \in now..Closes(r) : exec' = n /\ next' = n
    \/ /\ ~PlanAhead(plan)
       /\ RanToday \/ now \notin Opens(r)..(Closes(r) - 1)
       /\ exec' = job /\ next' = None

(***************************************************************************)
(* sync_jobs, with the row r, its plan and its one-shot job as the caller  *)
(* leaves them.  A job is added or rescheduled from now on; the one-shot   *)
(* job of a missing row is not looked for.                                 *)
(***************************************************************************)
SyncJobs(r, plan, job, catchup) ==
    \/ /\ r = None
       /\ cron' = None /\ exec' = job /\ next' = plan
    \/ /\ r # None /\ ~r.enabled
       /\ cron' = None /\ exec' = None /\ next' = None
    \/ /\ r # None /\ r.enabled
       /\ cron' = NextFire(r)
       /\ IF catchup /\ r.mode = "range"
          THEN Restore(r, plan, job)
          ELSE exec' = job /\ next' = plan

(* The handler has written this task's row: nothing is owed or done. *)
Touched == owed' = FALSE /\ done' = FALSE

-----------------------------------------------------------------------------

(* on_startup: init_scheduler(sync_on_startup=False). *)
Boot ==
    /\ phase = "down"
    /\ phase' = "booting"
    /\ UNCHANGED <<now, row, next, lastDay, jobs, running, ranToday, owed, done>>

(***************************************************************************)
(* _post_startup, after its maintenance ran in a thread: requests may have *)
(* been served since Boot.  A service that was down until the window       *)
(* closed is excused.                                                      *)
(***************************************************************************)
PostStartup ==
    /\ phase = "booting"
    /\ phase' = "up"
    /\ SyncJobs(row, next, exec, TRUE)
    /\ owed' = (owed /\ Ranged /\ now < Closes(row))
    /\ UNCHANGED <<now, row, lastDay, queued, running, ranToday, done>>

(***************************************************************************)
(* The process dies: jobs and runs are gone.  A window that crosses        *)
(* midnight is not recovered on the second day, which excuses the run.     *)
(***************************************************************************)
Die ==
    /\ phase' = "down"
    /\ cron' = None /\ exec' = None
    /\ queued' = {}
    /\ running' = FALSE
    /\ done' = FALSE

Crash ==
    /\ phase # "down"
    /\ Die
    /\ owed' = (owed /\ SameDay(row.window))
    /\ UNCHANGED <<now, row, next, lastDay, ranToday>>

(***************************************************************************)
(* An import keeps the plan of the row it replaces, which the cron job of  *)
(* the new row takes for its own: the run may then be late for the window. *)
(***************************************************************************)
PlannedBehind(close) ==
    \/ next # None /\ next > close
    \/ next # None /\ next > now' /\ exec # None /\ exec > close

(***************************************************************************)
(* An instant passes once everything due in it has run.                    *)
(***************************************************************************)
Tick ==
    /\ now < Horizon
    /\ phase # "booting"
    /\ queued = {} /\ cron # now
    /\ exec # None => exec > now
    /\ now' = now + 1
    /\ ranToday' = (ranToday /\ Day(now') = Day(now))
    /\ LET opens == Ranged /\ Hour(now') = row.window.start
           closes == Ranged /\ Hour(now) = Hour(Closes(row))
       IN /\ owed' = IF opens
                     THEN /\ ~ranToday' /\ ~running
                          /\ phase = "up" \/ SameDay(row.window)
                          /\ ~PlannedBehind(now' + row.window.length)
                     ELSE owed /\ ~closes
          /\ done' = (done /\ ~opens)
    /\ UNCHANGED <<phase, row, next, lastDay, jobs, running>>

(***************************************************************************)
(* APScheduler submits a due job.  The one-shot job is gone with that; one *)
(* added with a time in the past may be too late to run at all.            *)
(***************************************************************************)
SubmitCron ==
    /\ cron = now
    /\ cron' = now + DayLength
    /\ queued' = queued \cup {"cron"}
    /\ UNCHANGED <<now, phase, row, next, lastDay, exec, running, ranToday,
                   owed, done>>

SubmitExec ==
    /\ exec # None /\ exec <= now
    /\ exec' = None
    /\ \/ queued' = queued \cup {"exec"}
       \/ exec < now /\ UNCHANGED queued
    /\ UNCHANGED <<now, phase, row, next, lastDay, cron, running, ranToday,
                   owed, done>>

(***************************************************************************)
(* _execute_sign_task: the plan is cleared before the run is tried, and a  *)
(* run already in flight makes run_task_with_logs return at once.          *)
(***************************************************************************)
StartRun ==
    /\ running' = TRUE
    /\ ranToday' = TRUE
    /\ owed' = FALSE

Execute ==
    /\ next' = None
    /\ \/ /\ ~running
          /\ StartRun
          /\ done' = TRUE
       \/ /\ running
          /\ UNCHANGED <<running, ranToday, owed, done>>

RunExec ==
    /\ "exec" \in queued
    /\ queued' = queued \ {"exec"}
    /\ Execute
    /\ UNCHANGED <<now, phase, row, lastDay, cron, exec>>

(***************************************************************************)
(* _job_run_sign_task.  It does not look at enabled.                       *)
(***************************************************************************)
PlanDay(r) == \E n \in Opens(r)..Closes(r) : exec' = n /\ next' = n

(* Faulty: the persisted plan is trusted, whether its job exists or not. *)
RunCronTrusting ==
    /\ "cron" \in queued
    /\ queued' = queued \ {"cron"}
    /\ \/ /\ ~Exists \/ (Mode = "range" /\ next # None)
          /\ UNCHANGED <<next, exec, running, ranToday, owed, done>>
       \/ /\ Mode = "range" /\ next = None
          /\ PlanDay(row)
          /\ UNCHANGED <<running, ranToday, owed, done>>
       \/ /\ Mode = "fixed"
          /\ Execute
          /\ UNCHANGED exec
    /\ UNCHANGED <<now, phase, row, lastDay, cron>>

RunCron ==
    /\ "cron" \in queued
    /\ queued' = queued \ {"cron"}
    /\ LET planned == PlanAhead(next) /\ exec # None
       IN \/ /\ ~Exists \/ (Mode = "range" /\ planned)
             /\ UNCHANGED <<next, exec, running, ranToday, owed, done>>
          \/ /\ Mode = "range" /\ ~planned
             /\ PlanDay(row)
             /\ UNCHANGED <<running, ranToday, owed, done>>
          \/ /\ Mode = "fixed"
             /\ Execute
             /\ UNCHANGED exec
    /\ UNCHANGED <<now, phase, row, lastDay, cron>>

(* save_run_info: update_last_run looks for the row, whoever started the run. *)
RunEnds ==
    /\ running
    /\ running' = FALSE
    /\ lastDay' = IF Exists THEN Day(now) ELSE None
    /\ ranToday' = TRUE
    /\ owed' = FALSE
    /\ UNCHANGED <<now, phase, row, next, jobs, done>>

-----------------------------------------------------------------------------

(***************************************************************************)
(* Requests.                                                               *)
(***************************************************************************)

(* start_task_in_background. *)
RunManually ==
    /\ phase # "down" /\ Exists /\ ~running
    /\ StartRun
    /\ UNCHANGED <<now, phase, row, next, lastDay, jobs, done>>

(* clear_account_history_logs: the task may run again today. *)
ClearHistory ==
    /\ phase # "down" /\ lastDay # None
    /\ lastDay' = None
    /\ done' = FALSE
    /\ UNCHANGED <<now, phase, row, next, jobs, running, ranToday, owed>>

(***************************************************************************)
(* create_task_and_sync, which may also replace an existing row, and       *)
(* update_task_and_sync, which keeps enabled: save, forget the plan, set   *)
(* the cron job, sync.  The one-shot job of an enabled task stays.         *)
(***************************************************************************)
Create(r) ==
    /\ phase # "down"
    /\ r.enabled
    /\ row' = r
    /\ SyncJobs(r, None, exec, FALSE)
    /\ Touched
    /\ UNCHANGED <<now, phase, lastDay, queued, running, ranToday>>

Update(r) ==
    /\ phase # "down"
    /\ Exists /\ r.enabled = row.enabled
    /\ row' = r
    /\ SyncJobs(r, None, exec, FALSE)
    /\ Touched
    /\ UNCHANGED <<now, phase, lastDay, queued, running, ranToday>>

(* Faulty: no sync_jobs after the import. *)
ImportUnsynced(r) ==
    /\ phase # "down"
    /\ row' = r
    /\ Touched
    /\ UNCHANGED <<now, phase, next, lastDay, jobs, running, ranToday>>

(* import_sign_task: only the row is replaced. *)
Import(r) ==
    /\ phase # "down"
    /\ row' = r
    /\ SyncJobs(r, next, exec, FALSE)
    /\ Touched
    /\ UNCHANGED <<now, phase, lastDay, queued, running, ranToday>>

(* Faulty: the catch-up also runs when a task is paused, on its old row. *)
SetEnabledStale(on) ==
    /\ phase # "down" /\ Exists
    /\ row' = [row EXCEPT !.enabled = on]
    /\ SyncJobs(row, IF on THEN next ELSE None, exec, TRUE)
    /\ Touched
    /\ UNCHANGED <<now, phase, lastDay, queued, running, ranToday>>

(* set_task_enabled_and_sync. *)
SetEnabled(on) ==
    /\ phase # "down" /\ Exists
    /\ row' = [row EXCEPT !.enabled = on]
    /\ SyncJobs(row', IF on THEN next ELSE None, exec, on)
    /\ Touched
    /\ UNCHANGED <<now, phase, lastDay, queued, running, ranToday>>

(* delete_task_and_sync: the row, both jobs, the plan. *)
Delete ==
    /\ phase # "down" /\ Exists
    /\ row' = None /\ lastDay' = None
    /\ SyncJobs(None, None, None, FALSE)
    /\ Touched
    /\ UNCHANGED <<now, phase, queued, running, ranToday>>

(* DELETE /config/sign/{task_name}: only the row, and the cron job by sync. *)
DeleteConfig ==
    /\ phase # "down" /\ Exists
    /\ row' = None /\ lastDay' = None
    /\ SyncJobs(None, None, exec, FALSE)
    /\ Touched
    /\ UNCHANGED <<now, phase, queued, running, ranToday>>

(***************************************************************************)
(* A request about another task syncs this one as well.  A cron job due at *)
(* this instant and not yet submitted is moved on, and misses its day.     *)
(***************************************************************************)
SyncForAnother(catchup) ==
    /\ phase # "down"
    /\ SyncJobs(row, next, exec, catchup)
    /\ owed' = (owed /\ cron # now)
    /\ UNCHANGED <<now, phase, row, lastDay, queued, running, ranToday, done>>

(* A crash after the row was committed and before the plan was forgotten. *)
WriteThenCrash(r) ==
    /\ phase # "down"
    /\ row' = r
    /\ Die
    /\ owed' = FALSE
    /\ UNCHANGED <<now, next, lastDay, ranToday>>

-----------------------------------------------------------------------------

Request ==
    \/ RunManually
    \/ ClearHistory
    \/ \E r \in Rows : Create(r) \/ Update(r) \/ Import(r) \/ WriteThenCrash(r)
    \/ \E on \in BOOLEAN : SetEnabled(on) \/ SyncForAnother(on)
    \/ Delete
    \/ DeleteConfig

Next ==
    \/ Boot
    \/ PostStartup
    \/ Crash
    \/ Tick
    \/ SubmitCron
    \/ SubmitExec
    \/ RunExec
    \/ RunCron
    \/ RunEnds
    \/ Request

Spec == Init /\ [][Next]_vars

-----------------------------------------------------------------------------

(* The last instant a window that opens within the bound may close. *)
LastPlan == Day(Horizon) * DayLength + 2 * (DayLength - 1)

TypeOK ==
    /\ now \in 0..Horizon
    /\ phase \in {"down", "booting", "up"}
    /\ row \in Rows \cup {None}
    /\ next \in 0..LastPlan \cup {None}
    /\ lastDay \in 0..Day(Horizon) \cup {None}
    /\ cron \in 0..(Horizon + DayLength) \cup {None}
    /\ exec \in 0..LastPlan \cup {None}
    /\ queued \in SUBSET {"cron", "exec"}
    /\ running \in BOOLEAN
    /\ ranToday \in BOOLEAN
    /\ owed \in BOOLEAN
    /\ done \in BOOLEAN

(***************************************************************************)
(* Once the service is up, the task has a cron job exactly when its row is *)
(* there and enabled, due at the next time of its present schedule.        *)
(***************************************************************************)
CronFollowsRow ==
    phase = "up" =>
        IF Exists /\ row.enabled
        THEN cron \in now..(now + DayLength) /\ Hour(cron) = CronHour(row)
        ELSE cron = None

(***************************************************************************)
(* A plan that is persisted is carried out: a new one comes with its       *)
(* one-shot job, no step that leaves the row alone parts them while the    *)
(* plan lies ahead, and a restart brings them together.  (An import may    *)
(* part them: it makes a range task of a fixed one and keeps a plan that   *)
(* lost its job in an earlier restart.)                                    *)
(***************************************************************************)
PlanHasJob ==
    [][(/\ phase' = "up" /\ Ranged' /\ row' = row
        /\ next' # None /\ next' > now'
        /\ phase = "booting" \/ next' # next \/ exec = next)
          => exec' = next']_vars

(***************************************************************************)
(* A paused task gains no plan, except from a cron job submitted before it *)
(* was paused, which does not look at enabled when it starts.              *)
(***************************************************************************)
PausedGainsNoPlan ==
    [][row' # None /\ ~row'.enabled /\ exec' # exec /\ exec' # None
         => "cron" \in queued]_vars

(***************************************************************************)
(* The day's run takes place: when the window of an enabled range task     *)
(* closes, the task has run that day, is running, or something excuses it: *)
(* its row was written, an import had kept the plan of another window, the *)
(* service was down, a window across midnight met a crash, or sync_jobs    *)
(* moved the cron job on in the instant it was due.                        *)
(***************************************************************************)
DailyRun ==
    [][phase = "up" /\ Ranged /\ now' > now /\ Hour(now) = Hour(Closes(row))
         => ~owed]_vars

(***************************************************************************)
(* README.md:366, "在时间窗口内预先随机一个执行时间": one execution per day's  *)
(* window.  A job starts no second run in the window of a range task whose *)
(* row and history were left alone and that met no crash.                  *)
(***************************************************************************)
OneRunPerWindow ==
    [][Ranged /\ "exec" \in queued \ queued' /\ ~running /\ running' => ~done]_vars

(***************************************************************************)
(* README.md:366, "计划时间会持久化并在服务重启后恢复": a plan that still lies *)
(* ahead is restored after a restart.                                      *)
(***************************************************************************)
PlanRestored ==
    [][phase = "booting" /\ phase' = "up" /\ Ranged /\ PlanAhead(next)
         => exec' = next]_vars

=============================================================================
