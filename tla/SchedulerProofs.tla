--------------------------- MODULE SchedulerProofs ---------------------------
(***************************************************************************)
(* Proofs about Scheduler for days of any length, any windows and any      *)
(* horizon.  First the calendar: what tlapm needs to know of days and      *)
(* hours, after which neither is expanded.  Then what sync_jobs leaves,    *)
(* the type invariant, the jobs and the plan, and last the day's run,      *)
(* which needs OwedInv: how the run that is owed comes about.              *)
(***************************************************************************)
EXTENDS Scheduler, TLAPS

-----------------------------------------------------------------------------

\* A day times a positive, or a negative, number.
LEMMA Scale ==
  ASSUME NEW k \in Int
  PROVE  /\ k >= 1 => DayLength * k >= DayLength
         /\ k <= -1 => DayLength * k <= -DayLength
  BY TimeAssumption

\* A day later.
LEMMA Later ==
  ASSUME NEW q \in Int, NEW h \in Int
  PROVE  DayLength * (q + 1) + h = DayLength * q + h + DayLength
  BY TimeAssumption

\* A later time is not of an earlier day; less than a day apart, the same
\* hour is of the same day.
LEMMA Apart ==
  ASSUME NEW p \in Int, NEW q \in Int, NEW g \in 0..(DayLength - 1), NEW h \in 0..(DayLength - 1)
  PROVE  LET m == DayLength * p + g
             n == DayLength * q + h
         IN  /\ m <= n => p <= q
             /\ g = h /\ m < n + DayLength /\ n < m + DayLength => p = q
  <1> DEFINE m == DayLength * p + g
             n == DayLength * q + h
             k == q - p
  <1>1. m \in Int /\ n \in Int /\ k \in Int /\ DayLength * k = n - m + g - h
    BY TimeAssumption
  <1>2. (k >= 1 => DayLength * k >= DayLength) /\ (k <= -1 => DayLength * k <= -DayLength)
    BY Scale
  <1> HIDE DEF m, n
  <1>3. m <= n => ~(k <= -1)
    BY <1>1, <1>2, TimeAssumption
  <1>4. g = h /\ m < n + DayLength /\ n < m + DayLength => ~(k <= -1) /\ ~(k >= 1)
    BY <1>1, <1>2, TimeAssumption
  <1> QED
    BY <1>3, <1>4 DEF m, n

\* A time is given by its day and its hour.
LEMMA Unique ==
  ASSUME NEW p \in Int, NEW q \in Int, NEW r \in 0..(DayLength - 1), NEW t \in 0..(DayLength - 1),
         DayLength * p + r = DayLength * q + t
  PROVE  p = q /\ r = t
  <1>1. DayLength * p + r \in Int /\ DayLength * q + t \in Int
    BY TimeAssumption
  <1>2. p = q
    BY <1>1, Apart
  <1> QED
    BY <1>2, TimeAssumption

\* A time is an hour of a day.
LEMMA DayHour ==
  ASSUME NEW n \in Int
  PROVE  /\ Day(n) \in Int
         /\ Hour(n) \in 0..(DayLength - 1)
         /\ n = DayLength * Day(n) + Hour(n)
  BY TimeAssumption DEF Day, Hour

\* The time of day d at hour h.
LEMMA TimeOf ==
  ASSUME NEW d \in Int, NEW h \in 0..(DayLength - 1)
  PROVE  /\ DayLength * d + h \in Int
         /\ Day(DayLength * d + h) = d
         /\ Hour(DayLength * d + h) = h
  <1> DEFINE n == DayLength * d + h
  <1>1. n \in Int
    BY TimeAssumption
  <1>2. Day(n) = d /\ Hour(n) = h
    BY <1>1, DayHour, Unique
  <1> QED
    BY <1>1, <1>2

\* A day later it is the same hour.
LEMMA NextDay ==
  ASSUME NEW n \in Int
  PROVE  Hour(n + DayLength) = Hour(n)
  <1>1. n = DayLength * Day(n) + Hour(n) /\ Day(n) \in Int /\ Hour(n) \in 0..(DayLength - 1)
    BY DayHour
  <1>2. n + DayLength = DayLength * (Day(n) + 1) + Hour(n)
    BY <1>1, Later
  <1> QED
    BY <1>1, <1>2, TimeOf, Day(n) + 1 \in Int

\* Days follow one another.
LEMMA DayMonotone ==
  ASSUME NEW m \in Int, NEW n \in Int, m <= n
  PROVE  Day(m) <= Day(n)
  BY DayHour, Apart

\* Less than a day apart, the same hour is the same time.
LEMMA SameHour ==
  ASSUME NEW m \in Int, NEW n \in Int, Hour(m) = Hour(n), m < n + DayLength, n < m + DayLength
  PROVE  m = n
  <1>1. Day(m) = Day(n)
    BY DayHour, Apart
  <1> QED
    BY <1>1, DayHour

\* The hour some time later.
LEMMA HourLater ==
  ASSUME NEW n \in Int, NEW k \in 0..(DayLength - 1)
  PROVE  Hour(n + k) = IF Hour(n) + k < DayLength THEN Hour(n) + k ELSE Hour(n) + k - DayLength
  <1>1. n = DayLength * Day(n) + Hour(n) /\ Day(n) \in Int /\ Hour(n) \in 0..(DayLength - 1)
    BY DayHour
  <1>2. CASE Hour(n) + k < DayLength
    <2>1. Hour(n) + k \in 0..(DayLength - 1)
      BY <1>1, <1>2, TimeAssumption
    <2>2. n + k = DayLength * Day(n) + (Hour(n) + k)
      BY <1>1, TimeAssumption
    <2> QED
      BY <1>1, <1>2, <2>1, <2>2, TimeOf
  <1>3. CASE ~(Hour(n) + k < DayLength)
    <2> DEFINE h == Hour(n) + k - DayLength
    <2>1. h \in 0..(DayLength - 1)
      BY <1>1, <1>3, TimeAssumption
    <2>2. DayLength * (Day(n) + 1) + h = DayLength * Day(n) + h + DayLength
      BY <1>1, <2>1, Later
    <2>3. n + k = DayLength * (Day(n) + 1) + h
      BY <1>1, <2>2, TimeAssumption
    <2> QED
      BY <1>1, <1>3, <2>1, <2>3, TimeOf, Day(n) + 1 \in Int
  <1> QED
    BY <1>2, <1>3

\* Every hour comes within a day.
LEMMA HourComes ==
  ASSUME NEW n \in Int, NEW h \in 0..(DayLength - 1)
  PROVE  \E m \in (n + 1)..(n + DayLength) : Hour(m) = h
  <1>1. n = DayLength * Day(n) + Hour(n) /\ Day(n) \in Int /\ Hour(n) \in 0..(DayLength - 1)
    BY DayHour
  <1>2. CASE h > Hour(n)
    <2>1. DayLength * Day(n) + h \in (n + 1)..(n + DayLength)
      BY <1>1, <1>2, TimeAssumption
    <2> QED
      BY <1>1, <2>1, TimeOf
  <1>3. CASE ~(h > Hour(n))
    <2>1. DayLength * (Day(n) + 1) + h \in (n + 1)..(n + DayLength)
      BY <1>1, <1>3, TimeAssumption
    <2> QED
      BY <1>1, <2>1, TimeOf, Day(n) + 1 \in Int
  <1> QED
    BY <1>2, <1>3

-----------------------------------------------------------------------------

\* What a row holds.
LEMMA RowFacts ==
  ASSUME NEW r \in Rows
  PROVE  /\ r.mode \in {"fixed", "range"} /\ r.enabled \in BOOLEAN
         /\ r.window.start \in 0..(DayLength - 1)
         /\ r.window.length \in 1..(DayLength - 1)
         /\ CronHour(r) \in 0..(DayLength - 1)
         /\ r.mode = "range" => CronHour(r) = r.window.start
  BY TimeAssumption, WindowsAssumption DEF Rows, CronHour

\* The next time a row's cron job is due.
LEMMA NextFireFacts ==
  ASSUME NEW r \in Rows, now \in Int
  PROVE  NextFire(r) \in (now + 1)..(now + DayLength) /\ Hour(NextFire(r)) = CronHour(r)
  <1>1. \E m \in (now + 1)..(now + DayLength) : Hour(m) = CronHour(r)
    BY HourComes, RowFacts
  <1> QED
    BY <1>1 DEF NextFire

\* The window that opens today, as the last plan allows it.
LEMMA OpensFacts ==
  ASSUME NEW r \in Rows, now \in 0..Horizon
  PROVE  /\ Opens(r) \in Nat /\ Hour(Opens(r)) = r.window.start
         /\ Opens(r) > now - DayLength /\ Opens(r) < now + DayLength
         /\ Closes(r) \in Nat /\ Closes(r) > Opens(r) /\ Closes(r) < Opens(r) + DayLength
         /\ Closes(r) <= LastPlan /\ LastPlan \in Nat
  <1>1. /\ now = DayLength * Day(now) + Hour(now) /\ Day(now) \in Int /\ now \in Int
        /\ Hour(now) \in 0..(DayLength - 1)
        /\ Horizon = DayLength * Day(Horizon) + Hour(Horizon) /\ Day(Horizon) \in Int
    BY DayHour, TimeAssumption
  <1>2. r.window.start \in 0..(DayLength - 1) /\ r.window.length \in 1..(DayLength - 1)
    BY RowFacts
  <1>3. Day(now) <= Day(Horizon) /\ Day(now) >= 0
    <2>1. Day(0) = 0
      BY TimeOf, TimeAssumption, DayLength * 0 + 0 = 0
    <2>2. Day(now) <= Day(Horizon)
      BY DayMonotone, TimeAssumption
    <2>3. Day(now) >= Day(0)
      BY DayMonotone, TimeAssumption
    <2> QED
      BY <2>1, <2>2, <2>3
  <1>4. Opens(r) = DayLength * Day(now) + r.window.start
    BY <1>1, <1>2, TimeAssumption DEF Opens
  <1>5. Hour(Opens(r)) = r.window.start /\ Opens(r) \in Int
    BY <1>1, <1>2, <1>4, TimeOf
  <1>6. DayLength * Day(now) >= 0 /\ DayLength * Day(now) <= DayLength * Day(Horizon)
    BY <1>1, <1>3, TimeAssumption
  <1>7. Opens(r) > now - DayLength /\ Opens(r) < now + DayLength /\ Opens(r) >= 0
    BY <1>1, <1>2, <1>4, <1>6, TimeAssumption
  <1>8. Closes(r) = Opens(r) + r.window.length
    BY DEF Closes
  <1>9. LastPlan = DayLength * Day(Horizon) + 2 * (DayLength - 1)
    BY <1>1, TimeAssumption DEF LastPlan
  <1> QED
    BY <1>1, <1>2, <1>4, <1>5, <1>6, <1>7, <1>8, <1>9, TimeAssumption

Plans == 0..LastPlan \cup {None}

CronOf(r) ==
    IF r # None /\ r.enabled
    THEN cron' \in (now + 1)..(now + DayLength) /\ Hour(cron') = CronHour(r)
    ELSE cron' = None

\* The cron job sync_jobs leaves is that of the row.
LEMMA SyncCron ==
  ASSUME now \in Int, NEW r \in Rows \cup {None}, NEW plan, NEW job, NEW catchup,
         SyncJobs(r, plan, job, catchup)
  PROVE  CronOf(r)
  BY NextFireFacts DEF SyncJobs, CronOf

\* The plan and the one-shot job it leaves.
LEMMA SyncPlan ==
  ASSUME now \in 0..Horizon, NEW r \in Rows \cup {None}, NEW plan \in Plans, NEW job \in Plans,
         NEW catchup \in BOOLEAN, SyncJobs(r, plan, job, catchup)
  PROVE  next' \in Plans /\ exec' \in Plans
  <1>1. CASE r = None \/ ~r.enabled \/ ~catchup \/ r.mode # "range"
    BY <1>1 DEF SyncJobs, Plans
  <1>2. CASE r # None /\ r.enabled /\ catchup /\ r.mode = "range"
    <2>1. Restore(r, plan, job)
      BY <1>2 DEF SyncJobs
    <2>2. Closes(r) \in Nat /\ Closes(r) <= LastPlan /\ LastPlan \in Nat
      BY <1>2, OpensFacts
    <2> QED
      BY <2>1, <2>2, TimeAssumption, NoneAssumption DEF Restore, Plans
  <1> QED
    BY <1>1, <1>2


-----------------------------------------------------------------------------

\* What a process that is down or starting has: nothing from before.
BootInv ==
    /\ phase = "down" => cron = None /\ exec = None /\ queued = {} /\ ~running
    /\ phase = "booting" => cron # now /\ "cron" \notin queued

\* last_run is of a day that has begun; today's is remembered.
DayInv == lastDay # None => lastDay <= Day(now) /\ (lastDay = Day(now) => ranToday)

\* A row that is there is a row.
LEMMA RowIs ==
  ASSUME TypeOK, Exists
  PROVE  row \in Rows /\ \A on \in BOOLEAN : [row EXCEPT !.enabled = on] \in Rows
  BY DEF TypeOK, Exists, Rows

\* The persisted plan and the one-shot job are plans, or there is none.
LEMMA PlansFacts ==
  ASSUME TypeOK
  PROVE  next \in Plans /\ exec \in Plans /\ None \in Plans
  BY DEF TypeOK, Plans

\* The days the model reaches.
LEMMA DayFacts ==
  ASSUME now \in 0..Horizon
  PROVE  Day(now) \in 0..Day(Horizon)
  <1>1. Day(0) = 0
    BY TimeOf, TimeAssumption, DayLength * 0 + 0 = 0
  <1>2. Day(0) <= Day(now) /\ Day(now) <= Day(Horizon)
    BY DayMonotone, TimeAssumption
  <1> QED
    BY <1>1, <1>2, DayHour, TimeAssumption

\* No plan is made behind the last close.
LEMMA TypeStep ==
  ASSUME TypeOK, [Next]_vars
  PROVE  TypeOK'
  <1> USE TimeAssumption, NoneAssumption DEF TypeOK, jobs
  <1>1. CASE Boot
    BY <1>1 DEF Boot
  <1>2. CASE PostStartup
    <2>1. PICK catchup \in BOOLEAN : SyncJobs(row, next, exec, catchup)
      BY <1>2, Zenon DEF PostStartup
    <2>2. CronOf(row)
      BY <2>1, SyncCron
    <2>3. next' \in Plans /\ exec' \in Plans
      BY <2>1, SyncPlan, PlansFacts
    <2>4. cron' \in 0..(Horizon + DayLength) \cup {None}
      BY <2>2 DEF CronOf
    <2> QED
      BY <1>2, <2>3, <2>4 DEF PostStartup, Plans
  <1>3. CASE Crash
    BY <1>3 DEF Crash, Die
  <1>4. CASE Tick
    <2>1. ranToday' \in BOOLEAN /\ owed' \in BOOLEAN /\ done' \in BOOLEAN
      BY <1>4 DEF Tick, PlannedBehind, SameDay
    <2>2. now' \in 0..Horizon
      BY <1>4 DEF Tick
    <2> QED
      BY <1>4, <2>1, <2>2 DEF Tick
  <1>5. CASE SubmitCron
    BY <1>5 DEF SubmitCron
  <1>6. CASE SubmitExec
    BY <1>6 DEF SubmitExec
  <1>7. CASE RunExec
    BY <1>7 DEF RunExec, Execute, StartRun
  <1>8. CASE RunCron
    <2>1. Exists => Opens(row) \in Nat /\ Closes(row) \in Nat /\ Closes(row) <= LastPlan /\ LastPlan \in Nat
      BY RowIs, OpensFacts
    <2>2. next' \in Plans /\ exec' \in Plans
      BY <1>8, <2>1, PlansFacts DEF RunCron, PlanDay, Execute, Mode, Plans
    <2>3. running' \in BOOLEAN /\ ranToday' \in BOOLEAN /\ owed' \in BOOLEAN /\ done' \in BOOLEAN
      BY <1>8 DEF RunCron, Execute, StartRun
    <2> QED
      BY <1>8, <2>2, <2>3 DEF RunCron, Plans
  <1>9. CASE RunEnds
    <2>1. Day(now) \in 0..Day(Horizon)
      BY DayFacts
    <2> QED
      BY <1>9, <2>1 DEF RunEnds
  <1>10. CASE RunManually
    BY <1>10 DEF RunManually, StartRun
  <1>11. CASE ClearHistory
    BY <1>11 DEF ClearHistory
  <1>12. ASSUME NEW r \in Rows, Create(r) PROVE TypeOK'
    <2>1. row' \in Rows
      BY <1>12 DEF Create
    <2>2. PICK catchup \in BOOLEAN : SyncJobs(r, None, exec, catchup)
      BY <1>12, Zenon DEF Create
    <2>3. CronOf(r)
      BY <2>1, <2>2, SyncCron
    <2>4. next' \in Plans /\ exec' \in Plans
      BY <2>1, <2>2, SyncPlan, PlansFacts
    <2>5. cron' \in 0..(Horizon + DayLength) \cup {None}
      BY <2>3 DEF CronOf
    <2> QED
      BY <1>12, <2>1, <2>4, <2>5 DEF Create, Plans, Touched
  <1>13. ASSUME NEW r \in Rows, Update(r) PROVE TypeOK'
    <2>1. row' \in Rows
      BY <1>13 DEF Update
    <2>2. PICK catchup \in BOOLEAN : SyncJobs(r, None, exec, catchup)
      BY <1>13, Zenon DEF Update
    <2>3. CronOf(r)
      BY <2>1, <2>2, SyncCron
    <2>4. next' \in Plans /\ exec' \in Plans
      BY <2>1, <2>2, SyncPlan, PlansFacts
    <2>5. cron' \in 0..(Horizon + DayLength) \cup {None}
      BY <2>3 DEF CronOf
    <2> QED
      BY <1>13, <2>1, <2>4, <2>5 DEF Update, Plans, Touched
  <1>14. ASSUME NEW r \in Rows, Import(r) PROVE TypeOK'
    <2>1. row' \in Rows
      BY <1>14 DEF Import
    <2>2. PICK catchup \in BOOLEAN : SyncJobs(r, next, exec, catchup)
      BY <1>14, Zenon DEF Import
    <2>3. CronOf(r)
      BY <2>1, <2>2, SyncCron
    <2>4. next' \in Plans /\ exec' \in Plans
      BY <2>1, <2>2, SyncPlan, PlansFacts
    <2>5. cron' \in 0..(Horizon + DayLength) \cup {None}
      BY <2>3 DEF CronOf
    <2> QED
      BY <1>14, <2>1, <2>4, <2>5 DEF Import, Plans, Touched
  <1>15. ASSUME NEW r \in Rows, WriteThenCrash(r) PROVE TypeOK'
    BY <1>15 DEF WriteThenCrash, Die
  <1>16. ASSUME NEW on \in BOOLEAN, SetEnabled(on) PROVE TypeOK'
    <2>1. row' \in Rows
      BY <1>16, RowIs DEF SetEnabled
    <2>2. (IF on THEN next ELSE None) \in Plans
      BY PlansFacts
    <2>3. PICK plan \in Plans, catchup \in BOOLEAN : SyncJobs(row', plan, exec, catchup)
      BY <1>16, <2>2, Zenon DEF SetEnabled
    <2>4. CronOf(row')
      BY <2>1, <2>3, SyncCron
    <2>5. next' \in Plans /\ exec' \in Plans
      BY <2>1, <2>3, SyncPlan, PlansFacts
    <2>6. cron' \in 0..(Horizon + DayLength) \cup {None}
      BY <2>4 DEF CronOf
    <2> QED
      BY <1>16, <2>1, <2>5, <2>6 DEF SetEnabled, Plans, Touched
  <1>17. ASSUME NEW on \in BOOLEAN, SyncForAnother(on) PROVE TypeOK'
    <2>1. PICK catchup \in BOOLEAN : SyncJobs(row, next, exec, catchup)
      BY <1>17, Zenon DEF SyncForAnother
    <2>2. CronOf(row)
      BY <2>1, SyncCron
    <2>3. next' \in Plans /\ exec' \in Plans
      BY <2>1, SyncPlan, PlansFacts
    <2>4. cron' \in 0..(Horizon + DayLength) \cup {None}
      BY <2>2 DEF CronOf
    <2> QED
      BY <1>17, <2>3, <2>4 DEF SyncForAnother, Plans
  <1>18. CASE Delete
    <2>1. PICK catchup \in BOOLEAN : SyncJobs(None, None, None, catchup)
      BY <1>18, Zenon DEF Delete
    <2>2. CronOf(None)
      BY <2>1, SyncCron
    <2>3. next' \in Plans /\ exec' \in Plans
      BY <2>1, SyncPlan, PlansFacts
    <2>4. cron' \in 0..(Horizon + DayLength) \cup {None}
      BY <2>2 DEF CronOf
    <2> QED
      BY <1>18, <2>3, <2>4 DEF Delete, Plans, Touched
  <1>19. CASE DeleteConfig
    <2>1. PICK catchup \in BOOLEAN : SyncJobs(None, None, exec, catchup)
      BY <1>19, Zenon DEF DeleteConfig
    <2>2. CronOf(None)
      BY <2>1, SyncCron
    <2>3. next' \in Plans /\ exec' \in Plans
      BY <2>1, SyncPlan, PlansFacts
    <2>4. cron' \in 0..(Horizon + DayLength) \cup {None}
      BY <2>2 DEF CronOf
    <2> QED
      BY <1>19, <2>3, <2>4 DEF DeleteConfig, Plans, Touched
  <1>20. CASE UNCHANGED vars
    BY <1>20 DEF vars
  <1> QED
    BY <1>1, <1>2, <1>3, <1>4, <1>5, <1>6, <1>7, <1>8, <1>9, <1>10, <1>11,
       <1>12, <1>13, <1>14, <1>15, <1>16, <1>17, <1>18, <1>19, <1>20
       DEF Next, Request

\* Every call that changes the row ends with its cron job.
LEMMA CronStep ==
  ASSUME TypeOK, CronFollowsRow, BootInv, [Next]_vars
  PROVE  CronFollowsRow'
  <1> USE TimeAssumption, NoneAssumption DEF TypeOK, CronFollowsRow,
          BootInv, jobs, Exists
  <1>1. CASE Boot
    BY <1>1 DEF Boot
  <1>2. CASE PostStartup
    <2>1. PICK catchup \in BOOLEAN : SyncJobs(row, next, exec, catchup)
      BY <1>2, Zenon DEF PostStartup
    <2>2. CronOf(row)
      BY <2>1, SyncCron
    <2> QED
      BY <1>2, <2>2 DEF PostStartup, CronOf
  <1>3. CASE Crash
    BY <1>3 DEF Crash, Die
  <1>4. CASE Tick
    BY <1>4 DEF Tick
  <1>5. CASE SubmitCron
    BY <1>5, NextDay, RowIs DEF SubmitCron
  <1>6. CASE SubmitExec
    BY <1>6 DEF SubmitExec
  <1>7. CASE RunExec
    BY <1>7 DEF RunExec, Execute, StartRun
  <1>8. CASE RunCron
    BY <1>8 DEF RunCron, Execute, StartRun, PlanDay
  <1>9. CASE RunEnds
    BY <1>9 DEF RunEnds
  <1>10. CASE RunManually
    BY <1>10 DEF RunManually, StartRun
  <1>11. CASE ClearHistory
    BY <1>11 DEF ClearHistory
  <1>12. ASSUME NEW r \in Rows, Create(r) PROVE CronFollowsRow'
    <2>1. row' \in Rows
      BY <1>12 DEF Create
    <2>2. PICK catchup \in BOOLEAN : SyncJobs(r, None, exec, catchup)
      BY <1>12, Zenon DEF Create
    <2>3. CronOf(r)
      BY <2>1, <2>2, SyncCron
    <2> QED
      BY <1>12, <2>1, <2>3 DEF Create, CronOf, Touched
  <1>13. ASSUME NEW r \in Rows, Update(r) PROVE CronFollowsRow'
    <2>1. row' \in Rows
      BY <1>13 DEF Update
    <2>2. PICK catchup \in BOOLEAN : SyncJobs(r, None, exec, catchup)
      BY <1>13, Zenon DEF Update
    <2>3. CronOf(r)
      BY <2>1, <2>2, SyncCron
    <2> QED
      BY <1>13, <2>1, <2>3 DEF Update, CronOf, Touched
  <1>14. ASSUME NEW r \in Rows, Import(r) PROVE CronFollowsRow'
    <2>1. row' \in Rows
      BY <1>14 DEF Import
    <2>2. PICK catchup \in BOOLEAN : SyncJobs(r, next, exec, catchup)
      BY <1>14, Zenon DEF Import
    <2>3. CronOf(r)
      BY <2>1, <2>2, SyncCron
    <2> QED
      BY <1>14, <2>1, <2>3 DEF Import, CronOf, Touched
  <1>15. ASSUME NEW r \in Rows, WriteThenCrash(r) PROVE CronFollowsRow'
    BY <1>15 DEF WriteThenCrash, Die
  <1>16. ASSUME NEW on \in BOOLEAN, SetEnabled(on) PROVE CronFollowsRow'
    <2>1. row' \in Rows
      BY <1>16, RowIs DEF SetEnabled
    <2>2. (IF on THEN next ELSE None) \in Plans
      BY PlansFacts
    <2>3. PICK plan \in Plans, catchup \in BOOLEAN : SyncJobs(row', plan, exec, catchup)
      BY <1>16, <2>2, Zenon DEF SetEnabled
    <2>4. CronOf(row')
      BY <2>1, <2>3, SyncCron
    <2> QED
      BY <1>16, <2>1, <2>4 DEF SetEnabled, CronOf, Touched
  <1>17. ASSUME NEW on \in BOOLEAN, SyncForAnother(on) PROVE CronFollowsRow'
    <2>1. PICK catchup \in BOOLEAN : SyncJobs(row, next, exec, catchup)
      BY <1>17, Zenon DEF SyncForAnother
    <2>2. CronOf(row)
      BY <2>1, SyncCron
    <2> QED
      BY <1>17, <2>2 DEF SyncForAnother, CronOf
  <1>18. CASE Delete
    <2>1. PICK catchup \in BOOLEAN : SyncJobs(None, None, None, catchup)
      BY <1>18, Zenon DEF Delete
    <2>2. CronOf(None)
      BY <2>1, SyncCron
    <2> QED
      BY <1>18, <2>2 DEF Delete, CronOf, Touched
  <1>19. CASE DeleteConfig
    <2>1. PICK catchup \in BOOLEAN : SyncJobs(None, None, exec, catchup)
      BY <1>19, Zenon DEF DeleteConfig
    <2>2. CronOf(None)
      BY <2>1, SyncCron
    <2> QED
      BY <1>19, <2>2 DEF DeleteConfig, CronOf, Touched
  <1>20. CASE UNCHANGED vars
    BY <1>20 DEF vars
  <1> QED
    BY <1>1, <1>2, <1>3, <1>4, <1>5, <1>6, <1>7, <1>8, <1>9, <1>10, <1>11,
       <1>12, <1>13, <1>14, <1>15, <1>16, <1>17, <1>18, <1>19, <1>20
       DEF Next, Request

\* While the process starts no cron job is due.
LEMMA BootStep ==
  ASSUME TypeOK, BootInv, [Next]_vars
  PROVE  BootInv'
  <1> USE TimeAssumption, NoneAssumption DEF TypeOK, BootInv, jobs
  <1>1. CASE Boot
    BY <1>1 DEF Boot
  <1>2. CASE PostStartup
    <2>1. PICK catchup \in BOOLEAN : SyncJobs(row, next, exec, catchup)
      BY <1>2, Zenon DEF PostStartup
    <2>2. CronOf(row)
      BY <2>1, SyncCron
    <2> QED
      BY <1>2, <2>2 DEF PostStartup, CronOf
  <1>3. CASE Crash
    BY <1>3 DEF Crash, Die
  <1>4. CASE Tick
    BY <1>4 DEF Tick
  <1>5. CASE SubmitCron
    BY <1>5 DEF SubmitCron
  <1>6. CASE SubmitExec
    BY <1>6 DEF SubmitExec
  <1>7. CASE RunExec
    BY <1>7 DEF RunExec, Execute, StartRun
  <1>8. CASE RunCron
    BY <1>8 DEF RunCron, Execute, StartRun, PlanDay
  <1>9. CASE RunEnds
    BY <1>9 DEF RunEnds
  <1>10. CASE RunManually
    BY <1>10 DEF RunManually, StartRun
  <1>11. CASE ClearHistory
    BY <1>11 DEF ClearHistory
  <1>12. ASSUME NEW r \in Rows, Create(r) PROVE BootInv'
    <2>1. row' \in Rows
      BY <1>12 DEF Create
    <2>2. PICK catchup \in BOOLEAN : SyncJobs(r, None, exec, catchup)
      BY <1>12, Zenon DEF Create
    <2>3. CronOf(r)
      BY <2>1, <2>2, SyncCron
    <2> QED
      BY <1>12, <2>1, <2>3 DEF Create, CronOf, Touched
  <1>13. ASSUME NEW r \in Rows, Update(r) PROVE BootInv'
    <2>1. row' \in Rows
      BY <1>13 DEF Update
    <2>2. PICK catchup \in BOOLEAN : SyncJobs(r, None, exec, catchup)
      BY <1>13, Zenon DEF Update
    <2>3. CronOf(r)
      BY <2>1, <2>2, SyncCron
    <2> QED
      BY <1>13, <2>1, <2>3 DEF Update, CronOf, Touched
  <1>14. ASSUME NEW r \in Rows, Import(r) PROVE BootInv'
    <2>1. row' \in Rows
      BY <1>14 DEF Import
    <2>2. PICK catchup \in BOOLEAN : SyncJobs(r, next, exec, catchup)
      BY <1>14, Zenon DEF Import
    <2>3. CronOf(r)
      BY <2>1, <2>2, SyncCron
    <2> QED
      BY <1>14, <2>1, <2>3 DEF Import, CronOf, Touched
  <1>15. ASSUME NEW r \in Rows, WriteThenCrash(r) PROVE BootInv'
    BY <1>15 DEF WriteThenCrash, Die
  <1>16. ASSUME NEW on \in BOOLEAN, SetEnabled(on) PROVE BootInv'
    <2>1. row' \in Rows
      BY <1>16, RowIs DEF SetEnabled
    <2>2. (IF on THEN next ELSE None) \in Plans
      BY PlansFacts
    <2>3. PICK plan \in Plans, catchup \in BOOLEAN : SyncJobs(row', plan, exec, catchup)
      BY <1>16, <2>2, Zenon DEF SetEnabled
    <2>4. CronOf(row')
      BY <2>1, <2>3, SyncCron
    <2> QED
      BY <1>16, <2>1, <2>4 DEF SetEnabled, CronOf, Touched
  <1>17. ASSUME NEW on \in BOOLEAN, SyncForAnother(on) PROVE BootInv'
    <2>1. PICK catchup \in BOOLEAN : SyncJobs(row, next, exec, catchup)
      BY <1>17, Zenon DEF SyncForAnother
    <2>2. CronOf(row)
      BY <2>1, SyncCron
    <2> QED
      BY <1>17, <2>2 DEF SyncForAnother, CronOf
  <1>18. CASE Delete
    <2>1. PICK catchup \in BOOLEAN : SyncJobs(None, None, None, catchup)
      BY <1>18, Zenon DEF Delete
    <2>2. CronOf(None)
      BY <2>1, SyncCron
    <2> QED
      BY <1>18, <2>2 DEF Delete, CronOf, Touched
  <1>19. CASE DeleteConfig
    <2>1. PICK catchup \in BOOLEAN : SyncJobs(None, None, exec, catchup)
      BY <1>19, Zenon DEF DeleteConfig
    <2>2. CronOf(None)
      BY <2>1, SyncCron
    <2> QED
      BY <1>19, <2>2 DEF DeleteConfig, CronOf, Touched
  <1>20. CASE UNCHANGED vars
    BY <1>20 DEF vars
  <1> QED
    BY <1>1, <1>2, <1>3, <1>4, <1>5, <1>6, <1>7, <1>8, <1>9, <1>10, <1>11,
       <1>12, <1>13, <1>14, <1>15, <1>16, <1>17, <1>18, <1>19, <1>20
       DEF Next, Request

\* A run that ends today is remembered as today's.
LEMMA DayStep ==
  ASSUME TypeOK, DayInv, [Next]_vars
  PROVE  DayInv'
  <1> USE TimeAssumption, NoneAssumption DEF TypeOK, DayInv, jobs
  <1>1. CASE Boot
    BY <1>1 DEF Boot
  <1>2. CASE PostStartup
    BY <1>2 DEF PostStartup
  <1>3. CASE Crash
    BY <1>3 DEF Crash, Die
  <1>4. CASE Tick
    <2>0. now \in Int /\ now + 1 \in Int /\ now <= now + 1
      OBVIOUS
    <2>1. Day(now) <= Day(now + 1) /\ Day(now) \in Int /\ Day(now + 1) \in Int
      BY <2>0, DayMonotone, DayHour
    <2>2. now' = now + 1 /\ lastDay' = lastDay
      BY <1>4 DEF Tick
    <2>3. ranToday /\ Day(now') = Day(now) => ranToday'
      BY <1>4 DEF Tick
    <2> QED
      BY <2>1, <2>2, <2>3
  <1>5. CASE SubmitCron
    BY <1>5 DEF SubmitCron
  <1>6. CASE SubmitExec
    BY <1>6 DEF SubmitExec
  <1>7. CASE RunExec
    BY <1>7 DEF RunExec, Execute, StartRun
  <1>8. CASE RunCron
    BY <1>8 DEF RunCron, Execute, StartRun, PlanDay
  <1>9. CASE RunEnds
    BY <1>9, DayHour DEF RunEnds
  <1>10. CASE RunManually
    BY <1>10 DEF RunManually, StartRun
  <1>11. CASE ClearHistory
    BY <1>11 DEF ClearHistory
  <1>12. ASSUME NEW r \in Rows, Create(r) PROVE DayInv'
    BY <1>12 DEF Create, Touched
  <1>13. ASSUME NEW r \in Rows, Update(r) PROVE DayInv'
    BY <1>13 DEF Update, Touched
  <1>14. ASSUME NEW r \in Rows, Import(r) PROVE DayInv'
    BY <1>14 DEF Import, Touched
  <1>15. ASSUME NEW r \in Rows, WriteThenCrash(r) PROVE DayInv'
    BY <1>15 DEF WriteThenCrash, Die
  <1>16. ASSUME NEW on \in BOOLEAN, SetEnabled(on) PROVE DayInv'
    BY <1>16 DEF SetEnabled, Touched
  <1>17. ASSUME NEW on \in BOOLEAN, SyncForAnother(on) PROVE DayInv'
    BY <1>17 DEF SyncForAnother
  <1>18. CASE Delete
    BY <1>18 DEF Delete, Touched
  <1>19. CASE DeleteConfig
    BY <1>19 DEF DeleteConfig, Touched
  <1>20. CASE UNCHANGED vars
    BY <1>20 DEF vars
  <1> QED
    BY <1>1, <1>2, <1>3, <1>4, <1>5, <1>6, <1>7, <1>8, <1>9, <1>10, <1>11,
       <1>12, <1>13, <1>14, <1>15, <1>16, <1>17, <1>18, <1>19, <1>20
       DEF Next, Request

-----------------------------------------------------------------------------

\* No plan lies ahead but behind the close.
PlanWithin(close) == next # None /\ next > now => next <= close

\* How the run that is owed comes about: the restart plans it, the cron job
\* that plans it is due or submitted, its one-shot job is set or submitted.
Coming(open, close) ==
    \/ phase # "up" /\ SameDay(row.window)
    \/ /\ now = open
       /\ cron = now \/ "cron" \in queued
       /\ exec # None => exec >= now
       /\ PlanAhead(next) /\ exec # None => exec <= close
    \/ exec # None /\ exec >= now /\ exec <= close
    \/ "exec" \in queued

\* The run is owed since the window opened at open.
OwedSince(open) ==
    /\ open \in 0..now
    /\ Hour(open) = row.window.start
    /\ now <= open + row.window.length
    /\ "cron" \in queued => now = open
    /\ PlanWithin(open + row.window.length)
    /\ Coming(open, open + row.window.length)

OwedInv ==
    owed => /\ Ranged /\ ~ranToday /\ ~running
            /\ \E open : OwedSince(open)

Inv == TypeOK /\ CronFollowsRow /\ BootInv /\ DayInv /\ OwedInv

\* What is owed in a state of the invariant.
LEMMA OwedFacts ==
  ASSUME Inv, owed, NEW open, OwedSince(open)
  PROVE  /\ now \in 0..Horizon /\ open \in 0..now
         /\ row \in Rows /\ row # None /\ row.enabled /\ row.mode = "range"
         /\ row.window.length \in 1..(DayLength - 1)
         /\ now < open + DayLength
         /\ Hour(now) = row.window.start => now = open
         /\ ~RanToday
  <1> USE TimeAssumption, NoneAssumption
  <1>1. row # None /\ row.enabled /\ row.mode = "range"
    BY DEF Inv, OwedInv, Ranged, Mode, Exists
  <1>2. row \in Rows /\ now \in 0..Horizon
    BY <1>1 DEF Inv, TypeOK
  <1>3. row.window.length \in 1..(DayLength - 1) /\ row.window.start \in 0..(DayLength - 1)
    BY <1>2, RowFacts
  <1>4. open \in 0..now /\ Hour(open) = row.window.start /\ now <= open + row.window.length
    BY DEF OwedSince
  <1>5. now \in Int /\ open \in Int /\ now < open + DayLength /\ open < now + DayLength
    BY <1>2, <1>3, <1>4
  <1>6. Hour(now) = row.window.start => now = open
    BY <1>4, <1>5, SameHour
  <1>7. ~RanToday
    <2>1. Day(now) \in Int
      BY <1>5, DayHour
    <2> QED
      BY <2>1 DEF Inv, OwedInv, DayInv, RanToday
  <1> QED
    BY <1>1, <1>2, <1>3, <1>4, <1>5, <1>6, <1>7

\* The window that is open is today's when it does not cross midnight, or
\* when today's has begun.
LEMMA OpensToday ==
  ASSUME Inv, owed, NEW open, OwedSince(open), SameDay(row.window) \/ now >= Opens(row)
  PROVE  Opens(row) = open
  <1> USE TimeAssumption
  <1>1. /\ now \in 0..Horizon /\ open \in 0..now /\ row \in Rows /\ now < open + DayLength
        /\ Hour(open) = row.window.start /\ now <= open + row.window.length
    BY OwedFacts DEF OwedSince
  <1>2. CASE SameDay(row.window)
    <2> DEFINE h == row.window.start + (now - open)
    <2>1. row.window.start \in 0..(DayLength - 1) /\ row.window.length \in 1..(DayLength - 1)
      BY <1>1, RowFacts
    <2>2. h \in 0..(DayLength - 1)
      BY <1>1, <1>2, <2>1 DEF SameDay
    <2>3. open = DayLength * Day(open) + row.window.start /\ Day(open) \in Int
      BY <1>1, DayHour, open \in Int
    <2>4. now = DayLength * Day(open) + h
      BY <1>1, <2>1, <2>3
    <2>5. Day(now) = Day(open)
      BY <2>2, <2>3, <2>4, TimeOf
    <2> QED
      BY <2>1, <2>3, <2>5 DEF Opens
  <1>3. CASE now >= Opens(row)
    <2>1. /\ Opens(row) \in Nat /\ Hour(Opens(row)) = row.window.start
          /\ Opens(row) > now - DayLength
      BY <1>1, OpensFacts
    <2>2. Opens(row) \in Int /\ open \in Int
             /\ Opens(row) < open + DayLength /\ open < Opens(row) + DayLength
      BY <1>1, <1>3, <2>1
    <2> QED
      BY <1>1, <2>1, <2>2, SameHour
  <1> QED
    BY <1>2, <1>3

\* When the run is owed, the restart recovery plans it within the window or
\* finds it is too late.
LEMMA RestoreOwed ==
  ASSUME Inv, owed, NEW open, OwedSince(open), Restore(row, next, exec)
  PROVE  LET close == open + row.window.length
         IN  /\ next' # None /\ next' > now => next' <= close
             /\ \/ exec' # None /\ exec' >= now /\ exec' <= close
                \/ exec' = exec /\ now \notin Opens(row)..(Closes(row) - 1)
  <1> USE TimeAssumption, NoneAssumption
  <1>1. /\ now \in 0..Horizon /\ open \in 0..now /\ row \in Rows /\ ~RanToday
        /\ row.window.length \in 1..(DayLength - 1)
        /\ PlanWithin(open + row.window.length)
    BY OwedFacts DEF OwedSince
  <1>2. Opens(row) \in Nat /\ Closes(row) \in Nat
    BY <1>1, OpensFacts
  <1>3. CASE PlanAhead(next) /\ exec' = next /\ next' = next
    <2>1. next \in 0..LastPlan
      BY <1>3 DEF PlanAhead, Inv, TypeOK
    <2>2. LastPlan \in Nat
      BY <1>1, OpensFacts
    <2> QED
      BY <1>1, <1>3, <2>1, <2>2 DEF PlanAhead, PlanWithin
  <1>4. CASE /\ now \in Opens(row)..(Closes(row) - 1)
             /\ \E n \in now..Closes(row) : exec' = n /\ next' = n
    <2>1. Closes(row) = open + row.window.length
      BY <1>1, <1>2, <1>4, OpensToday DEF Closes
    <2> QED
      BY <1>1, <1>2, <1>4, <2>1
  <1>5. CASE now \notin Opens(row)..(Closes(row) - 1) /\ exec' = exec /\ next' = None
    BY <1>5
  <1> QED
    BY <1>1, <1>3, <1>4, <1>5 DEF Restore

\* The hour at which the window closes.
LEMMA CloseHour ==
  ASSUME Inv, owed, NEW open, OwedSince(open)
  PROVE  Hour(Closes(row)) = Hour(open + row.window.length)
  <1>1. /\ now \in 0..Horizon /\ open \in Int /\ row \in Rows
        /\ row.window.length \in 0..(DayLength - 1) /\ Hour(open) = row.window.start
    BY OwedFacts, TimeAssumption DEF OwedSince
  <1>2. Hour(Opens(row)) = row.window.start /\ Opens(row) \in Int
    BY <1>1, OpensFacts
  <1> QED
    BY <1>1, <1>2, HourLater DEF Closes

\* A run that is owed when an instant passes is planned for a later one.
LEMMA OwedAhead ==
  ASSUME Inv, owed, NEW open, OwedSince(open), Tick
  PROVE  /\ phase # "down" => exec # None /\ exec > now /\ exec <= open + row.window.length
         /\ phase = "down" => SameDay(row.window)
  <1>1. now \in Int /\ open \in Int /\ row.window.length \in Int
    BY OwedFacts, TimeAssumption
  <1>2. Coming(open, open + row.window.length) /\ phase \in {"down", "booting", "up"}
    BY DEF OwedSince, Inv, TypeOK
  <1>3. exec # None => exec \in Int
    <2>1. LastPlan \in Nat
      BY OwedFacts, OpensFacts
    <2> QED
      BY <2>1, TimeAssumption DEF Inv, TypeOK
  <1> QED
    BY <1>1, <1>2, <1>3 DEF Tick, Coming, Inv, BootInv

\* While time passes, something still leads to a run that is owed.
LEMMA OwedTick ==
  ASSUME Inv, Tick, owed'
  PROVE  (Ranged /\ ~ranToday /\ ~running)' /\ \E open : OwedSince(open)'
  <1> USE TimeAssumption, NoneAssumption
  <1>1. /\ now' = now + 1 /\ now \in Int /\ now + 1 \in Int /\ now >= 0
        /\ UNCHANGED <<phase, row, next, lastDay, cron, exec, queued, running>>
    BY DEF Tick, Inv, TypeOK, jobs
  <1>2. CASE Ranged /\ Hour(now') = row.window.start
    <2>1. /\ row # None /\ row.enabled /\ row.mode = "range" /\ row \in Rows
      BY <1>2 DEF Ranged, Mode, Exists, Inv, TypeOK
    <2>2. row.window.length \in 1..(DayLength - 1) /\ CronHour(row) = row.window.start
      BY <2>1, RowFacts
    <2>3. /\ ~ranToday' /\ ~running /\ (phase = "up" \/ SameDay(row.window))
          /\ ~PlannedBehind(now' + row.window.length)
      BY <1>2 DEF Tick
    <2>4. phase = "up" => cron = now + 1
      <3> SUFFICES ASSUME phase = "up" PROVE cron = now + 1
        OBVIOUS
      <3>1. cron \in now..(now + DayLength) /\ Hour(cron) = row.window.start /\ cron # now
        BY <2>1, <2>2 DEF Inv, CronFollowsRow, Exists, Tick
      <3>2. cron \in Int /\ cron < now + 1 + DayLength /\ now + 1 < cron + DayLength
        BY <1>1, <3>1
      <3> QED
        BY <1>1, <1>2, <3>1, <3>2, SameHour
    <2>5. /\ exec # None => exec \in Int /\ exec >= now + 1
          /\ next # None => next \in Int
      <3>1. LastPlan \in Nat
        BY <2>1, OpensFacts DEF Inv, TypeOK
      <3> QED
        BY <1>1, <3>1 DEF Tick, Inv, TypeOK
    <2>6. Coming(now, now + row.window.length)'
      BY <1>1, <2>2, <2>3, <2>4, <2>5 DEF Coming, PlannedBehind, PlanAhead
    <2>7. OwedSince(now)'
      BY <1>1, <1>2, <2>2, <2>3, <2>5, <2>6 DEF OwedSince, PlanWithin, PlannedBehind, Tick
    <2> QED
      BY <1>1, <1>2, <2>3, <2>7 DEF Ranged, Mode, Exists
  <1>3. CASE ~(Ranged /\ Hour(now') = row.window.start)
    <2>1. owed /\ ~(Ranged /\ Hour(now) = Hour(Closes(row)))
      BY <1>3 DEF Tick
    <2>2. Ranged /\ ~ranToday /\ ~running /\ \E open : OwedSince(open)
      BY <2>1 DEF Inv, OwedInv
    <2>3. PICK open : OwedSince(open)
      BY <2>2
    <2>4. now # open + row.window.length
      BY <2>1, <2>2, <2>3, CloseHour
    <2>5. /\ open \in 0..now /\ row.window.length \in 1..(DayLength - 1)
          /\ now <= open + row.window.length
      BY <2>1, <2>3, OwedFacts DEF OwedSince
    <2>6. /\ phase # "down" => exec # None /\ exec > now /\ exec <= open + row.window.length
          /\ phase = "down" => SameDay(row.window)
      BY <2>1, <2>3, OwedAhead
    <2>7. exec # None => exec \in Int
      <3>1. LastPlan \in Nat
        BY <2>1, <2>3, OwedFacts, OpensFacts
      <3> QED
        BY <3>1 DEF Inv, TypeOK
    <2>8. next # None => next \in Int
      <3>1. LastPlan \in Nat
        BY <2>1, <2>3, OwedFacts, OpensFacts
      <3> QED
        BY <3>1 DEF Inv, TypeOK
    <2>9. Coming(open, open + row.window.length)'
      BY <1>1, <2>6, <2>7 DEF Coming
    <2>10. PlanWithin(open + row.window.length)'
      BY <1>1, <2>3, <2>8 DEF OwedSince, PlanWithin
    <2>11. OwedSince(open)'
      BY <1>1, <2>3, <2>4, <2>5, <2>9, <2>10 DEF OwedSince, Tick
    <2>12. ~ranToday'
      BY <2>2 DEF Tick
    <2> QED
      BY <1>1, <2>2, <2>11, <2>12 DEF Ranged, Mode, Exists
  <1> QED
    BY <1>2, <1>3

\* From the opening of a window to its close the run that is owed comes about.
LEMMA OwedStep ==
  ASSUME Inv, [Next]_vars
  PROVE  OwedInv'
  <1> USE TimeAssumption, NoneAssumption DEF jobs
  <1> SUFFICES ASSUME owed' PROVE (Ranged /\ ~ranToday /\ ~running)' /\ \E open : OwedSince(open)'
    BY DEF OwedInv
  <1>0. ASSUME owed
        PROVE  /\ Ranged /\ ~ranToday /\ ~running /\ Exists
               /\ \E open : OwedSince(open)
    BY <1>0 DEF Inv, OwedInv, Ranged, Mode, Exists
  <1>1. CASE Boot
    <2>1. owed
      BY <1>1 DEF Boot
    <2>2. PICK open : OwedSince(open)
      BY <1>0, <2>1
    <2>3. OwedSince(open)'
      <3>1. now \in Int
        BY <2>1, <2>2, OwedFacts
      <3> QED
        BY <1>1, <2>2, <3>1 DEF Boot, OwedSince, Coming, PlanWithin, PlanAhead, Inv, BootInv
    <2> QED
      BY <1>0, <1>1, <2>1, <2>3 DEF Boot, Ranged, Mode, Exists
  <1>2. CASE PostStartup
    <2>1. owed /\ now < Closes(row)
      BY <1>2 DEF PostStartup
    <2>2. PICK open : OwedSince(open)
      BY <1>0, <2>1
    <2>3. Restore(row, next, exec)
      BY <1>2, <2>1, <2>2, OwedFacts DEF PostStartup, SyncJobs
    <2>4. now \in Int /\ Opens(row) \in Nat /\ Closes(row) \in Nat
      BY <2>1, <2>2, OwedFacts, OpensFacts
    <2>5. \/ exec' # None /\ exec' >= now /\ exec' <= open + row.window.length
          \/ exec' = exec /\ now \notin Opens(row)..(Closes(row) - 1)
      BY <2>1, <2>2, <2>3, RestoreOwed
    <2>6. SameDay(row.window) => now \in Opens(row)..(Closes(row) - 1)
      <3>1. open \in 0..now
        BY <2>2 DEF OwedSince
      <3> QED
        BY <2>1, <2>2, <2>4, <3>1, OpensToday
    <2>7. Coming(open, open + row.window.length)'
      BY <1>2, <2>2, <2>5, <2>6 DEF PostStartup, OwedSince, Coming, Inv, BootInv
    <2>8. PlanWithin(open + row.window.length)'
      BY <1>2, <2>1, <2>2, <2>3, RestoreOwed DEF PostStartup, PlanWithin
    <2>9. OwedSince(open)'
      BY <1>2, <2>2, <2>7, <2>8 DEF PostStartup, OwedSince
    <2> QED
      BY <1>0, <1>2, <2>1, <2>9 DEF PostStartup, Ranged, Mode, Exists
  <1>3. CASE Crash
    <2>1. owed /\ SameDay(row.window)
      BY <1>3 DEF Crash
    <2>2. PICK open : OwedSince(open)
      BY <1>0, <2>1
    <2>3. OwedSince(open)'
      BY <1>3, <2>1, <2>2 DEF Crash, Die, OwedSince, Coming, PlanWithin
    <2> QED
      BY <1>0, <1>3, <2>1, <2>3 DEF Crash, Die, Ranged, Mode, Exists
  <1>5. CASE SubmitCron
    <2>1. owed
      BY <1>5 DEF SubmitCron
    <2>2. PICK open : OwedSince(open)
      BY <1>0, <2>1
    <2>3. now = open /\ now \in Int
      <3>1. /\ now \in Int /\ row \in Rows /\ row # None /\ row.enabled /\ row.mode = "range"
            /\ Hour(now) = row.window.start => now = open
        BY <2>1, <2>2, OwedFacts
      <3>2. phase = "up"
        BY <1>5, <3>1 DEF SubmitCron, Inv, TypeOK, BootInv
      <3>3. Hour(now) = row.window.start
        BY <1>5, <3>1, <3>2, RowFacts DEF SubmitCron, Inv, CronFollowsRow, Exists
      <3> QED
        BY <3>1, <3>3
    <2>4. OwedSince(open)'
      BY <1>5, <2>2, <2>3 DEF SubmitCron, OwedSince, Coming, PlanWithin, PlanAhead
    <2> QED
      BY <1>0, <1>5, <2>1, <2>4 DEF SubmitCron, Ranged, Mode, Exists
  <1>6. CASE SubmitExec
    <2>1. owed
      BY <1>6 DEF SubmitExec
    <2>2. PICK open : OwedSince(open)
      BY <1>0, <2>1
    <2>3. now \in Int /\ exec \in Int
      <3>1. now \in Int /\ LastPlan \in Nat
        BY <2>1, <2>2, OwedFacts, OpensFacts
      <3> QED
        BY <1>6, <3>1 DEF SubmitExec, Inv, TypeOK
    <2>4. OwedSince(open)'
      BY <1>6, <2>2, <2>3 DEF SubmitExec, OwedSince, Coming, PlanWithin, PlanAhead
    <2> QED
      BY <1>0, <1>6, <2>1, <2>4 DEF SubmitExec, Ranged, Mode, Exists
  <1>7. CASE RunExec
    BY <1>0, <1>7 DEF RunExec, Execute, StartRun
  <1>8. CASE RunCron
    <2>1. owed
      BY <1>8 DEF RunCron, Execute, StartRun
    <2>2. PICK open : OwedSince(open)
      BY <1>0, <2>1
    <2>3. now = open /\ now \in Int /\ Mode = "range" /\ Exists
      <3>1. now \in Int /\ row # None /\ row.mode = "range"
        BY <2>1, <2>2, OwedFacts
      <3> QED
        BY <1>8, <2>2, <3>1 DEF RunCron, OwedSince, Mode, Exists
    <2>4. CASE PlanAhead(next) /\ exec # None /\ UNCHANGED <<next, exec, running, ranToday>>
      BY <1>0, <1>8, <2>1, <2>2, <2>3, <2>4
         DEF RunCron, OwedSince, Coming, PlanWithin, Ranged, Mode, Exists
    <2>5. CASE PlanDay(row) /\ UNCHANGED <<running, ranToday>>
      <3>1. Opens(row) = open
        <4>1. /\ now \in 0..Horizon /\ row \in Rows /\ open \in 0..now
              /\ Hour(open) = row.window.start
          BY <2>1, <2>2, OwedFacts DEF OwedSince
        <4>2. /\ Hour(Opens(row)) = row.window.start /\ Opens(row) \in Nat
              /\ Opens(row) > now - DayLength /\ Opens(row) < now + DayLength
          BY <4>1, OpensFacts
        <4>3. /\ Opens(row) \in Int /\ open \in Int
              /\ Opens(row) < open + DayLength /\ open < Opens(row) + DayLength
          BY <2>3, <4>1, <4>2
        <4> QED
          BY <4>1, <4>2, <4>3, SameHour
      <3>2. PICK n \in open..(open + row.window.length) : exec' = n /\ next' = n
        BY <2>5, <3>1 DEF PlanDay, Closes
      <3>3. n \in Int /\ n # None /\ n >= now
        BY <2>3, <3>2
      <3> QED
        BY <1>0, <1>8, <2>1, <2>2, <2>3, <2>5, <3>2, <3>3
           DEF RunCron, OwedSince, Coming, PlanWithin, Ranged, Mode, Exists
    <2> QED
      BY <1>8, <2>3, <2>4, <2>5 DEF RunCron
  <1>9. CASE ClearHistory
    <2>1. owed
      BY <1>9 DEF ClearHistory
    <2>2. PICK open : OwedSince(open)
      BY <1>0, <2>1
    <2>3. OwedSince(open)'
      BY <1>9, <2>2 DEF ClearHistory, OwedSince, Coming, PlanWithin, PlanAhead
    <2> QED
      BY <1>0, <1>9, <2>1, <2>3 DEF ClearHistory, Ranged, Mode, Exists
  <1>10. ASSUME NEW on \in BOOLEAN, SyncForAnother(on)
         PROVE  (Ranged /\ ~ranToday /\ ~running)' /\ \E open : OwedSince(open)'
    <2>1. owed /\ cron # now
      BY <1>10 DEF SyncForAnother
    <2>2. PICK open : OwedSince(open)
      BY <1>0, <2>1
    <2>3. now \in Int /\ row # None /\ row.enabled /\ row.mode = "range" /\ row \in Rows
             /\ open \in 0..now /\ row.window.length \in 1..(DayLength - 1)
      BY <2>1, <2>2, OwedFacts
    <2>4. (on /\ Restore(row, next, exec)) \/ (exec' = exec /\ next' = next)
      BY <1>10, <2>3 DEF SyncForAnother, SyncJobs
    <2>5. CASE on /\ Restore(row, next, exec)
      <3>1. \/ exec' # None /\ exec' >= now /\ exec' <= open + row.window.length
            \/ exec' = exec /\ now \notin Opens(row)..(Closes(row) - 1)
        BY <2>1, <2>2, <2>5, RestoreOwed
      <3>2. now = open => now \in Opens(row)..(Closes(row) - 1)
        <4>1. ASSUME now = open PROVE Opens(row) = open
          <5>1. /\ now \in 0..Horizon /\ Hour(open) = row.window.start
            BY <2>1, <2>2, OwedFacts DEF OwedSince
          <5>2. /\ Hour(Opens(row)) = row.window.start /\ Opens(row) \in Nat
                /\ Opens(row) > now - DayLength /\ Opens(row) < now + DayLength
            BY <2>3, <5>1, OpensFacts
          <5>3. /\ Opens(row) \in Int /\ open \in Int
                /\ Opens(row) < open + DayLength /\ open < Opens(row) + DayLength
            BY <2>3, <4>1, <5>2
          <5> QED
            BY <5>1, <5>2, <5>3, SameHour
        <4> QED
          BY <2>3, <4>1 DEF Closes
      <3>3. Coming(open, open + row.window.length)'
        BY <1>10, <2>1, <2>2, <3>1, <3>2 DEF SyncForAnother, OwedSince, Coming
      <3>4. PlanWithin(open + row.window.length)'
        BY <1>10, <2>1, <2>2, <2>5, RestoreOwed DEF SyncForAnother, PlanWithin
      <3>5. OwedSince(open)'
        BY <1>10, <2>2, <3>3, <3>4 DEF SyncForAnother, OwedSince
      <3> QED
        BY <1>0, <1>10, <2>1, <3>5 DEF SyncForAnother, Ranged, Mode, Exists
    <2>6. CASE exec' = exec /\ next' = next
      <3>1. OwedSince(open)'
        BY <1>10, <2>1, <2>2, <2>6
           DEF SyncForAnother, OwedSince, Coming, PlanWithin, PlanAhead
      <3> QED
        BY <1>0, <1>10, <2>1, <3>1 DEF SyncForAnother, Ranged, Mode, Exists
    <2> QED
      BY <2>4, <2>5, <2>6
  <1>11. CASE Tick
    BY <1>11, OwedTick
  <1>12. CASE UNCHANGED vars
    BY <1>0, <1>12 DEF vars, OwedSince, Coming, PlanWithin, PlanAhead, Ranged, Mode, Exists
  <1> QED
    BY <1>1, <1>2, <1>3, <1>5, <1>6, <1>7, <1>8, <1>9, <1>10, <1>11, <1>12
       DEF Next, Request, RunEnds, RunManually, StartRun, Create, Update, Import, WriteThenCrash,
           SetEnabled, Touched, Delete, DeleteConfig

\* The invariant holds in every reachable state.
THEOREM InvHolds == Spec => []Inv
  <1>1. Init => Inv
    <2> SUFFICES ASSUME Init PROVE Inv
      OBVIOUS
    <2>1. now \in 0..Horizon
      BY TimeAssumption DEF Init
    <2>2. TypeOK
      BY <2>1, Zenon DEF Init, TypeOK
    <2> QED
      BY <2>2, NoneAssumption DEF Init, Inv, CronFollowsRow, BootInv, DayInv, OwedInv
  <1>2. Inv /\ [Next]_vars => Inv'
    BY TypeStep, CronStep, BootStep, DayStep, OwedStep DEF Inv
  <1> QED
    BY <1>1, <1>2, PTL DEF Spec

(***************************************************************************)
(* No job and no plan is set behind the close of the last window           *)
(* (scheduler/__init__.py:_parse_range_window, create_cron_trigger).       *)
(***************************************************************************)
THEOREM TypeCorrect == Spec => []TypeOK
  BY InvHolds, PTL DEF Inv

(***************************************************************************)
(* Whoever changes a task, and however often the service restarts, its     *)
(* cron job is there exactly when the task is enabled, and due at the next *)
(* time of its schedule (scheduler/__init__.py:sync_jobs).                 *)
(***************************************************************************)
THEOREM CronCorrect == Spec => []CronFollowsRow
  BY InvHolds, PTL DEF Inv

(***************************************************************************)
(* A plan that is persisted is carried out: it has its one-shot job        *)
(* whenever it is made, restored or kept beside it                         *)
(* (scheduler/__init__.py:_restore_pending_range_jobs).                    *)
(***************************************************************************)
THEOREM PlanCorrect == Spec => PlanHasJob
  <1> DEFINE Carried ==
        (/\ phase' = "up" /\ Ranged' /\ row' = row
         /\ next' # None /\ next' > now'
         /\ phase = "booting" \/ next' # next \/ exec = next)
          => exec' = next'
  <1>1. TypeOK /\ [Next]_vars => [Carried]_vars
    <2> SUFFICES ASSUME TypeOK, Next, phase' = "up", Ranged', row' = row, next' # None,
                        next' > now', phase = "booting" \/ next' # next \/ exec = next
                 PROVE  exec' = next'
      OBVIOUS
    <2> USE NoneAssumption DEF jobs
    <2>0. row' # None /\ row'.enabled /\ row'.mode = "range"
      BY DEF Ranged, Mode, Exists
    <2>1. ASSUME NEW plan, Restore(row, plan, exec) PROVE exec' = next'
      BY <2>1 DEF Restore
    <2>2. CASE PostStartup
      BY <2>0, <2>1, <2>2 DEF PostStartup, SyncJobs
    <2>3. CASE Tick \/ SubmitCron \/ RunEnds \/ RunManually \/ ClearHistory
      BY <2>3 DEF Tick, SubmitCron, RunEnds, RunManually, ClearHistory
    <2>4. CASE SubmitExec
      <3>1. LastPlan \in Int
        BY TimeAssumption, DayHour DEF LastPlan
      <3> QED
        BY <2>4, <3>1 DEF SubmitExec, TypeOK
    <2>5. CASE RunExec
      BY <2>5 DEF RunExec, Execute
    <2>6. CASE RunCron
      BY <2>6 DEF RunCron, PlanDay, Execute
    <2>7. ASSUME NEW r \in Rows, Create(r) \/ Update(r) PROVE exec' = next'
      BY <2>0, <2>7 DEF Create, Update, SyncJobs
    <2>8. ASSUME NEW r \in Rows, Import(r) PROVE exec' = next'
      BY <2>0, <2>8 DEF Import, SyncJobs
    <2>9. ASSUME NEW on \in BOOLEAN, SetEnabled(on) PROVE exec' = next'
      <3>1. on
        BY <2>0, <2>9 DEF SetEnabled, TypeOK, Rows, Exists
      <3> QED
        BY <2>0, <2>1, <2>9, <3>1 DEF SetEnabled, SyncJobs
    <2>10. ASSUME NEW on \in BOOLEAN, SyncForAnother(on) PROVE exec' = next'
      BY <2>0, <2>1, <2>10 DEF SyncForAnother, SyncJobs
    <2>11. CASE Delete \/ DeleteConfig
      BY <2>0, <2>11 DEF Delete, DeleteConfig
    <2>12. CASE Boot \/ Crash \/ \E r \in Rows : WriteThenCrash(r)
      BY <2>12 DEF Boot, Crash, WriteThenCrash, Die
    <2> QED
      BY <2>2, <2>3, <2>4, <2>5, <2>6, <2>7, <2>8, <2>9, <2>10, <2>11, <2>12 DEF Next, Request
  <1> QED
    BY TypeCorrect, <1>1, PTL DEF Spec, PlanHasJob

(***************************************************************************)
(* A paused task gains no one-shot job, whatever is requested and however  *)
(* often the service restarts, except from a cron job submitted before     *)
(* (scheduler/__init__.py:_job_run_sign_task).                             *)
(***************************************************************************)
THEOREM PausedCorrect == Spec => PausedGainsNoPlan
  <1> DEFINE Alone ==
        row' # None /\ ~row'.enabled /\ exec' # exec /\ exec' # None => "cron" \in queued
  <1>1. TypeOK /\ [Next]_vars => [Alone]_vars
    <2> SUFFICES ASSUME TypeOK, Next, row' # None, ~row'.enabled, exec' # exec, exec' # None
                 PROVE  "cron" \in queued
      OBVIOUS
    <2> USE DEF jobs
    <2>1. CASE PostStartup \/ \E on \in BOOLEAN : SetEnabled(on) \/ SyncForAnother(on)
      BY <2>1 DEF PostStartup, SetEnabled, SyncForAnother, SyncJobs
    <2>2. CASE \E r \in Rows : Create(r) \/ Update(r) \/ Import(r) \/ WriteThenCrash(r)
      BY <2>2 DEF Create, Update, Import, WriteThenCrash, Die, SyncJobs
    <2>3. CASE RunCron
      BY <2>3 DEF RunCron
    <2>4. CASE \/ Boot \/ Crash \/ Tick \/ SubmitCron \/ SubmitExec \/ RunExec \/ RunEnds
               \/ RunManually \/ ClearHistory \/ Delete \/ DeleteConfig
      BY <2>4 DEF Boot, Crash, Die, Tick, SubmitCron, SubmitExec, RunExec, RunEnds,
                  RunManually, ClearHistory, Delete, DeleteConfig
    <2> QED
      BY <2>1, <2>2, <2>3, <2>4 DEF Next, Request
  <1> QED
    BY TypeCorrect, <1>1, PTL DEF Spec, PausedGainsNoPlan

(***************************************************************************)
(* The day's run takes place, for days of any length, any windows and any  *)
(* order of requests, crashes and restarts, but for the excuses that       *)
(* DailyRun names (scheduler/__init__.py:_job_run_sign_task,               *)
(* _restore_pending_range_jobs, _schedule_startup_range_catchups).         *)
(***************************************************************************)
THEOREM DailyRunCorrect == Spec => DailyRun
  <1> DEFINE Kept == phase = "up" /\ Ranged /\ now' > now /\ Hour(now) = Hour(Closes(row)) => ~owed
  <1>1. Inv /\ [Next]_vars => [Kept]_vars
    <2> SUFFICES ASSUME Inv, Next, phase = "up", Ranged, now' > now,
                        Hour(now) = Hour(Closes(row)), owed
                 PROVE  FALSE
      OBVIOUS
    <2>1. Tick
      <3>1. now \in Int /\ ~(now > now)
        BY TimeAssumption DEF Inv, TypeOK
      <3> QED
        BY <3>1 DEF Next, Request, Boot, PostStartup, Crash, SubmitCron, SubmitExec, RunExec,
             RunCron, RunEnds, RunManually, ClearHistory, Create, Update, Import,
             WriteThenCrash, SetEnabled, SyncForAnother, Delete, DeleteConfig
    <2>2. PICK open : OwedSince(open)
      BY DEF Inv, OwedInv
    <2>3. exec > now /\ exec <= open + row.window.length /\ exec # None
      BY <2>1, <2>2, OwedAhead
    <2>4. /\ now \in Int /\ open \in 0..now /\ row.window.length \in 1..(DayLength - 1)
          /\ now <= open + row.window.length /\ LastPlan \in Nat
      BY <2>2, OwedFacts, OpensFacts DEF OwedSince
    <2>5. exec \in Int
      BY <2>3, <2>4 DEF Inv, TypeOK
    <2>6. now = open + row.window.length
      <3>1. Hour(now) = Hour(open + row.window.length)
        BY <2>2, CloseHour
      <3>2. /\ open + row.window.length \in Int
            /\ now < open + row.window.length + DayLength
            /\ open + row.window.length < now + DayLength
        BY <2>4, TimeAssumption
      <3> QED
        BY <2>4, <3>1, <3>2, SameHour
    <2> QED
      BY <2>3, <2>4, <2>5, <2>6
  <1> QED
    BY InvHolds, <1>1, PTL DEF Spec, DailyRun

=============================================================================
