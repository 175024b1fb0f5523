--------------------------- MODULE TaskExecution ---------------------------
(***************************************************************************)
(* Execution of sign tasks: SignTaskService.start_task_in_background and   *)
(* SignTaskExecutor.run_task_with_logs, with the two asyncio primitives    *)
(* every run passes through, the per-account lock and the global           *)
(* semaphore.  A run is a coroutine on one event loop: an action is what   *)
(* it does between two awaits.                                             *)
(*                                                                         *)
(* A member of Runs is a slot for one coroutine that executes the task     *)
(* TaskOf[r]; it returns to "idle" when that coroutine ends and may then   *)
(* stand for the next one.  Members of BackgroundRuns are created by       *)
(* start_task_in_background, the others call run_task_with_logs directly   *)
(* (the scheduler's jobs).  Waiting for the lock or the semaphore is not   *)
(* ordered here: asyncio serves waiters first come first served, which is  *)
(* one of the orders allowed.                                              *)
(***************************************************************************)
EXTENDS Integers, FiniteSets

CONSTANTS
    Runs,            \* slots for runs in flight
    BackgroundRuns,  \* the slots started by start_task_in_background
    Tasks,           \* the task keys (account_name, task_name)
    Accounts,
    TaskOf,          \* the task a slot executes
    AccountOf,       \* the account of a task
    GlobalLimit,     \* TG_GLOBAL_CONCURRENCY
    RetryCount,      \* retry_count of the task configuration
    SessionRetries,  \* max_session_retries
    Cooldown,        \* _account_cooldown_seconds, in ticks
    Free             \* value of a lock nobody holds

ASSUME RunsAssumption ==
    /\ IsFiniteSet(Runs)
    /\ Free \notin Runs
    /\ BackgroundRuns \subseteq Runs
    /\ TaskOf \in [Runs -> Tasks]
    /\ AccountOf \in [Tasks -> Accounts]

ASSUME BoundsAssumption ==
    /\ GlobalLimit \in Nat \ {0}
    /\ RetryCount \in Nat
    /\ SessionRetries \in Nat \ {0}
    /\ Cooldown \in Nat

VARIABLES
    pc,          \* where each run is suspended
    starting,    \* _starting_tasks
    active,      \* the keys whose _active_tasks entry is True
    lock,        \* holder of each account's asyncio.Lock
    permits,     \* value of the global semaphore
    child,       \* state of the asyncio task around signer.run_once
    attempt,     \* current_task_attempt
    session,     \* attempt of the inner, "database is locked" loop
    coolLeft,    \* ticks until now - _account_last_run_end exceeds Cooldown
    sleepLeft,   \* ticks left of the run's own cooldown sleep
    restLeft,    \* history: ticks until Cooldown after a run last drove the account
    cancelling,  \* runs whose task.cancel() is not delivered yet
    down         \* shutdown_scheduler() was called

vars == <<pc, starting, active, lock, permits, child, attempt, session,
          coolLeft, sleepLeft, restLeft, cancelling, down>>

Account(r) == AccountOf[TaskOf[r]]

(***************************************************************************)
(* Suspension points of run_task_with_logs.  "created" is the coroutine of *)
(* start_task_in_background before its first step.                         *)
(***************************************************************************)
HoldSlot == {"running", "grace", "session_retry", "task_retry"}
HoldLock == {"cooldown", "slot_wait", "settle", "cleanup"} \cup HoldSlot
Gated    == {"lock_wait"} \cup HoldLock
Points   == {"idle", "created"} \cup Gated

(***************************************************************************)
(* A cancellation is delivered at the next step of the run, in place of    *)
(* what it waited for.                                                     *)
(***************************************************************************)
At(r, point) == pc[r] = point /\ r \notin cancelling

Go(r, point) == pc' = [pc EXCEPT ![r] = point]

(***************************************************************************)
(* The finally block.  It first stamps _account_last_run_end, whether or   *)
(* not the run ever held the lock; a run that built a signer then awaits   *)
(* the shielded client cleanup, and every run ends by releasing the lock   *)
(* it holds and clearing its flags in one step.                            *)
(***************************************************************************)
StampRunEnd(r) == coolLeft' = [coolLeft EXCEPT ![Account(r)] = Cooldown]

EnterCleanup(r) == Go(r, "cleanup") /\ StampRunEnd(r)

ClearFlags(r) ==
    /\ Go(r, "idle")
    /\ active' = active \ {TaskOf[r]}
    /\ starting' = IF r \in BackgroundRuns THEN starting \ {TaskOf[r]}
                                           ELSE starting

ReleaseLock(r) == lock' = [lock EXCEPT ![Account(r)] = Free]

ReleaseSlot == permits' = permits + 1

StopDriving(r) == restLeft' = [restLeft EXCEPT ![Account(r)] = Cooldown]

-----------------------------------------------------------------------------

Init ==
    /\ pc = [r \in Runs |-> "idle"]
    /\ starting = {}
    /\ active = {}
    /\ lock = [a \in Accounts |-> Free]
    /\ permits = GlobalLimit
    /\ child = [r \in Runs |-> "none"]
    /\ attempt = [r \in Runs |-> 0]
    /\ session = [r \in Runs |-> 0]
    /\ coolLeft = [a \in Accounts |-> 0]
    /\ sleepLeft = [r \in Runs |-> 0]
    /\ restLeft = [a \in Accounts |-> 0]
    /\ cancelling = {}
    /\ down = FALSE

(***************************************************************************)
(* start_task_in_background: is_task_running, then the key is reported as  *)
(* running before the coroutine takes its first step.                      *)
(***************************************************************************)
IsTaskRunning(k) == k \in starting \/ k \in active

StartInBackground(r) ==
    /\ ~down
    /\ r \in BackgroundRuns
    /\ pc[r] = "idle" /\ child[r] = "none"
    /\ ~IsTaskRunning(TaskOf[r])
    /\ starting' = starting \cup {TaskOf[r]}
    /\ Go(r, "created")
    /\ UNCHANGED <<active, lock, permits, child, attempt, session, coolLeft,
                   sleepLeft, restLeft, cancelling, down>>

(***************************************************************************)
(* The first step of run_task_with_logs, up to account_lock.acquire(): the *)
(* gate reads _active_tasks only, so a job of the scheduler may pass while *)
(* a background coroutine for its key is still "created".                  *)
(***************************************************************************)
PassGate(r) ==
    /\ TaskOf[r] \notin active
    /\ active' = active \cup {TaskOf[r]}
    /\ Go(r, "lock_wait")

RunScheduled(r) ==
    /\ ~down
    /\ r \in Runs \ BackgroundRuns
    /\ pc[r] = "idle" /\ child[r] = "none"
    /\ PassGate(r)
    /\ UNCHANGED <<starting, lock, permits, child, attempt, session, coolLeft,
                   sleepLeft, restLeft, cancelling, down>>

BeginInBackground(r) ==
    /\ At(r, "created")
    /\ \/ /\ PassGate(r)
          /\ UNCHANGED starting
       \/ /\ TaskOf[r] \in active     \* task_already_running_result()
          /\ Go(r, "idle")
          /\ starting' = starting \ {TaskOf[r]}
          /\ UNCHANGED active
    /\ UNCHANGED <<lock, permits, child, attempt, session, coolLeft,
                   sleepLeft, restLeft, cancelling, down>>

(***************************************************************************)
(* The synchronous part between the cooldown and the semaphore: the run    *)
(* fails without a signer when the credentials or the account's session    *)
(* string are missing, and goes on to wait for a slot otherwise.           *)
(***************************************************************************)
BuildSigner(r) ==
    \/ /\ Go(r, "slot_wait")
       /\ lock' = [lock EXCEPT ![Account(r)] = r]
       /\ UNCHANGED <<active, starting, coolLeft>>
    \/ /\ ClearFlags(r)
       /\ ReleaseLock(r)
       /\ StampRunEnd(r)

(***************************************************************************)
(* The lock is granted.  The rest of the cooldown is computed once, here,  *)
(* and slept through.                                                      *)
(***************************************************************************)
AcquireLock(r) ==
    /\ At(r, "lock_wait")
    /\ lock[Account(r)] = Free
    /\ \/ /\ coolLeft[Account(r)] > 0
          /\ Go(r, "cooldown")
          /\ lock' = [lock EXCEPT ![Account(r)] = r]
          /\ sleepLeft' = [sleepLeft EXCEPT ![r] = coolLeft[Account(r)]]
          /\ UNCHANGED <<active, starting, coolLeft>>
       \/ /\ coolLeft[Account(r)] = 0
          /\ BuildSigner(r)
          /\ UNCHANGED sleepLeft
    /\ UNCHANGED <<permits, child, attempt, session, restLeft, cancelling, down>>

(* Faulty: the cooldown sleep is cut short. *)
FinishCooldownEarly(r) ==
    /\ At(r, "cooldown")
    /\ BuildSigner(r)
    /\ sleepLeft' = [sleepLeft EXCEPT ![r] = 0]
    /\ UNCHANGED <<permits, child, attempt, session, restLeft, cancelling, down>>

FinishCooldown(r) ==
    /\ At(r, "cooldown")
    /\ sleepLeft[r] = 0
    /\ BuildSigner(r)
    /\ UNCHANGED <<permits, child, attempt, session, sleepLeft, restLeft,
                   cancelling, down>>

(* Faulty: the lock wait is outside the try, nothing clears the flags. *)
LockWaitEscapes(r) ==
    /\ At(r, "lock_wait")
    /\ Go(r, "idle")
    /\ UNCHANGED <<starting, active, lock, permits, child, attempt, session,
                   coolLeft, sleepLeft, restLeft, cancelling, down>>

(* AccountLockWaitTimeoutError: no signer, no lock. *)
LockWaitTimesOut(r) ==
    /\ At(r, "lock_wait")
    /\ ClearFlags(r)
    /\ StampRunEnd(r)
    /\ UNCHANGED <<lock, permits, child, attempt, session, sleepLeft, restLeft,
                   cancelling, down>>

(* _run_signer_once_with_timeout creates the task around signer.run_once. *)
RunSigner(r, a, s) ==
    /\ Go(r, "running")
    /\ child' = [child EXCEPT ![r] = "running"]
    /\ attempt' = [attempt EXCEPT ![r] = a]
    /\ session' = [session EXCEPT ![r] = s]

AcquireSlot(r) ==
    /\ At(r, "slot_wait")
    /\ permits > 0
    /\ permits' = permits - 1
    /\ RunSigner(r, 1, 1)
    /\ UNCHANGED <<starting, active, lock, coolLeft, sleepLeft, restLeft,
                   cancelling, down>>

(* Faulty: the semaphore is released without having been acquired. *)
SlotWaitReleases(r) ==
    /\ At(r, "slot_wait")
    /\ EnterCleanup(r)
    /\ ReleaseSlot
    /\ UNCHANGED <<starting, active, lock, child, attempt, session, sleepLeft,
                   restLeft, cancelling, down>>

(* GlobalConcurrencyWaitTimeoutError: the signer exists and is cleaned up. *)
SlotWaitTimesOut(r) ==
    /\ At(r, "slot_wait")
    /\ EnterCleanup(r)
    /\ UNCHANGED <<starting, active, lock, permits, child, attempt, session,
                   sleepLeft, restLeft, cancelling, down>>

(***************************************************************************)
(* How signer.run_once ends while the run awaits it.                       *)
(***************************************************************************)
SignerEnds(r) ==
    /\ At(r, "running")
    /\ child[r] = "running"
    /\ child' = [child EXCEPT ![r] = "none"]
    /\ StopDriving(r)

SignerSucceeds(r) ==
    /\ SignerEnds(r)
    /\ ReleaseSlot
    /\ Go(r, "settle")
    /\ UNCHANGED <<starting, active, lock, attempt, session, coolLeft,
                   sleepLeft, cancelling, down>>

(* Faulty: one session attempt too many. *)
SessionLockedOnceMore(r) ==
    /\ SignerEnds(r)
    /\ session[r] <= SessionRetries
    /\ Go(r, "session_retry")
    /\ UNCHANGED <<starting, active, lock, permits, attempt, session, coolLeft,
                   sleepLeft, cancelling, down>>

(* "database is locked" with session attempts left: sleep, then run again. *)
SessionLocked(r) ==
    /\ SignerEnds(r)
    /\ session[r] < SessionRetries
    /\ Go(r, "session_retry")
    /\ UNCHANGED <<starting, active, lock, permits, attempt, session, coolLeft,
                   sleepLeft, cancelling, down>>

(* Faulty: the slot is given back for the sleep and not taken again. *)
BusinessFailsReleasing(r) ==
    /\ SignerEnds(r)
    /\ attempt[r] < RetryCount + 1
    /\ ReleaseSlot
    /\ Go(r, "task_retry")
    /\ UNCHANGED <<starting, active, lock, attempt, session, coolLeft,
                   sleepLeft, cancelling, down>>

(* BusinessRetryableError with task attempts left: sleep, then run again. *)
BusinessFails(r) ==
    /\ SignerEnds(r)
    /\ attempt[r] < RetryCount + 1
    /\ Go(r, "task_retry")
    /\ UNCHANGED <<starting, active, lock, permits, attempt, session, coolLeft,
                   sleepLeft, cancelling, down>>

(* Any other exception, and either of those with no attempt left. *)
SignerFails(r) ==
    /\ SignerEnds(r)
    /\ ReleaseSlot
    /\ EnterCleanup(r)
    /\ UNCHANGED <<starting, active, lock, attempt, session, sleepLeft,
                   cancelling, down>>

RetrySession(r) ==
    /\ At(r, "session_retry")
    /\ RunSigner(r, attempt[r], session[r] + 1)
    /\ UNCHANGED <<starting, active, lock, permits, coolLeft, sleepLeft,
                   restLeft, cancelling, down>>

RetryTask(r) ==
    /\ At(r, "task_retry")
    /\ RunSigner(r, attempt[r] + 1, 1)
    /\ UNCHANGED <<starting, active, lock, permits, coolLeft, sleepLeft,
                   restLeft, cancelling, down>>

(* Faulty: only the first attempt runs under the timeout. *)
SignerTimesOutOnce(r) ==
    /\ At(r, "running")
    /\ attempt[r] = 1
    /\ Go(r, "grace")
    /\ child' = [child EXCEPT ![r] = "cancelled"]
    /\ UNCHANGED <<starting, active, lock, permits, attempt, session, coolLeft,
                   sleepLeft, restLeft, cancelling, down>>

(***************************************************************************)
(* The outer timeout cancels the task and gives it a short grace.  Whether *)
(* it has finished unwinding by then or not, the run raises                *)
(* TaskRunTimeoutError, which no loop retries.                             *)
(***************************************************************************)
SignerTimesOut(r) ==
    /\ At(r, "running")
    /\ Go(r, "grace")
    /\ child' = [child EXCEPT ![r] = "cancelled"]
    /\ UNCHANGED <<starting, active, lock, permits, attempt, session, coolLeft,
                   sleepLeft, restLeft, cancelling, down>>

(* Faulty: the outer timeout is retried like a business failure. *)
GraceEndsRetrying(r) ==
    /\ At(r, "grace")
    /\ attempt[r] < RetryCount + 1
    /\ Go(r, "task_retry")
    /\ StopDriving(r)
    /\ UNCHANGED <<starting, active, lock, permits, child, attempt, session,
                   coolLeft, sleepLeft, cancelling, down>>

(* Faulty: the run awaits the cancelled task without a bound. *)
GraceEndsWithSigner(r) ==
    /\ At(r, "grace")
    /\ child[r] = "none"
    /\ ReleaseSlot
    /\ EnterCleanup(r)
    /\ StopDriving(r)
    /\ UNCHANGED <<starting, active, lock, child, attempt, session, sleepLeft,
                   cancelling, down>>

GraceEnds(r) ==
    /\ At(r, "grace")
    /\ ReleaseSlot
    /\ EnterCleanup(r)
    /\ StopDriving(r)
    /\ UNCHANGED <<starting, active, lock, child, attempt, session, sleepLeft,
                   cancelling, down>>

(* A signer its run no longer waits for comes to its end. *)
LateSignerEnds(r) ==
    /\ child[r] \in {"cancelled", "detached"}
    /\ child' = [child EXCEPT ![r] = "none"]
    /\ UNCHANGED <<pc, starting, active, lock, permits, attempt, session,
                   coolLeft, sleepLeft, restLeft, cancelling, down>>

(* After success, sleep(2) without the slot and still with the lock. *)
Settle(r) ==
    /\ At(r, "settle")
    /\ EnterCleanup(r)
    /\ UNCHANGED <<starting, active, lock, permits, child, attempt, session,
                   sleepLeft, restLeft, cancelling, down>>

(***************************************************************************)
(* The client cleanup completed, failed or timed out: release the lock,    *)
(* save the record, clear the flags.                                       *)
(***************************************************************************)
FinishRun(r) ==
    /\ At(r, "cleanup")
    /\ ClearFlags(r)
    /\ ReleaseLock(r)
    /\ attempt' = [attempt EXCEPT ![r] = 0]
    /\ session' = [session EXCEPT ![r] = 0]
    /\ UNCHANGED <<permits, child, coolLeft, sleepLeft, restLeft, cancelling,
                   down>>

(***************************************************************************)
(* shutdown_scheduler(): the executor cancels the futures of its jobs.     *)
(* Background coroutines are not the scheduler's and go on.                *)
(***************************************************************************)
Shutdown ==
    /\ ~down
    /\ down' = TRUE
    /\ cancelling' = {r \in Runs \ BackgroundRuns : pc[r] # "idle"}
    /\ UNCHANGED <<pc, starting, active, lock, permits, child, attempt, session,
                   coolLeft, sleepLeft, restLeft>>

(***************************************************************************)
(* CancelledError is raised at the await the run is suspended in.  It is   *)
(* no Exception: the handlers are skipped and the finally blocks run.      *)
(***************************************************************************)
CancelWaiting(r) ==
    /\ pc[r] = "lock_wait"
    /\ ClearFlags(r)
    /\ StampRunEnd(r)
    /\ UNCHANGED <<lock, permits, child, sleepLeft, restLeft>>

(* Faulty: a handler for Exception, which cancellation skips. *)
CancelCooldownLeaking(r) ==
    /\ pc[r] = "cooldown"
    /\ ClearFlags(r)
    /\ StampRunEnd(r)
    /\ sleepLeft' = [sleepLeft EXCEPT ![r] = 0]
    /\ UNCHANGED <<lock, permits, child, restLeft>>

CancelCooldown(r) ==
    /\ pc[r] = "cooldown"
    /\ ClearFlags(r)
    /\ ReleaseLock(r)
    /\ StampRunEnd(r)
    /\ sleepLeft' = [sleepLeft EXCEPT ![r] = 0]
    /\ UNCHANGED <<permits, child, restLeft>>

CancelUnslotted(r) ==
    /\ pc[r] \in {"slot_wait", "settle"}
    /\ EnterCleanup(r)
    /\ UNCHANGED <<starting, active, lock, permits, child, sleepLeft, restLeft>>

(* Faulty: the slot is not released in a finally block. *)
CancelSlottedLeaking(r) ==
    /\ pc[r] \in HoldSlot
    /\ EnterCleanup(r)
    /\ child' = [child EXCEPT ![r] = IF @ = "running" THEN "detached" ELSE @]
    /\ StopDriving(r)
    /\ UNCHANGED <<starting, active, lock, permits, sleepLeft>>

(* asyncio.wait does not cancel what it waits for: the signer is detached. *)
CancelSlotted(r) ==
    /\ pc[r] \in HoldSlot
    /\ ReleaseSlot
    /\ EnterCleanup(r)
    /\ child' = [child EXCEPT ![r] = IF @ = "running" THEN "detached" ELSE @]
    /\ StopDriving(r)
    /\ UNCHANGED <<starting, active, lock, sleepLeft>>

(* The shield keeps the cleanup going: cleanup_deferred_cancelled. *)
CancelCleanup(r) ==
    /\ pc[r] = "cleanup"
    /\ UNCHANGED <<pc, starting, active, lock, permits, child, coolLeft,
                   sleepLeft, restLeft>>

DeliverCancel(r) ==
    /\ r \in cancelling
    /\ cancelling' = cancelling \ {r}
    /\ \/ CancelWaiting(r)
       \/ CancelCooldown(r)
       \/ CancelUnslotted(r)
       \/ CancelSlotted(r)
       \/ CancelCleanup(r)
    /\ UNCHANGED <<attempt, session, down>>

(* A tick of time.time(). *)
Tick ==
    LET Dec(n) == IF n > 0 THEN n - 1 ELSE 0
    IN /\ \/ \E a \in Accounts : coolLeft[a] > 0 \/ restLeft[a] > 0
          \/ \E r \in Runs : sleepLeft[r] > 0
       /\ coolLeft' = [a \in Accounts |-> Dec(coolLeft[a])]
       /\ restLeft' = [a \in Accounts |-> Dec(restLeft[a])]
       /\ sleepLeft' = [r \in Runs |-> Dec(sleepLeft[r])]
       /\ UNCHANGED <<pc, starting, active, lock, permits, child, attempt,
                      session, cancelling, down>>

-----------------------------------------------------------------------------

(* Starts, which nothing obliges. *)
Launch(r) == StartInBackground(r) \/ RunScheduled(r)

(* Ends of the signer within its timeout, which nothing obliges either. *)
SignerReturns(r) ==
    \/ SignerSucceeds(r)
    \/ SessionLocked(r)
    \/ BusinessFails(r)
    \/ SignerFails(r)

(* What the event loop and its timers make a run do once it exists. *)

Proceed(r) ==
    \/ BeginInBackground(r)
    \/ AcquireLock(r)
    \/ LockWaitTimesOut(r)
    \/ FinishCooldown(r)
    \/ AcquireSlot(r)
    \/ SlotWaitTimesOut(r)
    \/ SignerTimesOut(r)
    \/ RetrySession(r)
    \/ RetryTask(r)
    \/ GraceEnds(r)
    \/ Settle(r)
    \/ FinishRun(r)
    \/ DeliverCancel(r)

Next ==
    \/ \E r \in Runs :
          Launch(r) \/ Proceed(r) \/ SignerReturns(r) \/ LateSignerEnds(r)
    \/ Shutdown
    \/ Tick

Spec == Init /\ [][Next]_vars

(***************************************************************************)
(* The event loop resumes what is ready and fires the timers that bound    *)
(* the lock wait, the semaphore wait, the signer and the cleanup.  Nothing *)
(* makes a signer end, in time or late, a new run start or the process     *)
(* shut down.                                                              *)
(***************************************************************************)
FairSpec == Spec /\ (\A r \in Runs : WF_vars(Proceed(r))) /\ WF_vars(Tick)

-----------------------------------------------------------------------------

TypeOK ==
    /\ pc \in [Runs -> Points]
    /\ starting \in SUBSET Tasks
    /\ active \in SUBSET Tasks
    /\ lock \in [Accounts -> Runs \cup {Free}]
    /\ permits \in 0..GlobalLimit
    /\ child \in [Runs -> {"none", "running", "cancelled", "detached"}]
    /\ attempt \in [Runs -> 0..(RetryCount + 1)]
    /\ session \in [Runs -> 0..SessionRetries]
    /\ coolLeft \in [Accounts -> 0..Cooldown]
    /\ sleepLeft \in [Runs -> 0..Cooldown]
    /\ restLeft \in [Accounts -> 0..Cooldown]
    /\ cancelling \in SUBSET (Runs \ BackgroundRuns)
    /\ down \in BOOLEAN

(***************************************************************************)
(* is_task_running tells the truth: a key is reported as running exactly   *)
(* while some run of it is in flight, whichever of timeouts, failures and  *)
(* cancellation ended the runs before it.                                  *)
(***************************************************************************)
StatusTruthful ==
    \A k \in Tasks :
        IsTaskRunning(k) <=> \E r \in Runs : TaskOf[r] = k /\ pc[r] # "idle"

(***************************************************************************)
(* A task never runs twice at once, although a scheduled job and a         *)
(* background coroutine pass different gates.                              *)
(***************************************************************************)
OneRunPerTask ==
    \A r, s \in Runs :
        pc[r] \in Gated /\ pc[s] \in Gated /\ TaskOf[r] = TaskOf[s] => r = s

(***************************************************************************)
(* An account's lock is held by r exactly while r is between acquiring it  *)
(* and its final block: runs of one account never overlap there and no     *)
(* exit, timeout or cancellation leaks the lock.                           *)
(***************************************************************************)
LockHeldByLiveRun ==
    \A a \in Accounts, r \in Runs :
        lock[a] = r <=> (Account(r) = a /\ pc[r] \in HoldLock)

(***************************************************************************)
(* Slots of the global semaphore are neither lost nor made up on the       *)
(* success, retry, failure, timeout and cancellation paths.                *)
(***************************************************************************)
SlotsConserved ==
    permits + Cardinality({r \in Runs : pc[r] \in HoldSlot}) = GlobalLimit

(***************************************************************************)
(* Signers that nobody cancelled or abandoned never drive one account at   *)
(* once, and are never more than TG_GLOBAL_CONCURRENCY, although a run     *)
(* keeps its slot and starts its signer anew through two retry loops.      *)
(***************************************************************************)
LiveSigners == {r \in Runs : child[r] = "running"}

SignersExclusive ==
    /\ \A r, s \in LiveSigners : Account(r) = Account(s) => r = s
    /\ Cardinality(LiveSigners) <= GlobalLimit

(***************************************************************************)
(* The first signer of a run starts at least Cooldown after a run last     *)
(* drove the account, even when other runs stamp _account_last_run_end     *)
(* while this one sleeps or end without ever holding the lock.             *)
(***************************************************************************)
CooldownRespected ==
    [][\A r \in Runs :
         pc[r] = "slot_wait" /\ pc'[r] = "running" => restLeft[Account(r)] = 0]_vars

(***************************************************************************)
(* A run never starts its signer again beside an earlier call of it that   *)
(* timed out and is still unwinding.                                       *)
(***************************************************************************)
NoRetryBesideLateSigner ==
    [][\A r \in Runs :
         pc[r] # "running" /\ pc'[r] = "running" => child[r] = "none"]_vars

(***************************************************************************)
(* A run ends, whatever its signer, its client or the other runs do: every *)
(* wait of run_task_with_logs is bounded and so is every retry loop.       *)
(***************************************************************************)
RunEnds == \A r \in Runs : pc[r] # "idle" ~> pc[r] = "idle"

(***************************************************************************)
(* The lock and the semaphore, taken and given back as run_task_with_logs  *)
(* does on all its paths, keep the promise of AccountSlots; with fairness, *)
(* no run keeps an account or a slot forever.                              *)
(***************************************************************************)
Slots == INSTANCE AccountSlots
         WITH Users <- Runs,
              AccountFor <- [r \in Runs |-> Account(r)],
              Limit <- GlobalLimit,
              owner <- lock,
              using <- {r \in Runs : pc[r] \in HoldSlot}

ImplementsSlots == Slots!Spec

ImplementsFairSlots == Slots!FairSpec

(***************************************************************************)
(* README.md:299 calls TG_GLOBAL_CONCURRENCY the number of concurrent      *)
(* Telegram sessions.  A signer that outlives its timeout keeps its        *)
(* session and holds no slot.                                              *)
(***************************************************************************)
SessionsWithinLimit ==
    Cardinality({r \in Runs : child[r] # "none"}) <= GlobalLimit

-----------------------------------------------------------------------------

(***************************************************************************)
(* What the proofs need beyond the properties above.                       *)
(***************************************************************************)

(* TypeOK with permits left unbounded: its range follows from Slots. *)
Shape ==
    /\ pc \in [Runs -> Points]
    /\ starting \in SUBSET Tasks
    /\ active \in SUBSET Tasks
    /\ lock \in [Accounts -> Runs \cup {Free}]
    /\ permits \in Nat
    /\ child \in [Runs -> {"none", "running", "cancelled", "detached"}]
    /\ attempt \in [Runs -> 0..(RetryCount + 1)]
    /\ session \in [Runs -> 0..SessionRetries]
    /\ coolLeft \in [Accounts -> 0..Cooldown]
    /\ sleepLeft \in [Runs -> 0..Cooldown]
    /\ restLeft \in [Accounts -> 0..Cooldown]
    /\ cancelling \in SUBSET (Runs \ BackgroundRuns)
    /\ down \in BOOLEAN

(* A run that sleeps before a retry has one left. *)
RetriesLeft ==
    \A r \in Runs :
        /\ pc[r] = "session_retry" => session[r] < SessionRetries
        /\ pc[r] = "task_retry" => attempt[r] < RetryCount + 1

TypeInv == Shape /\ RetriesLeft

(* Each flag has the run it stands for, and no two runs share a flag. *)
StatusInv ==
    /\ \A r \in Runs : pc[r] \in Gated => TaskOf[r] \in active
    /\ \A k \in active : \E r \in Runs : TaskOf[r] = k /\ pc[r] \in Gated
    /\ OneRunPerTask
    /\ \A r \in Runs : pc[r] = "created" => r \in BackgroundRuns
    /\ \A r \in BackgroundRuns : pc[r] # "idle" => TaskOf[r] \in starting
    /\ \A k \in starting :
          \E r \in BackgroundRuns : TaskOf[r] = k /\ pc[r] # "idle"
    /\ \A r, s \in BackgroundRuns :
          pc[r] # "idle" /\ pc[s] # "idle" /\ TaskOf[r] = TaskOf[s] => r = s

(* Only late signers outlive the await of their run. *)
SignerAwaited ==
    \A r \in Runs :
        /\ child[r] = "running" => pc[r] = "running"
        /\ pc[r] \in {"created", "lock_wait", "cooldown", "slot_wait",
                      "session_retry", "task_retry"} => child[r] = "none"

(* The rest an account has had, at each point of the run that holds it. *)
RestInv ==
    /\ \A a \in Accounts : lock[a] = Free => restLeft[a] <= coolLeft[a]
    /\ \A r \in Runs :
        /\ pc[r] = "cooldown" => restLeft[Account(r)] <= sleepLeft[r]
        /\ pc[r] = "slot_wait" => restLeft[Account(r)] = 0
        /\ pc[r] = "cleanup" => restLeft[Account(r)] <= coolLeft[Account(r)]

(* The inductive invariant. *)
Inv ==
    /\ TypeInv
    /\ StatusInv
    /\ LockHeldByLiveRun
    /\ SlotsConserved
    /\ SignerAwaited
    /\ RestInv

=============================================================================
