------------------------------ MODULE RunReport ------------------------------
(***************************************************************************)
(* What is told of a run.  run_task_with_logs and the signer it starts     *)
(* write a log of events; from it build_run_summary makes the summary the  *)
(* list of tasks shows, and save_run_info keeps the beginning of it, which *)
(* SignTaskDiagnostics judges whenever somebody opens the run.  The run    *)
(* itself knows better than its log: it knows which locks it holds,        *)
(* whether the client is closed and which engine ended how.                *)
(*                                                                         *)
(* An item of the log is its event (without event_engine_), one text and   *)
(* two numbers of its meta.  Events that neither the summary nor a check   *)
(* reads are left out; they take room all the same, so the log may be cut  *)
(* anywhere (WindowLengths, KeptLengths).  The runs the log can tell are bounded by *)
(* Mishaps: how often a run leaves the plain path.  An action is what      *)
(* happens between two awaits.                                             *)
(***************************************************************************)
EXTENDS Integers, Sequences, FiniteSets, SequencesExt, FiniteSetsExt

CONSTANTS
    MaxChats,     \* len(chats) of a task is at most this
    Attempts,     \* total_attempts: retry_count + 1
    Interactions, \* the sets of interactions a task's actions may ask for
    WindowLengths, \* how many of the last items the log holds in memory
    KeptLengths,   \* how many of the first of those the history keeps
    Mishaps       \* how often a run leaves the plain path

ASSUME ReportAssumption ==
    /\ MaxChats \in Nat \ {0}
    /\ Attempts \in Nat \ {0}
    /\ Interactions \subseteq SUBSET {"button", "captcha", "reply"}
    /\ WindowLengths \subseteq Nat
    /\ KeptLengths \subseteq Nat
    /\ Mishaps \in Nat

VARIABLES
    expects,   \* what the task's actions ask for
    chats,     \* len(config.chats)
    pc,        \* what the run waits for
    chat,      \* the chat being signed
    good,      \* success_count of sign_once
    engine,    \* the last engine: how it ended, why, its counters
    engines,   \* how many engines were started
    attempt,   \* current_task_attempt
    held,      \* the locks the run holds
    client,    \* the client of the signer: none, open, closed or unclosed
    late,      \* a signer nobody waits for is still running
    earned,    \* some engine saw the result, or ended with success
    success,   \* the run's success flag
    cause,     \* timeout_scope of the failure, or what else ended the run
    items,     \* flow_items, as if nothing was ever dropped
    report,    \* what was summed up and what was kept, once the run is over
    mishaps    \* the bound on the runs told

vars == <<expects, chats, pc, chat, good, engine, engines, attempt, held, client,
          late, earned, success, cause, items, report, mishaps>>

Locks == {"account_lock", "global_concurrency"}

\* "-" is a text that is missing or empty.
Item(e, t, n, m) == [ev |-> e, tag |-> t, n |-> n, m |-> m]
I(e)      == Item(e, "-", 0, 0)
Tag(e, t) == Item(e, t, 0, 0)
Num(e, n) == Item(e, "-", n, 0)
Nothing   == I("-")

NoReport == [saved |-> FALSE, seen |-> <<>>, kept |-> <<>>]
NoEngine == [result |-> "-", raised |-> "-", retries |-> 0, unconfirmed |-> 0]
(***************************************************************************)
(* Reading a log.                                                          *)
(***************************************************************************)
Hits(log, E)   == {i \in DOMAIN log : log[i].ev \in E}
Has(log, E)    == Hits(log, E) # {}
Count(log, E)  == Cardinality(Hits(log, E))
(* Faulty: the oldest item of that kind. *)
FirstOf(log, E) == IF Has(log, E) THEN log[Min(Hits(log, E))] ELSE Nothing

LastOf(log, E) == IF Has(log, E) THEN log[Max(Hits(log, E))] ELSE Nothing
With(log, E, T) == {i \in Hits(log, E) : log[i].tag \in T}
Highest(log, E) == Max({0} \cup {log[i].n : i \in Hits(log, E)})
Then(log, E, F) == \E i \in Hits(log, E), j \in Hits(log, F) : i < j

Final    == {"final_state"}
Matched  == {"success_matched", "checked_matched"}
AllMatch == Matched \cup {"failed_matched"}
Ends     == {"success", "checked"}

\* What becomes of work that goes on after its timeout.
LateCancelled ==
    [task_run       |-> "task_run_late_cancelled",
     client_rpc     |-> "client_rpc_late_cancelled",
     hard_timeout   |-> "hard_timeout_late_cancelled",
     client_cleanup |-> "client_cleanup_late_cancelled"]
Late(s) == {LateCancelled[s]} \cup
    CASE s = "task_run"     -> {"task_run_late_completed", "task_run_late_exception"}
      [] s = "client_rpc"   -> {"client_rpc_late_completed", "client_rpc_late_exception"}
      [] s = "hard_timeout" -> {"hard_timeout_late_completed", "hard_timeout_late_exception"}
      [] OTHER              -> {"client_cleanup_late_completed", "client_cleanup_late_exception"}

RetryFailures == {"retry_cancelled", "retry_initial_send_failed", "retry_initial_send_error",
                  "retry_limit_exceeded"}
RetryEvents   == {"retry_scheduled", "retry_started", "retry_completed", "retry_suppressed"}
                     \cup RetryFailures

SendTimeouts == {"initial_send_retryable_error", "followup_send_retryable_error",
                 "response_send_retryable_error"}
LockTimeouts == {"client_startup_lock_timeout", "client_exit_lock_timeout",
                 "client_close_lock_timeout"}
RpcTimeouts  == SendTimeouts \cup LockTimeouts \cup
                {"media_download_retryable_error", "ai_retryable_error",
                 "button_callback_outer_timeout", "history_failed", "client_rpc_hard_timeout"}
(***************************************************************************)
(* build_run_summary.                                                      *)
(***************************************************************************)
\* A counter comes from the last engine's final state, then from its
\* timeout state, and is counted from the events only when neither is there.
Snapshot(log) == IF Has(log, Final) THEN LastOf(log, Final) ELSE LastOf(log, {"timeout_state"})
SnapshotOr(log, snapshot, fallback) ==
    IF Has(log, Final \cup {"timeout_state"}) THEN snapshot ELSE fallback

\* The status of the last final state; without one, what the log suggests.
SummaryStatus(log, ok) ==
    IF LastOf(log, Final).tag # "-" THEN LastOf(log, Final).tag
    ELSE IF Has(log, {"checked_matched"}) THEN "checked"
    ELSE IF Has(log, {"success_matched"}) THEN "success"
    ELSE IF Has(log, {"failed_matched", "task_failed"}) \/ ~ok THEN "failed"
    ELSE "success"

SummaryAttempt(log) ==
    LET n(e) == LastOf(log, {e}).n
    IN  IF n("task_completed") # 0 THEN n("task_completed")
        ELSE IF n("task_failed") # 0 THEN n("task_failed") ELSE n("final_state")

ResultMatch(log) == [matched |-> Has(log, AllMatch), event |-> LastOf(log, AllMatch).ev]

RetrySummary(log) ==
    [last_event      |-> LastOf(log, RetryEvents).ev,
     counts          |-> [e \in RetryEvents |-> Count(log, {e})],
     limit_exceeded  |-> Has(log, {"retry_limit_exceeded"}),
     task_configured |-> LastOf(log, {"task_retry_config"}).n,
     task_last_event |-> LastOf(log, {"task_retry_config", "task_retry_started",
                                      "task_retry_scheduled"}).ev,
     task_started    |-> Count(log, {"task_retry_started"}),
     task_scheduled  |-> Count(log, {"task_retry_scheduled"})]

Unconfirmed(log) ==
    Cardinality(With(log, {"button_callback_result"}, {"unconfirmed", "timeout_failed"}))

CallbacksSummary(log) ==
    [unconfirmed |-> SnapshotOr(log, Snapshot(log).m, Unconfirmed(log)),
     results     |-> Count(log, {"button_callback_result"}),
     last        |-> LastOf(log, {"button_callback_result"}).tag,
     counts      |-> [e \in {"button_callback_outer_timeout", "button_callback_exception",
                             "button_callback_released_for_retry", "callback_text_received",
                             "stale_callback_text_skipped"} |-> Count(log, {e})]]

MessageEvents == {"response_action_advanced", "response_action_not_advanced",
                  "message_skip_recorded", "stale_attempt_processed_mark_skipped",
                  "message_processing_cancelled", "message_unhandled",
                  "message_retryable_error", "captcha_result_text_preempted"}
MessagesSummary(log) ==
    [counts   |-> [e \in MessageEvents |-> Count(log, {e})],
     finished |-> Cardinality(With(log, {"message_skip_recorded"}, {"finished"})),
     last     |-> LastOf(log, {"message_skip_recorded"}).tag]

ScanEvents == {"history_scan_completed", "history_hard_failure_skipped", "history_failed",
               "history_scan_concurrent_skipped", "history_scan_cancelled",
               "history_rescue_cancelled"}
HistorySummary(log) ==
    [last_scan |-> LastOf(log, ScanEvents).ev,
     counts    |-> [e \in ScanEvents \cup {"history_rescue_started", "history_rescue_suspended",
                          "history_tracked_message_rechecked", "history_message_filtered",
                          "history_duplicate_skipped"} |-> Count(log, {e})]]

TimeoutsSummary(log) ==
    LET counted == (RpcTimeouts \ {"history_failed"})
                       \cup {"timeout_state", "response_action_timeout", "task_run_timeout",
                             "client_startup_retry_scheduled"}
                       \cup Late("client_rpc") \cup Late("task_run") \cup Late("hard_timeout")
    IN  [total         |-> Count(log, counted),
         task_run      |-> Count(log, {"task_run_timeout"}),
         task_run_late |-> LastOf(log, Late("task_run")).ev,
         last_rpc      |-> LastOf(log, RpcTimeouts).ev]

CleanupSummary(log) ==
    [started    |-> Has(log, {"client_cleanup_started"}),
     completed  |-> Has(log, {"client_cleanup_completed"}),
     failed     |-> Has(log, {"client_cleanup_failed"}),
     last_event |-> LastOf(log, {"client_cleanup_started", "client_cleanup_completed",
                                 "client_cleanup_failed"}).ev,
     deferred   |-> Count(log, {"task_cancellation_deferred_for_cleanup"}),
     late       |-> LastOf(log, Late("client_cleanup")).ev]

\* The events of the two locks.
GateEvent(lock) ==
    IF lock = "account_lock"
    THEN [waited   |-> "account_lock_wait_started", acquired |-> "account_lock_acquired",
          timeout  |-> "account_lock_wait_timeout", released |-> "account_lock_released"]
    ELSE [waited   |-> "global_concurrency_wait_started", acquired |-> "global_concurrency_acquired",
          timeout  |-> "global_concurrency_wait_timeout", released |-> "global_concurrency_released"]
GateSummary(log, lock) ==
    [waited   |-> Has(log, {GateEvent(lock).waited}),
     acquired |-> Has(log, {GateEvent(lock).acquired}),
     timeout  |-> Has(log, {GateEvent(lock).timeout}),
     released |-> Has(log, {GateEvent(lock).released})]

BuildRunSummary(log, ok) ==
    [success      |-> ok,
     status       |-> SummaryStatus(log, ok),
     attempt      |-> SummaryAttempt(log),
     retry_count  |-> SnapshotOr(log, Snapshot(log).n, Highest(log, RetryEvents)),
     result_match |-> ResultMatch(log),
     retry        |-> RetrySummary(log),
     callbacks    |-> CallbacksSummary(log),
     messages     |-> MessagesSummary(log),
     history      |-> HistorySummary(log),
     timeouts     |-> TimeoutsSummary(log),
     cleanup      |-> CleanupSummary(log),
     save_failed  |-> Has(log, {"task_run_info_save_failed"}),
     gates        |-> [l \in Locks |-> GateSummary(log, l)],
     scope        |-> LastOf(log, {"task_failed"}).tag]
(***************************************************************************)
(* SignTaskDiagnostics: every check gives no verdict, or a set of them.    *)
(* Snapshots the worker logs itself are complete, so their validation      *)
(* always succeeds.                                                        *)
(***************************************************************************)
Bad(ok)           == {IF ok THEN "warn" ELSE "fail"}
Graded(good_, ok) == IF good_ THEN {"pass"} ELSE Bad(ok)
Seen(log, E, v)   == IF Has(log, E) THEN v ELSE {}

ResultStatus(log) ==
    IF LastOf(log, Final).tag # "-" THEN LastOf(log, Final).tag
    ELSE IF With(log, {"completed"}, Ends) # {}
         THEN log[Max(With(log, {"completed"}, Ends))].tag ELSE "-"
HasResult(log) == Has(log, Matched) \/ ResultStatus(log) \in Ends

EventEngineStarted(log) == IF Has(log, {"started"}) THEN {"pass"} ELSE {"fail"}

ExpectedButtons(log, asks, ok) ==
    CASE "button" \notin asks              -> {}
      [] Has(log, {"button_clicked"})      -> {"pass"}
      [] OTHER -> IF ok /\ ResultStatus(log) \in Ends THEN {"skip"} ELSE Bad(ok)

CaptchaSent(log, ok) ==
    IF Has(log, {"captcha_sent"}) THEN {"pass"}
    ELSE IF Has(log, {"captcha_result_text_preempted"}) /\ HasResult(log)
         THEN {"skip"} ELSE Bad(ok)
CaptchaReply(log, asks) ==
    IF "reply" \notin asks \/ (Has(log, {"captcha_result_text_preempted"})
                                 /\ ~Has(log, {"captcha_sent"})) THEN {}
    ELSE IF With(log, {"captcha_sent"}, {"reply"}) # {} THEN {"pass"} ELSE {"fail"}
CaptchaPath(log, asks, ok) ==
    IF asks \cap {"captcha", "reply"} = {} THEN {}
    ELSE IF Has(log, {"captcha_result_text_preempted", "captcha_recognized"})
         THEN {"pass"} \cup CaptchaSent(log, ok) \cup CaptchaReply(log, asks)
    ELSE IF HasResult(log) THEN {"skip"} ELSE Bad(ok)

ResultCheck(log, ok) == Graded(HasResult(log), ok)

Timeouts(log, ok) ==
    Graded(~Has(log, {"timeout_state"}), ok)
      \cup (UNION {Seen(log, E, Bad(ok)) :
                   E \in {{"response_action_timeout"}, SendTimeouts, {"task_run_timeout"},
                          {"media_download_retryable_error"}, {"ai_retryable_error"},
                          {"message_retryable_error"}, {"client_rpc_hard_timeout"}}
                          \cup {{e} : e \in LockTimeouts}})
      \cup Seen(log, {"client_startup_retry_scheduled"}, {"warn"})
      \cup Seen(log, {"button_callback_outer_timeout"},
                Graded(LastOf(log, {"button_callback_outer_timeout"}).tag = "trusted", ok))

\* The four kinds of work that may go on after its timeout.
LateResults(log, s) ==
    Seen(log, Late(s), IF LastOf(log, Late(s)).ev = LateCancelled[s]
                       THEN {"pass"} ELSE {"warn"})
TaskRunLateResults(log)     == LateResults(log, "task_run")
ClientRpcLateResults(log)   == LateResults(log, "client_rpc")
HardTimeoutLateResults(log) == LateResults(log, "hard_timeout")
CleanupLateResults(log)     == LateResults(log, "client_cleanup")

Progress == Matched \cup Final
CallbackRecovery(log, ok) ==
    Seen(log, {"callback_timeout_trusted"},
         Graded(Then(log, {"callback_timeout_trusted"}, Progress \cup
                          {"button_clicked", "captcha_recognized", "completed"}), ok))

CallbackResult(log, ok) ==
    Seen(log, {"button_callback_result"}, Graded(Unconfirmed(log) = 0, ok))

CallbackOuterTimeout(log, ok) ==
    IF Has(log, {"button_callback_exception"}) THEN Bad(ok)
    ELSE Seen(log, {"button_callback_outer_timeout"},
              Graded(LastOf(log, {"button_callback_outer_timeout"}).tag = "trusted", ok))

CallbackTextProgress(log, ok) ==
    Seen(log, {"callback_text_received"},
         Graded(Then(log, {"callback_text_received"}, Progress \cup
                          {"retry_scheduled", "failed_matched", "account_failed",
                           "task_retry_scheduled", "task_failed"}), ok))

(* Faulty: the milestones in between do not count. *)
StrictImageChoiceAnyLater(log) ==
    Seen(log, {"image_option_selected"},
         Graded(~Then(log, {"image_option_selected"}, {"callback_timeout_trusted"}), FALSE))

\* A click on an image option must not be taken for confirmed when its callback
\* timed out: no trusted timeout between the option and the next milestone.
Boundary == Progress \cup {"button_clicked", "captcha_recognized", "completed", "retry_scheduled"}
StrictImageChoice(log) ==
    Seen(log, {"image_option_selected"},
         IF \E i \in Hits(log, {"image_option_selected"}) :
               \E j \in Hits(log, {"callback_timeout_trusted"}) :
                  i < j /\ \A k \in (i + 1)..(j - 1) : log[k].ev \notin Boundary
         THEN {"fail"} ELSE {"pass"})

ButtonCallbackUnconfirmed(log, ok) ==
    LET missed == {"button_callback_unconfirmed"}
    IN  Seen(log, missed,
             Graded(ok /\ With(log, missed, {"startup_history"}) = Hits(log, missed), ok))

ResponseActionNotAdvanced(log, ok) ==
    LET stayed == {"response_action_not_advanced"}
    IN  Seen(log, stayed, Graded(LastOf(log, stayed).tag \in {"finished", "retry_pending"}, ok))

NoOcrAfterResult(log) ==
    LET results == Hits(log, Matched) \cup With(log, Final, Ends)
    IN  IF results = {} THEN {}
        ELSE IF \E i \in Hits(log, {"captcha_recognized"}) : i > Min(results)
             THEN {"fail"} ELSE {"pass"}

\* What is only noted, and what a failed run has to answer for.
Noted(log) ==
    Seen(log, {"button_without_callback_data", "button_callback_released_for_retry",
               "startup_history_action_skipped", "response_action_advanced",
               "failure_preempted_response_action", "history_hard_failure_skipped",
               "history_duplicate_skipped", "history_unhandled_duplicate_skipped"}, {"pass"})
NotedOfFailure(log, ok) ==
    Seen(log, {"message_skip_recorded", "message_processing_cancelled", "message_unhandled",
               "stale_attempt_processed_mark_skipped", "stale_callback_text_skipped"},
         IF ok THEN {"pass"} ELSE {"warn"})
HistoryRescue(log, ok) ==
    IF Has(log, {"history_tracked_message_rechecked"}) THEN {"pass"}
    ELSE Seen(log, {"history_failed"}, Bad(ok))

\* The first kind of scan the log shows, in this order, decides.
HistoryScan(log, ok) ==
    IF Has(log, {"history_scan_concurrent_skipped", "history_scan_cancelled"}) THEN {"pass"}
    ELSE IF Has(log, {"history_failed", "history_rescue_suspended"}) THEN Bad(ok)
    ELSE Seen(log, {"history_scan_completed", "history_message_filtered"}, {"pass"})

FinalState(log) ==
    IF Has(log, Final) THEN {"pass"} ELSE Seen(log, {"completed"}, {"skip"})

RetryBudget(log, ok) ==
    Seen(log, (RetryEvents \ RetryFailures)
                \cup {"task_retry_config", "task_retry_scheduled", "task_retry_started"}, {"pass"})
      \cup Seen(log, RetryFailures, Bad(ok))

TaskFailureContext(log) == Seen(log, {"task_failed"}, {"pass"})

(* Faulty: a cleanup that was started is taken for done. *)
ClientCleanupStarted(log, ok) ==
    Seen(log, {"client_cleanup_started", "client_cleanup_completed"}, {"pass"})

ClientCleanup(log, ok) ==
    Seen(log, {"client_cleanup_started", "client_cleanup_completed", "client_cleanup_failed"},
         Graded(Has(log, {"client_cleanup_completed"})
                  /\ ~Has(log, {"client_cleanup_failed"}), ok))

ManagerReport(log) ==
    IF LastOf(log, {"client_cleanup_completed"}).tag = "forced" THEN {"warn"} ELSE {}

DeferredCancellation(log) ==
    LET deferred == Hits(log, {"task_cancellation_deferred_for_cleanup"})
    IN  IF deferred = {} THEN {}
        ELSE IF \E i \in Hits(log, {"client_cleanup_completed", "client_cleanup_failed"}) :
                   i > Max(deferred) THEN {"pass"} ELSE {"warn"}

\* A lock is in order when it was acquired and released.
Gate(log, ok, lock) ==
    LET g == GateSummary(log, lock)
    IN  IF ~(g.waited \/ g.timeout \/ g.acquired \/ g.released) THEN {}
        ELSE Graded(g.acquired /\ g.released, ok)
AccountLock(log, ok)       == Gate(log, ok, "account_lock")
GlobalConcurrency(log, ok) == Gate(log, ok, "global_concurrency")

CleanupLockCoverage(log, ok) ==
    LET cleaned  == Hits(log, {"client_cleanup_completed", "client_cleanup_failed"})
        released == Hits(log, {"account_lock_released"})
    IN  IF cleaned = {} \/ released = {} THEN {}
        ELSE Graded(Max(cleaned) < Max(released), ok)

RuntimeConfig(log) ==
    IF Has(log, {"task_runtime_config"}) THEN {"pass"} ELSE Seen(log, {"task_started"}, {"warn"})
WorkerContract(log) ==
    IF Has(log, {"worker_execution_contract"}) THEN {"pass"}
    ELSE Seen(log, {"task_started"}, {"warn"})

Checks(log, asks, ok) ==
    UNION {EventEngineStarted(log), ExpectedButtons(log, asks, ok), CaptchaPath(log, asks, ok),
           ResultCheck(log, ok), Timeouts(log, ok), TaskRunLateResults(log),
           ClientRpcLateResults(log), HardTimeoutLateResults(log),
           CallbackTextProgress(log, ok), CallbackResult(log, ok),
           CallbackOuterTimeout(log, ok), CallbackRecovery(log, ok), StrictImageChoice(log),
           ButtonCallbackUnconfirmed(log, ok), ResponseActionNotAdvanced(log, ok),
           NoOcrAfterResult(log), Noted(log), NotedOfFailure(log, ok), HistoryRescue(log, ok),
           HistoryScan(log, ok), FinalState(log), RetryBudget(log, ok), RuntimeConfig(log),
           WorkerContract(log), AccountLock(log, ok), GlobalConcurrency(log, ok),
           ClientCleanup(log, ok), ManagerReport(log), DeferredCancellation(log),
           CleanupLateResults(log), CleanupLockCoverage(log, ok), TaskFailureContext(log)}

\* analyze_run and _overall_status.  The first check always gives a verdict.
Diagnose(log, asks, ok) ==
    LET found == Checks(log, asks, ok)
    IN  IF "fail" \in found THEN "fail" ELSE IF "warn" \in found THEN "warn" ELSE "pass"
(***************************************************************************)
(* Writing the log: run_task_with_logs.                                    *)
(***************************************************************************)
Init ==
    /\ expects \in Interactions
    /\ chats \in 1..MaxChats
    /\ pc = "queue"
    /\ chat = 1 /\ good = 0 /\ attempt = 0
    /\ engine = NoEngine /\ engines = 0
    /\ held = {} /\ client = "none" /\ late = FALSE
    /\ earned = FALSE /\ success = FALSE /\ cause = "-"
    /\ items = <<>> /\ report = NoReport /\ mishaps = 0

Mishap == mishaps < Mishaps /\ mishaps' = mishaps + 1
Plain  == UNCHANGED mishaps
Task   == <<expects, chats>>
Signer == <<chat, good, engine, engines, attempt, late, earned>>
Ending == <<success, cause, report>>

Suffix(log, w) == IF Len(log) <= w THEN log ELSE SubSeq(log, Len(log) - w + 1, Len(log))
Prefix(log, k) == IF Len(log) <= k THEN log ELSE SubSeq(log, 1, k)

\* TaskFlowLogger.append drops the oldest items, _normalize_flow_items the
\* newest.  A run that cannot be saved is summed up again for the caller.
SaveRunInfo(log) ==
    \E w \in WindowLengths :
      \/ /\ \E k \in KeptLengths :
              report' = [saved |-> TRUE, seen |-> Suffix(log, w),
                         kept |-> Prefix(Suffix(log, w), k)]
         /\ items' = log
      \/ LET retold == Append(log, I("task_run_info_save_failed"))
         IN  /\ report' = [saved |-> FALSE, seen |-> Suffix(retold, w), kept |-> <<>>]
             /\ items' = retold

\* From the end of the cleanup to the return nothing is awaited.
Over(log) ==
    /\ SaveRunInfo(log \o (IF "account_lock" \in held THEN <<I("account_lock_released")>>
                           ELSE <<>>))
    /\ held' = {}
    /\ pc' = "over"

\* The finally block: with a signer there is a client to close first.
Finally(log) ==
    IF client = "none"
    THEN Over(log) /\ UNCHANGED client
    ELSE /\ items' = Append(log, I("client_cleanup_started"))
         /\ pc' = "cleaning"
         /\ held' = held \ {"global_concurrency"}
         /\ UNCHANGED <<client, report>>

SlotReleased(log) ==
    IF "global_concurrency" \in held THEN Append(log, I("global_concurrency_released")) ELSE log

\* except Exception: the failure is logged; a cancellation is not.
Fail(log, scope) ==
    /\ Finally(Append(SlotReleased(log), Item("task_failed", scope, attempt, 0)))
    /\ cause' = scope
    /\ UNCHANGED success
Cancelled(log) ==
    /\ Finally(SlotReleased(log))
    /\ cause' = "cancelled"
    /\ UNCHANGED success

\* get_account_lock().locked()
LockIsBusy ==
    /\ pc = "queue" /\ items = <<>> /\ Mishap
    /\ items' = <<I("account_lock_wait_started")>>
    /\ UNCHANGED <<Task, Signer, Ending, pc, held, client>>

LockWaitTimesOut ==
    /\ pc = "queue" /\ items # <<>> /\ Mishap
    /\ Fail(Append(items, I("account_lock_wait_timeout")), "account_lock")
    /\ UNCHANGED <<Task, Signer>>

AcquireAccountLock ==
    /\ pc = "queue" /\ Plain
    /\ pc' = "ready"
    /\ held' = held \cup {"account_lock"}
    /\ items' = Append(items, I("account_lock_acquired"))
    /\ UNCHANGED <<Task, Signer, Ending, client>>

\* No API id, no session string: the run fails before it has a signer.
ConfigurationFails ==
    /\ pc = "ready" /\ Mishap
    /\ Fail(Append(items, I("task_started")), "none")
    /\ UNCHANGED <<Task, Signer>>

MakeSigner(busy) ==
    /\ pc = "ready"
    /\ IF busy THEN Mishap ELSE Plain
    /\ pc' = "slot"
    /\ client' = "open"
    /\ items' = items \o <<I("task_started"), I("task_runtime_config"),
                           Num("task_retry_config", Attempts - 1)>>
                      \o (IF busy THEN <<I("global_concurrency_wait_started")>> ELSE <<>>)
    /\ UNCHANGED <<Task, Signer, Ending, held>>

SlotWaitTimesOut ==
    /\ pc = "slot" /\ Mishap
    /\ LastOf(items, {"task_retry_config", "global_concurrency_wait_started"}).ev
         = "global_concurrency_wait_started"
    /\ Fail(Append(items, I("global_concurrency_wait_timeout")), "global_concurrency")
    /\ UNCHANGED <<Task, Signer>>

AcquireSlot ==
    /\ pc = "slot" /\ Plain
    /\ pc' = "chat"
    /\ attempt' = 1
    /\ held' = held \cup {"global_concurrency"}
    /\ items' = items \o <<I("global_concurrency_acquired"), I("worker_execution_contract")>>
    /\ UNCHANGED <<Task, Ending, client, chat, good, engine, engines, late, earned>>
(***************************************************************************)
(* The signer: normal_run, sign_once and sign_a_chat, chat after chat.     *)
(***************************************************************************)
Signing == {"chat", "engine", "matched", "drain", "reconnect"}
Rewind  == chat' = 1 /\ good' = 0

\* The client is about to start, the first time or for another attempt.
ClientTrouble ==
    /\ pc = "chat" /\ Mishap
    /\ \E e \in {"client_rpc_hard_timeout", "client_startup_retry_scheduled"} :
         items' = Append(items, I(e))
    /\ UNCHANGED <<Task, Signer, Ending, pc, held, client>>

\* The client does not start, or the chat cannot be reached.
SignerFails ==
    /\ pc = "chat" /\ Mishap
    /\ Fail(items, "none")
    /\ UNCHANGED <<Task, Signer>>

\* "database is locked" starts the whole signer again.
SessionRetry ==
    /\ pc = "chat" /\ Mishap
    /\ items' = Append(items, I("session_retry"))
    /\ Rewind
    /\ UNCHANGED <<Task, Ending, pc, held, client, engine, engines, attempt, late, earned>>

StartEngine ==
    /\ pc = "chat" /\ Plain
    /\ pc' = "engine"
    /\ engine' = NoEngine
    /\ engines' = engines + 1
    /\ items' = Append(items, I("started"))
    /\ UNCHANGED <<Task, Ending, held, client, chat, good, attempt, late, earned>>

\* What one message, click, scan or retry of the engine logs.  A click is logged
\* before its callback; only a plain button trusts a callback that times out.
Missed(source) == <<Tag("button_callback_result", "unconfirmed"),
                    Tag("button_callback_unconfirmed", source),
                    I("button_callback_released_for_retry")>>
ButtonBursts ==
    {<<I("button_clicked"), Tag("button_callback_result", "confirmed")>>,
     <<I("button_clicked"), I("callback_timeout_trusted"),
       Tag("button_callback_result", "trusted_timeout")>>,
     <<I("button_clicked"), Tag("button_callback_outer_timeout", "trusted"),
       Tag("button_callback_result", "trusted_timeout")>>,
     <<I("button_clicked")>> \o Missed("startup_history"),
     <<I("button_clicked")>> \o Missed("realtime")}
OptionBursts ==
    {<<I("image_option_selected"), Tag("button_callback_result", "confirmed")>>,
     <<I("image_option_selected")>> \o Missed("realtime"),
     <<I("image_option_selected"), Tag("button_callback_outer_timeout", "-"),
       Tag("button_callback_result", "timeout_failed")>>}
CaptchaBursts(asks) ==
    {<<I("captcha_recognized"), Tag("captcha_sent", IF "reply" \in asks THEN "reply" ELSE "-")>>,
     <<I("captcha_recognized"), I("response_send_retryable_error"),
       I("message_retryable_error")>>}
\* _schedule_retry and _run_retry_after_delay; n is retry_count
RetryBursts(n) ==
    {<<Num("retry_scheduled", n), Num("retry_started", n), Num("retry_completed", n)>>,
     <<Num("retry_scheduled", n), Num("retry_suppressed", n)>>}
OtherBursts ==
    {<<I(e)>> : e \in {"history_scan_completed", "history_failed", "history_scan_cancelled",
                       "message_unhandled", "stale_callback_text_skipped",
                       "response_action_timeout", "callback_text_received"}}
      \cup {<<Tag("response_action_not_advanced", r)>> : r \in {"finished", "unhandled"}}
      \cup {<<Tag("message_skip_recorded", "duplicate")>>,
            <<I("client_rpc_hard_timeout"), I("client_rpc_late_completed")>>}

EngineWorks ==
    /\ pc = "engine" /\ Mishap
    /\ \E b \in ButtonBursts \cup OptionBursts \cup OtherBursts \cup RetryBursts(engine.retries + 1)
                  \cup (IF "captcha" \in expects THEN CaptchaBursts(expects) ELSE {}) :
         /\ items' = items \o b
         /\ engine' = [engine EXCEPT !.retries = @ + Count(b, {"retry_scheduled"}),
                                     !.unconfirmed = @ + Unconfirmed(b)]
    /\ UNCHANGED <<Task, Ending, pc, held, client, chat, good, engines, attempt, late, earned>>

\* A text tells that the sign-in succeeded.
ResultMatches ==
    /\ pc = "engine" /\ Plain
    /\ pc' = "matched"
    /\ earned' = TRUE
    /\ items' = Append(items, I("success_matched"))
    /\ UNCHANGED <<Task, Ending, held, client, chat, good, engine, engines, attempt, late>>

\* The answer to a picture may be back only now.
LateOcr ==
    /\ pc = "matched" /\ "captcha" \in expects /\ Mishap
    /\ items' = Append(items, I("captcha_recognized"))
    /\ UNCHANGED <<Task, Signer, Ending, pc, held, client>>

EngineEnds(log, result, raised, retries) ==
    /\ items' = Append(log, Item("final_state", result, retries, engine.unconfirmed))
    /\ engine' = [engine EXCEPT !.result = result, !.raised = raised, !.retries = retries]
    /\ earned' = (earned \/ result = "success")
    /\ pc' = "drain"
    /\ UNCHANGED <<Task, Ending, held, client, chat, good, engines, attempt, late>>

EngineSucceeds ==
    /\ Plain
    /\ \/ pc = "matched" /\ EngineEnds(items, "success", "-", engine.retries)
       \* nothing to wait for: all actions done and none asserts a result
       \/ /\ pc = "engine"
          /\ EngineEnds(Append(items, I("completed_without_result_assertion")),
                        "success", "unasserted", engine.retries)

\* A message could not be handled, the entry of a retry could not be sent, or
\* the retries are used up.
EngineGivesUp ==
    /\ pc = "engine" /\ Mishap
    /\ LET n == engine.retries + 1
       IN  \/ EngineEnds(items, "failed", "-", engine.retries)
           \/ EngineEnds(items \o <<Num("retry_scheduled", n), Num("retry_started", n),
                                    Num("retry_initial_send_failed", n)>>, "failed", "-", n)
           \/ n > 1 /\ EngineEnds(Append(items, Num("retry_limit_exceeded", n)), "failed", "-", n)
EngineTimesOut ==
    /\ pc = "engine" /\ Mishap
    /\ EngineEnds(Append(items, Item("timeout_state", "-", engine.retries, engine.unconfirmed)),
                  "failed", "business", engine.retries)
EngineRaises ==
    /\ pc = "engine" /\ Mishap
    /\ \E e \in {"business", "os", "other"} : EngineEnds(items, "failed", e, engine.retries)
\* sign_a_chat has drained the tasks of the updates.  A chat that failed is
\* passed over; only when none succeeded the attempt fails, as a whole.
SignedUp(log, signed) ==
    IF chat < chats
    THEN /\ items' = log
         /\ chat' = chat + 1 /\ good' = signed
         /\ pc' = "chat"
         /\ UNCHANGED <<Ending, held, client>>
    ELSE IF signed > 0
    THEN /\ items' = SlotReleased(log) \o <<Num("task_completed", attempt)>>
         /\ held' = held \ {"global_concurrency"}
         /\ success' = TRUE
         /\ pc' = "done"
         /\ UNCHANGED <<chat, good, cause, report, client>>
    ELSE IF attempt < Attempts
    THEN /\ items' = Append(log, Num("task_retry_scheduled", attempt))
         /\ pc' = "backoff"
         /\ UNCHANGED <<chat, good, Ending, held, client>>
    ELSE Fail(log, "none") /\ UNCHANGED <<chat, good>>

ChatEnds ==
    /\ pc = "drain" /\ engine.raised \in {"-", "unasserted", "business"} /\ Plain
    /\ IF engine.result = "success"
       THEN SignedUp(Append(items, Tag("completed",
                       IF engine.raised = "-" THEN "success" ELSE "-")), good + 1)
       ELSE SignedUp(items, good)
    /\ UNCHANGED <<Task, engine, engines, attempt, late, earned>>

\* The task of an update, or of a retry, is cancelled while it is at work.
DrainCancels ==
    /\ pc = "drain" /\ Mishap
    /\ \/ items' = Append(items, I("message_processing_cancelled"))
       \/ engine.retries > 0 /\ items' = Append(items, Num("retry_cancelled", engine.retries))
    /\ UNCHANGED <<Task, Signer, Ending, pc, held, client>>

\* OSError: half a minute later the signer starts with the first chat again.
ConnectionLost ==
    /\ pc = "drain" /\ engine.raised = "os" /\ Plain
    /\ pc' = "reconnect"
    /\ UNCHANGED <<Task, Signer, Ending, held, client, items>>
Reconnect ==
    /\ pc = "reconnect" /\ Plain
    /\ pc' = "chat"
    /\ Rewind
    /\ UNCHANGED <<Task, Ending, held, client, engine, engines, attempt, late, earned, items>>

SignerRaises ==
    /\ pc = "drain" /\ engine.raised = "other" /\ Plain
    /\ Fail(items, "none")
    /\ UNCHANGED <<Task, Signer>>

RetryTask ==
    /\ pc = "backoff" /\ Plain
    /\ pc' = "chat"
    /\ attempt' = attempt + 1
    /\ items' = Append(items, Num("task_retry_started", attempt + 1))
    /\ Rewind
    /\ UNCHANGED <<Task, Ending, held, client, engine, engines, late, earned>>

\* _run_signer_once_with_timeout: what becomes of the signer may be known at
\* once; a signer that is still at work goes on beside the cleanup.
RunTimesOut ==
    /\ pc \in Signing /\ Mishap
    /\ \E e \in Late("task_run") \cup {"-"} :
         /\ Fail(items \o <<I("task_run_timeout")>> \o (IF e = "-" THEN <<>> ELSE <<I(e)>>),
                 "outer_task")
         /\ late' = (e = "-" /\ pc = "engine")
    /\ UNCHANGED <<Task, chat, good, engine, engines, attempt, earned>>

\* Whoever waits for the run gives up.  It does not cancel the signer.
Cancel ==
    /\ pc \in {"queue", "ready", "slot", "backoff", "done"} \cup Signing /\ Mishap
    /\ Cancelled(items)
    /\ late' = (pc = "engine")
    /\ UNCHANGED <<Task, chat, good, engine, engines, attempt, earned>>

LateSigner ==
    /\ late /\ pc \in {"cleaning", "deferred"} /\ Plain
    /\ items' = items \o <<I("success_matched"),
                        Item("final_state", "success", engine.retries, engine.unconfirmed),
                        Tag("completed", "success")>>
                      \o (IF cause = "outer_task" THEN <<I("task_run_late_completed")>> ELSE <<>>)
    /\ engine' = [engine EXCEPT !.result = "success"]
    /\ earned' = TRUE
    /\ late' = FALSE
    /\ UNCHANGED <<Task, Ending, pc, held, client, chat, good, engines, attempt>>

(***************************************************************************)
(* The end of the run.                                                     *)
(***************************************************************************)
\* The two seconds after task_completed are over.
Finish ==
    /\ pc = "done" /\ Plain
    /\ Finally(items)
    /\ UNCHANGED <<Task, Signer, success, cause>>

\* A cancellation waits for the cleanup ...
DeferCancel ==
    /\ pc = "cleaning" /\ Mishap
    /\ pc' = "deferred"
    /\ items' = Append(items, I("task_cancellation_deferred_for_cleanup"))
    /\ UNCHANGED <<Task, Signer, Ending, held, client>>
\* ... a second one does not: the rest of the finally block is never run.
CancelAgain ==
    /\ pc = "deferred" /\ Mishap
    /\ pc' = "lost"
    /\ UNCHANGED <<Task, Signer, Ending, held, client, items>>

CleanupEnds ==
    /\ pc \in {"cleaning", "deferred"}
    /\ \/ /\ Plain
          /\ client' = "closed"
          /\ Over(Append(items, I("client_cleanup_completed")))
       \/ /\ Mishap
          /\ client' = "closed"
          /\ Over(Append(items, Tag("client_cleanup_completed", "forced")))
       \/ /\ Mishap
          /\ client' = "unclosed"
          /\ \E e \in Late("client_cleanup") \cup {"-"} :
               Over(items \o (IF e = "-" THEN <<>> ELSE <<I(e)>>) \o <<I("client_cleanup_failed")>>)
    /\ UNCHANGED <<Task, Signer, success, cause>>

Next ==
    \/ LockIsBusy \/ LockWaitTimesOut \/ AcquireAccountLock
    \/ ConfigurationFails \/ (\E busy \in BOOLEAN : MakeSigner(busy))
    \/ SlotWaitTimesOut \/ AcquireSlot
    \/ ClientTrouble \/ SignerFails \/ SessionRetry \/ StartEngine \/ EngineWorks
    \/ ResultMatches \/ LateOcr \/ EngineSucceeds \/ EngineGivesUp \/ EngineTimesOut \/ EngineRaises
    \/ ChatEnds \/ DrainCancels \/ ConnectionLost \/ Reconnect \/ SignerRaises \/ RetryTask
    \/ RunTimesOut \/ Cancel \/ LateSigner
    \/ Finish \/ DeferCancel \/ CancelAgain \/ CleanupEnds

Spec == Init /\ [][Next]_vars

(***************************************************************************)
(* Properties.                                                             *)
(***************************************************************************)
Recorded == pc = "over"
Whole    == report.seen = items

\* Whoever opens a run that the diagnosis passes may rely on it, however the
\* log was cut: an engine saw the result of the sign-in, or ended with success
\* where no result has to be seen, and, unless the log had outgrown its memory,
\* the client was closed.
PassIsEarned ==
    Recorded /\ report.saved /\ Diagnose(report.kept, expects, success) = "pass"
      => earned /\ (Whole => client = "closed")

\* The summary tells how the run really ended, though the log dropped its
\* oldest items: which locks were let go of, what became of the client, what
\* the run failed of and in which attempt, and whether it was recorded.
EndingTold(s) ==
    /\ \A l \in Locks : s.gates[l].released = Has(items, {GateEvent(l).acquired})
    /\ s.cleanup.completed = (client = "closed")
    /\ s.cleanup.failed = (client = "unclosed")
    /\ s.scope = (IF cause = "cancelled" THEN "-" ELSE cause)
    /\ cause # "cancelled" => s.attempt = attempt
    /\ s.save_failed = ~report.saved
    /\ s.timeouts.task_run = (IF cause = "outer_task" THEN 1 ELSE 0)
\* A run with one chat cannot be successful and shown as failed, and the
\* counters of its only engine are told wherever they are taken from.
OneChatTold(s) ==
    /\ chats = 1 /\ success => s.status = "success"
    /\ engines = 1 /\ (Whole \/ Has(report.seen, Final)) =>
         /\ s.retry_count = engine.retries
         /\ s.callbacks.unconfirmed = engine.unconfirmed
SummaryTold ==
    Recorded => LET s == BuildRunSummary(report.seen, success)
                IN  EndingTold(s) /\ OneChatTold(s)

\* The diagnosis does not cry wolf.  A successful run that was kept whole is
\* called failed only for a picture read after the result, or never answered;
\* one that never left the plain path passes.
NoFalseAlarm ==
    Recorded /\ success /\ report.kept = items =>
        /\ Diagnose(items, expects, success) = "fail"
             => "fail" \in NoOcrAfterResult(items) \cup CaptchaReply(items, expects)
        /\ mishaps = 0 => Diagnose(items, expects, success) = "pass"
=============================================================================
