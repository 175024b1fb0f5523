----------------------------- MODULE EventRunner -----------------------------
(***************************************************************************)
(* SignEventRunner: one chat of a sign-in run.  It sends the entry actions *)
(* and reacts to the bot's messages with the response actions, one after   *)
(* the other, until a text says that the sign-in succeeded.                *)
(*                                                                         *)
(* Messages reach it twice: every update is a task of its own that calls   *)
(* handle_message, late, again or never; and the history of the chat is    *)
(* scanned before the entry actions (startup) and while the run waits      *)
(* (rescue).  All of them, run itself and the retry task work under        *)
(* message_lock.  An action is what one coroutine does between two awaits; *)
(* a cancelled RPC or sleep counts as failed.                              *)
(***************************************************************************)
EXTENDS Integers, Sequences

CONSTANTS
    Versions,          \* message versions, numbered in the order they appear
    IdOf,              \* the message a version belongs to
    Offers,            \* the response actions a version lends itself to
    Result,            \* versions whose text matches a success keyword
    Chats,             \* the possible chat.actions, by kind
    AIFallback,        \* ai_fallback_enabled
    History,           \* history_limit > 0
    MaxRetries,        \* max_inline_retries
    Presses,           \* bound: the presses of one click, over its candidates
    FailureThreshold,  \* history_failure_threshold
    Run, Scan, Retry,  \* the coroutines besides the update tasks
    Free               \* message_lock when nobody holds it

Immediate == {"send", "wait"}
Replies   == {"answer", "captcha"}
Clicks    == {"click", "option", "poetry"}

ASSUME MessagesAssumption ==
    /\ Versions \subseteq Nat
    /\ IdOf \in [Versions -> Nat]
    /\ Offers \in [Versions -> SUBSET (Replies \cup Clicks)]
    /\ Result \subseteq Versions

ASSUME SpecAssumption ==
    /\ Chats \subseteq Seq(Immediate \cup Replies \cup Clicks \cup {"assert"})
    /\ AIFallback \in BOOLEAN
    /\ History \in BOOLEAN
    /\ MaxRetries \in Nat
    /\ Presses \in Nat \ {0}
    /\ FailureThreshold \in Nat

ASSUME NamesAssumption ==
    /\ Run # Scan /\ Run # Retry /\ Scan # Retry
    /\ Free \notin {Run, Scan, Retry}
    /\ {Run, Scan, Retry, Free} \cap Versions = {}

Handlers == Versions \cup {Scan}       \* an update's task is named by its version
Procs    == Handlers \cup {Run, Retry}
Ids      == {IdOf[v] : v \in Versions}

VARIABLES
    actions,     \* chat.actions, which never change
    pc,          \* the await each coroutine is suspended in
    lock,        \* the holder of message_lock
    step,        \* the entry action, or the press of a click, it is at
    born,        \* attempt_epoch when its holder began with a message
    index,       \* current_response_index + 1
    epoch,       \* attempt_epoch
    retryCount,  \* retry_count
    result,      \* result.status, "none" until finished is set
    processed,   \* processed_versions
    stale,       \* stale_attempt_versions
    attempted,   \* clicked_versions and sent_captcha_versions
    acted,       \* how often a version was acted on: see HandledOnce
    shown,       \* versions that have appeared in the chat
    before,      \* ids up to history_rescue_min_message_id
    tracked,     \* history_rescue_tracked_message_ids
    todo,        \* messages the scan has still to look at
    scanned,     \* the message it hands over, and the state it saw before
    unhandled,   \* history_unhandled_versions
    advanced,    \* the startup scan's "handled"
    failures,    \* history_consecutive_failures, up to the threshold
    suspended    \* history_rescue_suspended

(***************************************************************************)
(* build_event_spec: what is sent before anything is received, what comes  *)
(* after it, and whether a text has to say that all went well.             *)
(***************************************************************************)
Lead(acts) == CHOOSE n \in 0..Len(acts) :
                 /\ \A i \in 1..n : acts[i] \in Immediate
                 /\ n < Len(acts) => acts[n + 1] \notin Immediate

BuildEventSpec == [acts \in Chats |->
    [send_actions     |-> SubSeq(acts, 1, Lead(acts)),
     response_actions |-> SelectSeq(SubSeq(acts, Lead(acts) + 1, Len(acts)),
                                    LAMBDA a : a # "assert"),
     requires_result  |-> \E i \in DOMAIN acts : acts[i] = "assert"]]

Entry    == BuildEventSpec[actions].send_actions
Response == BuildEventSpec[actions].response_actions
RequiresResult == BuildEventSpec[actions].requires_result

attempt  == <<index, epoch, retryCount, result>>
tries    == <<attempted, acted>>
marks    == <<processed, stale, tries, tracked, unhandled>>
chat     == <<actions, shown, before>>
scanning == <<todo, scanned, advanced, failures, suspended>>

vars == <<actions, pc, lock, step, born, attempt, marks, chat, scanning>>

-----------------------------------------------------------------------------

Finished     == result # "none"
RetryPending == pc[Retry] # "off"

(* Awaits under message_lock, and those of them that reach the chat. *)
Effects == {"acting", "falling", "follow", "entry"}
Inside  == Effects \cup {"thinking", "asking", "retry_wait"}
Points  == Inside \cup {"off", "lock_wait", "reading", "between", "scanning",
                        "waiting", "over"}

Msg(h) == IF h = Scan THEN scanned.version ELSE h

(* The rest a coroutine returns to when it releases the lock. *)
Rest(p) == CASE p = Scan -> "between" [] p = Run -> "waiting" [] OTHER -> "off"

Marked(p) == IF p \in Handlers THEN {Msg(p)} ELSE {}

(* _handling_startup_history, which every handler reads. *)
HandlingStartup ==
    pc[Run] = "scanning" /\ pc[Scan] \in Inside \cup {"lock_wait"}

Current(kinds) == index \in DOMAIN Response /\ Response[index] \in kinds

(* _finish_if_no_result_required, with action i as the current one. *)
AllDone(i) == ~RequiresResult /\ i > Len(Response)

(* _finish keeps the first result. *)
FinishAs(r) == result' = IF Finished THEN result ELSE r

(* Faulty: one retry more than max_inline_retries. *)
ScheduleOneMore ==
    IF Finished \/ RetryPending THEN UNCHANGED attempt
    ELSE /\ retryCount' = retryCount + 1
         /\ IF retryCount <= MaxRetries
            THEN index' = 1 /\ epoch' = epoch + 1 /\ UNCHANGED result
            ELSE result' = "failed" /\ UNCHANGED <<index, epoch>>

(***************************************************************************)
(* _schedule_retry.  A retry that is under way, even the caller's own,     *)
(* suppresses another.  A new epoch resets the attempt's state and creates *)
(* the retry task: see Kept and Moved.                                     *)
(***************************************************************************)
ScheduleRetry ==
    IF Finished \/ RetryPending THEN UNCHANGED attempt
    ELSE /\ retryCount' = retryCount + 1
         /\ IF retryCount < MaxRetries
            THEN index' = 1 /\ epoch' = epoch + 1 /\ UNCHANGED result
            ELSE result' = "failed" /\ UNCHANGED <<index, epoch>>

(* _reset_attempt_state. *)
Kept(S) == IF epoch' = epoch THEN S ELSE {}

Moved(p, point) ==
    pc' = [q \in Procs |-> IF q = p THEN point
                          ELSE IF q = Retry /\ epoch' # epoch THEN "lock_wait"
                          ELSE pc[q]]

(***************************************************************************)
(* p leaves the lock.  marked is the message it has handled, which counts  *)
(* for the attempt it was handled in only                                  *)
(* (_mark_message_processed_for_attempt); followed says whether later      *)
(* scans may look at it again.  The startup scan sees whether the message  *)
(* it handed over led anywhere.                                            *)
(***************************************************************************)
Leave(p, marked, followed) ==
    LET current == lock = Free \/ epoch' = born
        ledOn == /\ p = Scan /\ pc[Run] = "scanning"
                 /\ result' # "none" \/ index' # scanned.index
        again == IF ledOn \/ (followed /\ current) THEN Marked(p) ELSE {}
    IN /\ Moved(p, Rest(p))
       /\ lock' = Free
       /\ processed' = Kept(processed) \cup (IF current THEN marked ELSE {})
       /\ stale' = stale \cup (IF current THEN {} ELSE marked)
       /\ tracked' = Kept(tracked) \cup {IdOf[v] : v \in again}
       /\ advanced' = (advanced \/ ledOn)

(***************************************************************************)
(* For HandledOnce: the versions of S were acted on once more.  A new      *)
(* attempt begins from zero, but for what stays behind as stale.           *)
(***************************************************************************)
Acted(S) ==
    acted' = [v \in Versions |->
                (IF epoch' = epoch \/ v \in stale' THEN acted[v] ELSE 0)
                + (IF v \in S THEN 1 ELSE 0)]

Quit(p, marked, followed) ==
    /\ Leave(p, marked, followed)
    /\ unhandled' = Kept(unhandled)
    /\ step' = 1
    /\ UNCHANGED <<actions, born, shown, todo, scanned, failures, suspended>>

Stay(p, point) ==
    /\ Moved(p, point)
    /\ UNCHANGED <<actions, lock, born, processed, stale, tracked, unhandled,
                   shown, scanning>>

(* The id of a message of one's own is larger than all that went before:   *)
(* _mark_entry_message_sent.                                               *)
OwnMessage(sent) ==
    before' = IF sent THEN before \cup {IdOf[v] : v \in shown} ELSE before

-----------------------------------------------------------------------------

(* What the chat shows: the last version of every message. *)
Latest(S) == {v \in S : \A w \in S : IdOf[w] = IdOf[v] => w <= v}

(* SignEventRunner is registered and run() has come to its first await. *)
Init ==
    /\ actions \in Chats
    /\ shown \in {{w \in Versions : w < v} : v \in Versions}
    /\ pc = [p \in Procs |->
               CASE p = Run -> IF History THEN "scanning" ELSE "lock_wait"
                 [] p = Scan -> IF History THEN "reading" ELSE "off"
                 [] OTHER -> "off"]
    /\ lock = Free
    /\ step = 1 /\ born = 0
    /\ index = 1 /\ epoch = 0 /\ retryCount = 0 /\ result = "none"
    /\ processed = {} /\ stale = {} /\ attempted = {}
    /\ acted = [v \in Versions |-> 0]
    /\ before = {} /\ tracked = {} /\ unhandled = {}
    /\ todo = {} /\ scanned = [version |-> 0, index |-> 1, pending |-> FALSE]
    /\ advanced = FALSE /\ failures = 0 /\ suspended = FALSE

(* A new message or an edit appears in the chat. *)
Appear(v) ==
    /\ v \notin shown
    /\ \A w \in Versions : w < v => w \in shown
    /\ shown' = shown \cup {v}
    /\ UNCHANGED <<actions, pc, lock, step, born, attempt, marks, before,
                   scanning>>

Seen == stale \cup processed

(* Faulty: results are not looked for while a retry is pending. *)
SuccessNow(v) == RequiresResult /\ v \in Result /\ ~RetryPending

(* _classify_text of a message. *)
Success(v) == RequiresResult /\ v \in Result

(***************************************************************************)
(* An update becomes a task: handle_message up to its wait for the lock.   *)
(* A result does not wait while somebody else has the lock.                *)
(***************************************************************************)
Deliver(v) ==
    /\ v \in shown
    /\ pc[v] = "off" /\ pc[Run] # "over"
    /\ ~Finished
    /\ IF Success(v) /\ lock # Free /\ v \notin Seen \cup Marked(lock)
       THEN /\ FinishAs("success")
            /\ processed' = processed \cup {v}
            /\ UNCHANGED pc
       ELSE /\ pc' = [pc EXCEPT ![v] = "lock_wait"]
            /\ UNCHANGED <<result, processed>>
    /\ UNCHANGED <<lock, step, born, index, epoch, retryCount, stale, tries,
                   tracked, unhandled, chat, scanning>>

-----------------------------------------------------------------------------

(* The message does nothing for the current action. *)
CanAct(v) ==
    /\ ~RetryPending
    /\ Current(Offers[v])
    /\ HandlingStartup => Response[index] = "captcha"
    /\ Response[index] \in {"click", "captcha"} => v \notin attempted

(* _handle_unexpected_interaction: ask the AI what to do. *)
CanAsk == AIFallback /\ RequiresResult /\ index \notin DOMAIN Response /\ ~RetryPending

(* _record_message_unhandled; the scan does not offer it again unchanged. *)
Unhandled(h) ==
    /\ Leave(h, {}, FALSE)
    /\ unhandled' = IF h = Scan THEN unhandled \cup {scanned} ELSE unhandled
    /\ step' = 1
    /\ UNCHANGED <<actions, born, shown, todo, scanned, failures, suspended>>

(***************************************************************************)
(* _handle_message_locked up to its first await: skipped, a result, the    *)
(* current action, the AI fallback, or nothing to do.                      *)
(***************************************************************************)
Begin(h, point, guarded) ==
    /\ Moved(h, point)
    /\ lock' = h
    /\ born' = epoch
    /\ attempted' = attempted \cup guarded
    /\ step' = 1
    /\ UNCHANGED <<actions, acted, processed, stale, tracked, unhandled, shown,
                   scanning>>

React(h, v) ==
    \/ /\ CanAct(v)
       /\ CASE Response[index] = "click"   -> Begin(h, "acting", {v})
            [] Response[index] = "captcha" -> Begin(h, "thinking", {v})
            [] OTHER                       -> Begin(h, "thinking", {})
    \/ ~CanAct(v) /\ CanAsk /\ Begin(h, "asking", {})
    \/ ~CanAct(v) /\ ~CanAsk /\ Unhandled(h) /\ UNCHANGED tries

Acquire(h) ==
    /\ pc[h] = "lock_wait" /\ lock = Free
    /\ UNCHANGED before
    /\ LET v == Msg(h)
           skipped == Finished \/ v \in Seen
       IN \/ /\ skipped
             /\ UNCHANGED <<attempt, tries>>
             /\ Quit(h, {}, FALSE)
          \/ /\ ~skipped /\ Success(v)
             /\ FinishAs("success")
             /\ UNCHANGED <<index, epoch, retryCount, tries>>
             /\ Quit(h, {v}, FALSE)
          \/ /\ ~skipped /\ ~Success(v)
             /\ UNCHANGED attempt
             /\ React(h, v)

(* The action came to nothing: the AI fallback, or nobody. *)
FallThrough(h) ==
    /\ UNCHANGED <<attempt, before>>
    /\ \/ CanAsk /\ Stay(h, "asking") /\ UNCHANGED step
       \/ ~CanAsk /\ Unhandled(h)

(* Faulty: what follows is left to the next message. *)
HandledOnly(h, r, advance) ==
    LET i == IF r = "none" /\ ~RetryPending /\ advance THEN index + 1 ELSE index
    IN /\ index' = i
       /\ result' = IF i # index /\ AllDone(i) THEN "success" ELSE r
       /\ UNCHANGED <<epoch, retryCount>>
       /\ Quit(h, {Msg(h)}, TRUE)

(* Faulty: the message is not marked as processed. *)
HandledUnmarked(h, r, advance) ==
    LET i == IF r = "none" /\ ~RetryPending /\ advance THEN index + 1 ELSE index
        follows == i # index /\ i \in DOMAIN Response /\ Response[i] \in Immediate
    IN /\ index' = i
       /\ result' = IF i # index /\ AllDone(i) THEN "success" ELSE r
       /\ UNCHANGED <<epoch, retryCount>>
       /\ \/ follows /\ Stay(h, "follow") /\ UNCHANGED step
          \/ ~follows /\ Quit(h, {}, TRUE)

(***************************************************************************)
(* _handle_current_response_action once the message was handled: the index *)
(* advances and the actions that need no message follow at once.  r is the *)
(* result so far.                                                          *)
(***************************************************************************)
Handled(h, r, advance) ==
    LET i == IF r = "none" /\ ~RetryPending /\ advance THEN index + 1 ELSE index
        follows == i # index /\ i \in DOMAIN Response /\ Response[i] \in Immediate
    IN /\ index' = i
       /\ result' = IF i # index /\ AllDone(i) THEN "success" ELSE r
       /\ UNCHANGED <<epoch, retryCount>>
       /\ \/ follows /\ Stay(h, "follow") /\ UNCHANGED step
          \/ ~follows /\ Quit(h, {Msg(h)}, TRUE)

-----------------------------------------------------------------------------

(* Faulty: an AI answer that comes late is acted on all the same. *)
ThinkToEnd(h) ==
    /\ pc[h] = "thinking"
    /\ UNCHANGED <<attempt, before>>
    /\ Stay(h, "acting")
    /\ attempted' = attempted \cup {Msg(h)}
    /\ step' = 1
    /\ UNCHANGED acted

(***************************************************************************)
(* The media was read and the AI has answered.  Nothing more is done once  *)
(* the run has its result; otherwise the reply is sent or the button is    *)
(* pressed.                                                                *)
(***************************************************************************)
Think(h) ==
    /\ pc[h] = "thinking"
    /\ UNCHANGED <<acted, before>>
    /\ \/ /\ Finished
          /\ attempted' = attempted \ {Msg(h)}
          /\ Handled(h, result, TRUE)
       \/ /\ ~Finished
          /\ Response[index] \in Clicks => Msg(h) \notin attempted
          /\ UNCHANGED attempt
          /\ step' = 1
          /\ attempted' = IF Response[index] \in Clicks
                          THEN attempted \cup {Msg(h)} ELSE attempted
          /\ Stay(h, "acting")

(* The AI knows no answer. *)
NoAnswer(h) ==
    /\ pc[h] = "thinking"
    /\ ~Finished /\ Response[index] # "captcha"
    /\ FallThrough(h)
    /\ UNCHANGED tries

(* The text read is empty or of a wrong length: retry, and be done with it. *)
CaptchaUnusable(h) ==
    /\ pc[h] = "thinking" /\ Response[index] = "captcha"
    /\ ScheduleRetry
    /\ attempted' = Kept(attempted)
    /\ Quit(h, {Msg(h)}, TRUE)
    /\ Acted({})
    /\ UNCHANGED before

(* The text read is not a code but the result. *)
CaptchaIsResult(h) ==
    /\ pc[h] = "thinking" /\ Response[index] = "captcha"
    /\ RequiresResult
    /\ FinishAs("success")
    /\ UNCHANGED <<index, epoch, retryCount, tries, before>>
    /\ Quit(h, {Msg(h)}, TRUE)

(***************************************************************************)
(* A reply was sent, a click was answered, or its answer is not waited for *)
(* (trusted timeout).  The answer may bring the result's text; a button of *)
(* a reply keyboard is pressed by sending its text, which ends the click.  *)
(***************************************************************************)
Outcomes(click) ==
    (IF ~click \/ step = 1 THEN {[text |-> FALSE, sent |-> TRUE]} ELSE {})
        \cup IF click THEN {[text |-> t, sent |-> FALSE] :
                             t \in {FALSE, RequiresResult /\ ~Finished}}
             ELSE {}

(* A poem may need more clicks before its action is done. *)
Confirmed(h) ==
    /\ pc[h] = "acting"
    /\ \E o \in Outcomes(Response[index] \in Clicks),
          done \in {TRUE, Response[index] # "poetry"} :
          /\ Handled(h, IF o.text THEN "success" ELSE result, done)
          /\ OwnMessage(o.sent)
    /\ Acted({Msg(h)})
    /\ UNCHANGED attempted

(* Faulty: the message counts as clicked although it was not. *)
UnconfirmedKept(h) ==
    /\ pc[h] = "acting" /\ Response[index] \in Clicks
    /\ FallThrough(h)
    /\ UNCHANGED tries

(* A button is being pressed, for the program or for the AI. *)
Clicking(h) ==
    \/ pc[h] = "acting" /\ Response[index] \in Clicks
    \/ pc[h] = "falling" /\ Msg(h) \in attempted

(***************************************************************************)
(* A press came to nothing and there is another one in the same click:     *)
(* request_callback_answer tries again after a timeout or a FloodWait, and *)
(* a poem goes on to the button of its next candidate, whose mark takes    *)
(* the place of the last one's.  Nobody asks whether the run has its       *)
(* result by now.                                                          *)
(***************************************************************************)
PressAgain(h) ==
    /\ Clicking(h)
    /\ step < Presses
    /\ step' = step + 1
    /\ UNCHANGED <<attempt, tries, before>>
    /\ Stay(h, pc[h])

(* No press was confirmed: the click may be tried again. *)
Unconfirmed(h) ==
    /\ pc[h] = "acting" /\ Response[index] \in Clicks
    /\ attempted' = attempted \ {Msg(h)}
    /\ UNCHANGED acted
    /\ FallThrough(h)

(***************************************************************************)
(* The AI's verdict on a message no action is configured for: click, send, *)
(* a status to take note of, or nothing.  Nobody asks whether the run has  *)
(* its result by now.                                                      *)
(***************************************************************************)
Decide(h) ==
    /\ pc[h] = "asking"
    /\ UNCHANGED <<attempt, before>>
    /\ \/ /\ \E clicked \in {{}, {Msg(h)} \ attempted} :
                attempted' = attempted \cup clicked
          /\ Stay(h, "falling")
          /\ step' = 1
          /\ UNCHANGED acted
       \/ Quit(h, {Msg(h)}, FALSE) /\ UNCHANGED attempted /\ Acted({Msg(h)})
       \/ Unhandled(h) /\ UNCHANGED tries

FellBack(h) ==
    /\ pc[h] = "falling"
    /\ \E o \in Outcomes(Msg(h) \in attempted) :
          /\ result' = IF o.text THEN "success" ELSE result
          /\ OwnMessage(o.sent)
    /\ UNCHANGED <<index, epoch, retryCount, attempted>>
    /\ Quit(h, {Msg(h)}, FALSE)
    /\ Acted({Msg(h)})

FallbackUnconfirmed(h) ==
    /\ pc[h] = "falling" /\ Msg(h) \in attempted
    /\ UNCHANGED <<attempt, before>>
    /\ attempted' = attempted \ {Msg(h)}
    /\ UNCHANGED acted
    /\ Unhandled(h)

(* A hard timeout or an RPC error while a message is handled. *)
Fails(h) ==
    /\ pc[h] \in {"thinking", "acting", "asking", "falling"}
    /\ ScheduleRetry
    /\ attempted' = Kept(attempted \ {Msg(h)})
    /\ Quit(h, {}, FALSE)
    /\ Acted({})
    /\ UNCHANGED before

(* Any other exception. *)
Breaks(h) ==
    /\ pc[h] \in {"thinking", "acting", "asking", "falling", "follow"}
    /\ FinishAs("failed")
    /\ UNCHANGED <<index, epoch, retryCount, tries, before>>
    /\ Quit(h, {}, FALSE)

-----------------------------------------------------------------------------

(* Actions that wait for no message: _drain_immediate_response_actions.    *)
FollowUpNext(p, i) ==
    /\ ~Finished
    /\ p = Retry \/ ~RetryPending
    /\ i \in DOMAIN Response /\ Response[i] \in Immediate

(* One is through; a wait that the result cut short does not count. *)
FollowedUp(p) ==
    /\ pc[p] = "follow"
    /\ LET cut == Finished /\ Response[index] = "wait"
           i == IF cut THEN index ELSE index + 1
       IN /\ index' = i
          /\ result' = IF AllDone(i) /\ ~Finished THEN "success" ELSE result
          /\ UNCHANGED <<epoch, retryCount, tries>>
          /\ OwnMessage(Response[index] = "send")
          /\ \/ FollowUpNext(p, i) /\ Stay(p, "follow") /\ UNCHANGED step
             \/ ~FollowUpNext(p, i) /\ Quit(p, Marked(p), TRUE)

FollowUpFails(p) ==
    /\ pc[p] = "follow" /\ Response[index] = "send"
    /\ ScheduleRetry
    /\ attempted' = Kept(attempted)
    /\ Quit(p, Marked(p), TRUE)
    /\ Acted({})
    /\ UNCHANGED before

(***************************************************************************)
(* The entry actions, of run itself and of a retry.  Then come actions     *)
(* that wait for no message, if the first ones are of that kind.           *)
(***************************************************************************)
Drain(p) ==
    /\ IF FollowUpNext(p, index)
       THEN /\ UNCHANGED attempt
            /\ Moved(p, "follow")
            /\ lock' = p
            /\ UNCHANGED <<born, processed, stale, tracked, unhandled,
                           actions, shown, scanning>>
       ELSE /\ result' = IF AllDone(index) /\ ~Finished THEN "success" ELSE result
            /\ UNCHANGED <<index, epoch, retryCount>>
            /\ Leave(p, {}, FALSE)
            /\ UNCHANGED <<actions, born, unhandled, shown, todo, scanned,
                           failures, suspended>>
    /\ UNCHANGED tries

EntryAt(p, n) ==
    /\ step' = n
    /\ \/ /\ n \in DOMAIN Entry /\ ~Finished
          /\ UNCHANGED attempt
          /\ Moved(p, IF p = Retry /\ n = 1 THEN "retry_wait" ELSE "entry")
          /\ lock' = p
          /\ UNCHANGED <<born, marks, actions, shown, scanning>>
       \/ ~(n \in DOMAIN Entry /\ ~Finished) /\ Drain(p)

(* Faulty: a retry does not wait for the message being handled. *)
EnterUnlocked(p) ==
    /\ pc[p] = "lock_wait"
    /\ EntryAt(p, 1)
    /\ UNCHANGED before

Enter(p) ==
    /\ pc[p] = "lock_wait" /\ lock = Free
    /\ EntryAt(p, 1)
    /\ UNCHANGED before

(* retry_wait is over. *)
RetryGoesOn ==
    /\ pc[Retry] = "retry_wait"
    /\ UNCHANGED <<step, before>>
    /\ \/ /\ ~Finished
          /\ UNCHANGED <<attempt, tries>>
          /\ Stay(Retry, "entry")
       \/ Finished /\ Drain(Retry)

EntryDone(p) ==
    /\ pc[p] = "entry"
    /\ EntryAt(p, step + 1)
    /\ OwnMessage(Entry[step] = "send")

(* An entry or follow-up action of a retry ends it for good. *)
RetryBreaks ==
    /\ \/ pc[Retry] = "entry" /\ Entry[step] = "send"
       \/ pc[Retry] = "follow" /\ Response[index] = "send"
    /\ FinishAs("failed")
    /\ UNCHANGED <<index, epoch, retryCount, tries, before>>
    /\ Quit(Retry, {}, FALSE)

-----------------------------------------------------------------------------

(***************************************************************************)
(* run() is over, its retry task and the update tasks are cancelled with   *)
(* it, and so is a scan unless a rescue scan is left behind.               *)
(***************************************************************************)
Over(leftBehind) ==
    LET stays(p) == p = Scan /\ leftBehind
        cancelled == {h \in Handlers :
                        ~stays(h) /\ pc[h] \in {"thinking", "acting", "falling"}}
    IN /\ pc' = [p \in Procs |-> IF p = Run THEN "over"
                                 ELSE IF stays(p) THEN pc[p] ELSE "off"]
       /\ lock' = IF stays(lock) THEN lock ELSE Free
       /\ attempted' = attempted \ {Msg(h) : h \in cancelled}
       /\ UNCHANGED <<step, born, attempt, acted, processed, stale, tracked, unhandled,
                      chat, scanning>>

(* finished is set: _wait_finished takes its scan along. *)
Complete == pc[Run] = "waiting" /\ Finished /\ Over(FALSE)

(***************************************************************************)
(* The run's timeout (while it waits), an entry action that failed, or the *)
(* cancellation of the whole run.  wait_for cancels _wait_finished, which  *)
(* does not cancel the rescue scan it awaits.                              *)
(***************************************************************************)
Abort == pc[Run] # "over" /\ Over(pc[Run] = "waiting")

-----------------------------------------------------------------------------

(* _wait_finished looks at the history now and then. *)
Rescue ==
    /\ pc[Run] = "waiting" /\ pc[Scan] = "off"
    /\ History /\ ~suspended /\ ~Finished
    /\ pc' = [pc EXCEPT ![Scan] = "reading"]
    /\ UNCHANGED <<lock, step, born, attempt, marks, chat, scanning>>

AtStartup == pc[Run] = "scanning"

ScanEnds(handled) ==
    pc' = [pc EXCEPT ![Scan] = "off",
                     ![Run] = IF ~AtStartup THEN @
                              ELSE IF handled THEN "waiting" ELSE "lock_wait"]

(* The history could not be read; rescue scans give up after some failures. *)
ReadFails ==
    /\ pc[Scan] = "reading"
    /\ LET n == IF failures < FailureThreshold THEN failures + 1 ELSE failures
       IN /\ failures' = n
          /\ suspended' = \/ suspended
                          \/ /\ ~AtStartup
                             /\ FailureThreshold > 0 /\ n = FailureThreshold
    /\ ScanEnds(FALSE)
    /\ UNCHANGED <<lock, step, born, attempt, marks, chat, todo, scanned, advanced>>

(* _history_message_allowed in a rescue scan. *)
Allowed(v) == IdOf[v] \notin before \/ IdOf[v] \in tracked

(***************************************************************************)
(* The history is here.  A result among the messages is taken at once; at  *)
(* startup those that are too old are left out (recent are not).           *)
(***************************************************************************)
Read ==
    /\ pc[Scan] = "reading"
    /\ failures' = 0 /\ suspended' = FALSE
    /\ OwnMessage(AtStartup)
    /\ \E recent \in IF AtStartup THEN SUBSET Latest(shown) ELSE {Latest(shown)} :
          LET looked == {v \in recent : AtStartup \/ Allowed(v)}
          IN IF ~Finished /\ \E v \in looked : Success(v)
             THEN /\ result' = "success"
                  /\ ScanEnds(TRUE)
                  /\ UNCHANGED todo
             ELSE /\ pc' = [pc EXCEPT ![Scan] = "between"]
                  /\ todo' = recent
                  /\ UNCHANGED result
    /\ UNCHANGED <<lock, step, born, index, epoch, retryCount, marks, actions,
                   shown, scanned, advanced>>

(* The next message is handed to handle_message, from old to new. *)
HandOver(v) ==
    /\ pc[Scan] = "between" /\ ~Finished
    /\ v \in todo /\ \A w \in todo : IdOf[v] <= IdOf[w]
    /\ todo' = todo \ {v}
    /\ LET key == [version |-> v, index |-> index, pending |-> RetryPending]
       IN \/ /\ AtStartup \/ Allowed(v)
             /\ v \notin processed /\ key \notin unhandled
             /\ scanned' = key
             /\ pc' = [pc EXCEPT ![Scan] = "lock_wait"]
          \/ /\ \/ ~AtStartup /\ ~Allowed(v)
                \/ v \in processed \/ key \in unhandled
             /\ UNCHANGED <<scanned, pc>>
    /\ UNCHANGED <<lock, step, born, attempt, marks, chat, advanced, failures,
                   suspended>>

ScanOver ==
    /\ pc[Scan] = "between"
    /\ Finished \/ todo = {}
    /\ todo' = {}
    /\ ScanEnds(Finished \/ advanced)
    /\ UNCHANGED <<lock, step, born, attempt, marks, chat, scanned, advanced,
                   failures, suspended>>

-----------------------------------------------------------------------------

(* What a handler does next: Telegram, its users and the AI choose. *)
Choose(h) ==
    \/ Think(h)
    \/ NoAnswer(h)
    \/ CaptchaUnusable(h)
    \/ CaptchaIsResult(h)
    \/ Confirmed(h)
    \/ PressAgain(h)
    \/ Unconfirmed(h)
    \/ Decide(h)
    \/ FellBack(h)
    \/ FallbackUnconfirmed(h)
    \/ Breaks(h)

Next ==
    \/ \E v \in Versions : Appear(v) \/ Deliver(v) \/ HandOver(v)
    \/ \E h \in Handlers : Acquire(h) \/ Choose(h) \/ Fails(h)
    \/ \E p \in Procs : FollowedUp(p) \/ FollowUpFails(p)
    \/ \E p \in {Run, Retry} : Enter(p) \/ EntryDone(p)
    \/ RetryGoesOn
    \/ RetryBreaks
    \/ Complete
    \/ Abort
    \/ Rescue
    \/ Read
    \/ ReadFails
    \/ ScanOver

Spec == Init /\ [][Next]_vars

-----------------------------------------------------------------------------

(* An action of s, or what comes behind the last: 1..(Len(s) + 1). *)
Positions(s) == {1} \cup {i + 1 : i \in DOMAIN s}

StepRange == Positions(Entry) \cup 1..Presses

TypeOK ==
    /\ actions \in Chats
    /\ pc \in [Procs -> Points]
    /\ lock \in Procs \cup {Free}
    /\ step \in StepRange
    /\ born \in 0..MaxRetries /\ epoch \in 0..MaxRetries
    /\ index \in Positions(Response)
    /\ retryCount \in 0..(MaxRetries + 1)
    /\ result \in {"none", "success", "failed"}
    /\ {processed, stale, attempted, shown, todo} \subseteq SUBSET Versions
    /\ acted \in [Versions -> Nat]
    /\ {before, tracked} \subseteq SUBSET Ids
    /\ scanned.version \in Versions \cup {0}
    /\ advanced \in BOOLEAN /\ suspended \in BOOLEAN
    /\ failures \in 0..FailureThreshold

(***************************************************************************)
(* message_lock: one coroutine at a time handles a message, sends the      *)
(* entry actions or what follows, and whichever way it ends, timeouts and  *)
(* cancellation included, the lock is free again.                          *)
(***************************************************************************)
LockHeldInside == \A p \in Procs : lock = p <=> pc[p] \in Inside

(***************************************************************************)
(* A message is acted on once in an attempt, though it may be delivered    *)
(* twice and be found by scans at the same time: a reply is sent or a      *)
(* click carried through at most once, and nobody works on a message that  *)
(* was acted on, or that somebody else works on.  An action that was given *)
(* up may be tried again, and the presses of one click count as one.       *)
(***************************************************************************)
AtWork(h) == pc[h] \in {"thinking", "acting", "asking", "falling"}

HandledOnce ==
    /\ \A v \in Versions : acted[v] <= 1
    /\ \A h \in Handlers :
          AtWork(h) => /\ acted[Msg(h)] = 0
                       /\ \A k \in Handlers \ {h} : AtWork(k) => Msg(k) # Msg(h)

(***************************************************************************)
(* What keeps a button from being pressed twice never keeps it from being  *)
(* pressed at all: a message that was given up can be tried again.         *)
(***************************************************************************)
GivenUpCanBeRetried ==
    (~Finished /\ pc[Run] # "over") =>
        attempted \subseteq
            processed \cup {Msg(h) : h \in {k \in Handlers : pc[k] \in Inside}}

(***************************************************************************)
(* Nothing is begun once the result is known, with two exceptions, neither *)
(* of which asks for it: what the AI fallback decides, and a click under   *)
(* way whose button, or the next candidate's, is pressed again.            *)
(***************************************************************************)
Begins(p) ==
    /\ pc'[p] \in Effects
    /\ <<pc[p], index, step>> # <<pc'[p], index', step'>>

QuietAfterResult ==
    [][Finished => \A p \in Procs :
         Begins(p) => \/ pc'[p] = "falling"
                      \/ pc[p] = "acting" /\ pc'[p] = "acting"]_vars

(***************************************************************************)
(* The result is not missed: who looks at a message that carries it ends   *)
(* with the result known, also during a retry and beside another handler.  *)
(***************************************************************************)
ResultNotMissed ==
    [][\A h \in Handlers :
         (/\ pc[h] # "off" /\ pc'[h] = Rest(h) /\ pc[h] # pc'[h]
          /\ pc'[Run] # "over" /\ pc[h] # "reading"
          /\ RequiresResult /\ Msg(h) \in Result \ stale)
         => result' # "none"]_vars

(***************************************************************************)
(* Actions that wait for no message are not left behind: who gives up the  *)
(* lock has done them, or there is a retry, or the run is over.  One case  *)
(* is not covered: a follow-up action of a retry that fails.               *)
(***************************************************************************)
FollowUpsDone ==
    [][(lock # Free /\ lock' = Free /\ pc'[Run] # "over") =>
         \/ result' # "none" \/ pc'[Retry] # "off"
         \/ index' \notin DOMAIN Response \/ Response[index'] \notin Immediate
         \/ lock = Retry /\ index' = index]_vars

(* tests/e2e/resource_efficiency_scenarios.txt:23: a rescue scan stops     *)
(* when the run is completed or cancelled.                                 *)
RescueStopsWithRun == pc[Run] = "over" => pc[Scan] = "off"

=============================================================================
