------------------------------ MODULE QrLogin ------------------------------
(***************************************************************************)
(* QR login of one account: TelegramService.start_qr_login,                *)
(* get_qr_login_status, submit_qr_password, cancel_qr_login, the expiry    *)
(* task and _cleanup_qr_login.  Unlike a phone login, a QR login holds the *)
(* account's lock from its start to the end of its cleanup, over many      *)
(* requests, and the lock is released by whoever cleans up.                *)
(*                                                                         *)
(* A session stands for its entry of _qr_login_sessions.  An operation is  *)
(* a request's coroutine, an action what it does between two awaits.  The  *)
(* routes set no timeout, so no coroutine is cancelled; what Telegram      *)
(* answers is open.  The fallback exports and the migrations of a login    *)
(* token are further requests of one "importing", with the same answers.   *)
(***************************************************************************)
EXTENDS Integers

CONSTANTS
    Ops,       \* slots for requests in flight
    Sessions,  \* bound: the sessions that may ever be started
    TTL,       \* life of a login token, in ticks
    Extension, \* the 300 seconds of _extend_qr_expires, in ticks
    Renewals,  \* bound: how often a session's deadline is moved
    Free,      \* value of a lock nobody holds
    Other,     \* holder of the lock outside this module
    None       \* no session; the account's row does not exist

ASSUME NamesAssumption ==
    /\ Ops \cap Sessions = {}
    /\ {Free, Other, None} \cap (Ops \cup Sessions) = {}
    /\ Free # Other

ASSUME LimitsAssumption ==
    /\ TTL \in Nat \ {0} /\ Extension \in Nat
    /\ TTL <= Extension
    /\ Renewals \in Nat

VARIABLES
    pc,        \* the await each operation is suspended in
    target,    \* the session it starts or names by its login_id
    pending,   \* the sessions in _qr_login_sessions
    status,    \* data["status"]
    polling,   \* data["polling"]
    client,    \* the session's client
    reopened,  \* sessions whose client was connected once more
    broken,    \* sessions whose start an exception ended, the lock taken
    cleaning,  \* how far _cleanup_qr_login of the session is
    cleaner,   \* the operation, or the expiry task, that cleans up
    kept,      \* sessions cleaned up with preserve_session
    timer,     \* the expiry task
    alarm,     \* ticks left of its sleep
    left,      \* ticks until expires_ts
    renewed,   \* how often expires_ts was moved
    stored,    \* the session whose session_string the account has
    lock       \* get_account_lock(account_name)

vars == <<pc, target, pending, status, polling, client, reopened, broken,
          cleaning, cleaner, kept, timer, alarm, left, renewed, stored, lock>>

clocks   == <<alarm, left, renewed>>
registry == <<pending, cleaning, cleaner, kept, timer>>
cleanups == <<registry, polling>>

Starting == {"preparing", "exporting", "disconnecting"}
Points   == Starting \cup
            {"idle", "replacing", "lock_wait", "initializing", "importing",
             "confirming", "slot_wait", "checking", "retiring", "cleaning"}

Go(o, point) == pc' = [pc EXCEPT ![o] = point] /\ UNCHANGED target

(* A request arrives. *)
Begin(o, s, point) ==
    /\ pc[o] = "idle"
    /\ pc' = [pc EXCEPT ![o] = point]
    /\ target' = [target EXCEPT ![o] = s]

Return(o) ==
    /\ pc' = [pc EXCEPT ![o] = "idle"]
    /\ target' = [target EXCEPT ![o] = None]

Init ==
    /\ pc = [o \in Ops |-> "idle"]
    /\ target = [o \in Ops |-> None]
    /\ pending = {} /\ polling = {} /\ reopened = {} /\ kept = {}
    /\ broken = {}
    /\ status = [s \in Sessions |-> "waiting"]
    /\ client = [s \in Sessions |-> "none"]
    /\ cleaning = [s \in Sessions |-> "no"]
    /\ cleaner = [s \in Sessions |-> None]
    /\ timer = [s \in Sessions |-> "none"]
    /\ alarm = [s \in Sessions |-> 0]
    /\ left = [s \in Sessions |-> 0]
    /\ renewed = [s \in Sessions |-> 0]
    /\ stored = None
    /\ lock = Free

-----------------------------------------------------------------------------

(***************************************************************************)
(* _cleanup_qr_login of a registered session begins: it leaves the         *)
(* registry, which makes who its only cleaner, and its timer is cancelled  *)
(* unless that is who cleans up.  Its polling flag and its deadline are    *)
(* not looked at again.                                                    *)
(***************************************************************************)
Clean(s, who, preserve) ==
    /\ pending' = pending \ {s}
    /\ polling' = polling \ {s}
    /\ cleaning' = [cleaning EXCEPT ![s] = "stopping"]
    /\ cleaner' = [cleaner EXCEPT ![s] = who]
    /\ kept' = IF preserve THEN kept \cup {s} ELSE kept
    /\ alarm' = [alarm EXCEPT ![s] = 0]
    /\ left' = [left EXCEPT ![s] = 0]
    /\ renewed' = [renewed EXCEPT ![s] = 0]
    /\ timer' = [timer EXCEPT ![s] = IF who = s THEN "cleaning"
                                     ELSE IF @ = "sleeping" THEN "over" ELSE @]

(* An operation ends with the cleanup of its session, if there is one yet. *)
EndByCleaning(o, preserve) ==
    \/ /\ target[o] \in pending
       /\ Clean(target[o], o, preserve)
       /\ Go(o, "cleaning")
    \/ /\ target[o] \notin pending
       /\ Return(o)
       /\ UNCHANGED <<cleanups, clocks>>

(* The client is stopped; its storage is closed after that. *)
CleanupStops(s) ==
    /\ cleaning[s] = "stopping"
    /\ cleaning' = [cleaning EXCEPT ![s] = "finishing"]
    /\ client' = [client EXCEPT ![s] = "closed"]
    /\ UNCHANGED <<pc, target, pending, status, polling, reopened, broken,
                   cleaner, kept, timer, clocks, stored, lock>>

(* The cleaner goes on: a start with its wait for the lock. *)
CleanerGoesOn(s) ==
    /\ \/ cleaner[s] = s /\ UNCHANGED <<pc, target>>
       \/ \E o \in Ops : cleaner[s] = o /\ pc[o] = "replacing" /\ Go(o, "lock_wait")
       \/ \E o \in Ops : cleaner[s] = o /\ pc[o] = "cleaning" /\ Return(o)
    /\ timer' = [timer EXCEPT ![s] = IF @ = "cleaning" THEN "over" ELSE @]
    /\ cleaning' = [cleaning EXCEPT ![s] = "no"]
    /\ cleaner' = [cleaner EXCEPT ![s] = None]

(* Faulty: only what was stored before is deleted, when the cleanup begins. *)
CleanupEndsKeeping(s) ==
    /\ cleaning[s] = "finishing"
    /\ CleanerGoesOn(s)
    /\ stored' = IF s \in kept \/ stored = s THEN stored ELSE None
    /\ lock' = Free
    /\ UNCHANGED <<pending, polling, status, client, reopened, broken, kept,
                   clocks>>

(***************************************************************************)
(* The rest runs without an await: the account's row is deleted unless the *)
(* login succeeded, and the lock is released whoever holds it.             *)
(***************************************************************************)
CleanupEnds(s) ==
    /\ cleaning[s] = "finishing"
    /\ CleanerGoesOn(s)
    /\ stored' = IF s \in kept THEN stored ELSE None
    /\ lock' = Free
    /\ UNCHANGED <<pending, polling, status, client, reopened, broken, kept,
                   clocks>>

-----------------------------------------------------------------------------

(* start_qr_login: what the account still has registered is cleaned up     *)
(* before the wait for the lock.                                           *)
RequestStart(o, s) ==
    /\ client[s] = "none" /\ s \notin broken
    /\ \A p \in Ops : target[p] # s
    /\ \/ \E p \in pending : Clean(p, o, FALSE) /\ Begin(o, s, "replacing")
       \/ pending = {} /\ Begin(o, s, "lock_wait") /\ UNCHANGED <<cleanups, clocks>>
    /\ UNCHANGED <<status, client, reopened, broken, stored, lock>>

AcquireStart(o) ==
    /\ pc[o] = "lock_wait"
    /\ lock = Free
    /\ lock' = target[o]
    /\ Go(o, "preparing")
    /\ UNCHANGED <<cleanups, status, client, reopened, broken, clocks, stored>>

(* Faulty: the lock is released by the except clauses only. *)
StartRefusedLocked(o) ==
    /\ pc[o] = "preparing"
    /\ Return(o)
    /\ UNCHANGED <<cleanups, status, client, reopened, broken, clocks, stored,
                   lock>>

(* No API credentials, or connect failed. *)
StartRefused(o) ==
    /\ pc[o] = "preparing"
    /\ Return(o)
    /\ lock' = Free
    /\ UNCHANGED <<cleanups, status, client, reopened, broken, clocks, stored>>

(***************************************************************************)
(* An exception before the try: build_proxy_dict cannot read the proxy's   *)
(* port, or the configuration or the client's constructor fails.  No       *)
(* except clause sees it: the request ends, the lock stays taken, and      *)
(* there is no session whose cleanup would release it.                     *)
(***************************************************************************)
StartBreaks(o) ==
    /\ pc[o] = "preparing"
    /\ Return(o)
    /\ broken' = broken \cup {target[o]}
    /\ UNCHANGED <<cleanups, status, client, reopened, clocks, stored, lock>>

(* The client is connected, under the global semaphore. *)
Connected(o) ==
    /\ pc[o] = "preparing"
    /\ client' = [client EXCEPT ![target[o]] = "live"]
    /\ Go(o, "exporting")
    /\ UNCHANGED <<cleanups, status, reopened, broken, clocks, stored, lock>>

(* Faulty: the client is left to the garbage collector. *)
ExportFailsLeaking(o) ==
    /\ pc[o] = "exporting"
    /\ Return(o)
    /\ lock' = Free
    /\ UNCHANGED <<cleanups, status, client, reopened, broken, clocks, stored>>

(* ExportLoginToken fails: FloodWait, no token, or another error. *)
ExportFails(o) ==
    /\ pc[o] = "exporting"
    /\ Go(o, "disconnecting")
    /\ UNCHANGED <<cleanups, status, client, reopened, broken, clocks, stored,
                   lock>>

Disconnected(o) ==
    /\ pc[o] = "disconnecting"
    /\ client' = [client EXCEPT ![target[o]] = "closed"]
    /\ lock' = Free
    /\ Return(o)
    /\ UNCHANGED <<cleanups, status, reopened, broken, clocks, stored>>

(* The session is registered; client.initialize() is awaited next. *)
Exported(o) ==
    /\ pc[o] = "exporting"
    /\ pending' = pending \cup {target[o]}
    /\ left' = [left EXCEPT ![target[o]] = TTL]
    /\ Go(o, "initializing")
    /\ UNCHANGED <<status, polling, client, reopened, broken, cleaning,
                   cleaner, kept, timer, alarm, renewed, stored, lock>>

(* The update handler and the expiry task are added, also to a session     *)
(* another start has cleaned up meanwhile.                                 *)
Started(o) ==
    /\ pc[o] = "initializing"
    /\ timer' = [timer EXCEPT ![target[o]] = "sleeping"]
    /\ alarm' = [alarm EXCEPT ![target[o]] = left[target[o]]]
    /\ Return(o)
    /\ UNCHANGED <<pending, status, polling, client, reopened, broken,
                   cleaning, cleaner, kept, left, renewed, stored, lock>>

-----------------------------------------------------------------------------

(* The login_id was returned, and the session is still registered. *)
Known(s) == s \in pending /\ timer[s] # "none"

Renew(s, ticks) ==
    /\ renewed[s] < Renewals
    /\ renewed' = [renewed EXCEPT ![s] = @ + 1]
    /\ left' = [left EXCEPT ![s] = ticks]

(* A token of Telegram comes with a new deadline, which may be earlier. *)
NewToken(s) == Renew(s, TTL)

(* Faulty: the time is added to what is left. *)
ExtendAdding(s) == Renew(s, left[s] + Extension)

(* _extend_qr_expires. *)
Extend(s) ==
    \/ left[s] < Extension /\ Renew(s, Extension)
    \/ left[s] >= Extension /\ UNCHANGED <<left, renewed>>

(* The deadline of a session that is gone is moved too, and not read again. *)
ExtendPending(s) ==
    \/ s \in pending /\ Extend(s)
    \/ s \notin pending /\ UNCHANGED <<left, renewed>>

(* _raw_handler: Telegram tells that the code was scanned, maybe with a    *)
(* fresh token.                                                            *)
Scanned(s) ==
    /\ Known(s)
    /\ status[s] # "password"
    /\ status' = [status EXCEPT ![s] = "scanned"]
    /\ NewToken(s) \/ UNCHANGED <<left, renewed>>
    /\ UNCHANGED <<pc, target, cleanups, client, reopened, broken, alarm,
                   stored, lock>>

(***************************************************************************)
(* get_qr_login_status.  A poll of a session that is being polled, waits   *)
(* for its scan or for a password, or is gone returns and changes nothing. *)
(***************************************************************************)
PollExpired(o, s) ==
    /\ Known(s)
    /\ s \notin polling
    /\ left[s] = 0
    /\ Clean(s, o, FALSE)
    /\ Begin(o, s, "cleaning")
    /\ UNCHANGED <<status, client, reopened, broken, stored, lock>>

(* A client that is not connected is connected. *)
Reconnect(s) ==
    /\ client' = [client EXCEPT ![s] = "live"]
    /\ reopened' = IF client[s] = "closed" THEN reopened \cup {s} ELSE reopened

(* The second disjunct is a poll within 2 seconds of the last import. *)
PollScanned(o, s) ==
    /\ pc[o] = "idle"
    /\ Known(s)
    /\ s \notin polling
    /\ left[s] > 0
    /\ status[s] = "scanned"
    /\ Extend(s)
    /\ Reconnect(s)
    /\ \/ Begin(o, s, "importing") /\ polling' = polling \cup {s}
       \/ UNCHANGED <<pc, target, polling>>
    /\ UNCHANGED <<registry, status, broken, alarm, stored, lock>>

(* A poll returns, and the next may begin. *)
PollReturns(o) ==
    /\ Return(o)
    /\ polling' = polling \ {target[o]}

(* The session waits for the password of two-step verification. *)
PasswordRequired(o) ==
    /\ pc[o] \in {"importing", "confirming"}
    /\ PollReturns(o)
    /\ status' = [status EXCEPT ![target[o]] = "password"]
    /\ ExtendPending(target[o])
    /\ UNCHANGED <<registry, client, reopened, broken, alarm, stored, lock>>

(* Not confirmed yet, with a fresh token or without an answer. *)
NotConfirmed(o) ==
    /\ pc[o] = "importing"
    /\ PollReturns(o)
    /\ \/ /\ status' = [status EXCEPT ![target[o]] = "scanned"]
          /\ target[o] \in pending
          /\ NewToken(target[o])
       \/ UNCHANGED <<status, left, renewed>>
    /\ UNCHANGED <<registry, client, reopened, broken, alarm, stored, lock>>

(* LoginTokenSuccess: _finalize_login asks for the user and the password. *)
Confirmed(o) ==
    /\ pc[o] = "importing"
    /\ target[o] \notin reopened
    /\ Go(o, "confirming")
    /\ UNCHANGED <<cleanups, status, client, reopened, broken, clocks, stored,
                   lock>>

(***************************************************************************)
(* _persist_client_session needs the client's storage, which is closed     *)
(* when the client is.  Nobody runs between the storing and the beginning  *)
(* of the cleanup that keeps what was stored.                              *)
(***************************************************************************)
Persist(o) ==
    /\ client[target[o]] = "live"
    /\ target[o] \notin reopened
    /\ stored' = target[o]

PollSucceeds(o) ==
    /\ pc[o] = "confirming"
    /\ Persist(o)
    /\ EndByCleaning(o, TRUE)
    /\ UNCHANGED <<status, client, reopened, broken, lock>>

(* FloodWait, Unauthorized and every other error. *)
PollFails(o) ==
    /\ pc[o] \in {"importing", "confirming"}
    /\ EndByCleaning(o, FALSE)
    /\ UNCHANGED <<status, client, reopened, broken, stored, lock>>

-----------------------------------------------------------------------------

(* submit_qr_password.  A pending session's lock is taken already. *)
SubmitExpired(o, s) ==
    /\ Known(s)
    /\ left[s] = 0
    /\ status[s] # "password"
    /\ Clean(s, o, FALSE)
    /\ Begin(o, s, "cleaning")
    /\ UNCHANGED <<status, client, reopened, broken, stored, lock>>

Submit(o, s) ==
    /\ Known(s)
    /\ Begin(o, s, "slot_wait")
    /\ \/ left[s] > 0 /\ UNCHANGED <<left, renewed>>
       \/ left[s] = 0 /\ status[s] = "password" /\ Extend(s)
    /\ UNCHANGED <<cleanups, status, client, reopened, broken, alarm, stored,
                   lock>>

(***************************************************************************)
(* The global semaphore is granted.  The session may be gone by now; its   *)
(* client is connected again nevertheless.                                 *)
(***************************************************************************)
SlotGranted(o) ==
    /\ pc[o] = "slot_wait"
    /\ Reconnect(target[o])
    /\ Go(o, "checking")
    /\ UNCHANGED <<cleanups, status, broken, clocks, stored, lock>>

(* An error that keeps the session: not confirmed yet, or Unauthorized. *)
TryAgain(o) ==
    /\ pc[o] = "checking"
    /\ Return(o)
    /\ \/ /\ target[o] \in pending
          /\ \/ status[target[o]] # "waiting" /\ Extend(target[o])
             \/ status[target[o]] # "password" /\ NewToken(target[o])
       \/ UNCHANGED <<left, renewed>>
    /\ UNCHANGED <<cleanups, status, client, reopened, broken, alarm, stored,
                   lock>>

(* The password is wrong, FloodWait, or an error nothing was scanned for. *)
SubmitFails(o) ==
    /\ pc[o] = "checking"
    /\ EndByCleaning(o, FALSE)
    /\ UNCHANGED <<status, client, reopened, broken, stored, lock>>

(* The import tells that a password is needed, which is checked next. *)
PasswordAsked(o) ==
    /\ pc[o] = "checking"
    /\ status[target[o]] # "password"
    /\ status' = [status EXCEPT ![target[o]] = "password"]
    /\ ExtendPending(target[o])
    /\ UNCHANGED <<pc, target, cleanups, client, reopened, broken, alarm,
                   stored, lock>>

SubmitSucceeds(o) ==
    /\ pc[o] = "checking"
    /\ Persist(o)
    /\ EndByCleaning(o, TRUE)
    /\ UNCHANGED <<status, client, reopened, broken, lock>>

(* No password was needed: the client is disconnected before the cleanup. *)
SubmitRetires(o) ==
    /\ pc[o] = "checking"
    /\ status[target[o]] # "password"
    /\ Persist(o)
    /\ client' = [client EXCEPT ![target[o]] = "closed"]
    /\ Go(o, "retiring")
    /\ UNCHANGED <<cleanups, status, reopened, broken, clocks, lock>>

SubmitRetired(o) ==
    /\ pc[o] = "retiring"
    /\ EndByCleaning(o, TRUE)
    /\ UNCHANGED <<status, client, reopened, broken, stored, lock>>

(* cancel_qr_login, and close_pending_logins at shutdown. *)
Cancel(o, s) ==
    /\ Known(s)
    /\ Clean(s, o, FALSE)
    /\ Begin(o, s, "cleaning")
    /\ UNCHANGED <<status, client, reopened, broken, stored, lock>>

-----------------------------------------------------------------------------

(* _expire_qr_login. *)
TimerExpires(s) ==
    /\ timer[s] = "sleeping" /\ alarm[s] = 0
    /\ s \in pending
    /\ left[s] = 0
    /\ Clean(s, s, FALSE)
    /\ UNCHANGED <<pc, target, status, client, reopened, broken, stored, lock>>

(* Faulty: there is no loop around the sleep. *)
TimerGivesUp(s) ==
    /\ timer[s] = "sleeping" /\ alarm[s] = 0
    /\ s \in pending
    /\ left[s] > 0
    /\ timer' = [timer EXCEPT ![s] = "over"]
    /\ UNCHANGED <<pc, target, pending, polling, status, client, reopened,
                   broken, cleaning, cleaner, kept, clocks, stored, lock>>

(* The deadline was moved meanwhile. *)
TimerGoesOn(s) ==
    /\ timer[s] = "sleeping" /\ alarm[s] = 0
    /\ s \in pending
    /\ left[s] > 0
    /\ alarm' = [alarm EXCEPT ![s] = left[s]]
    /\ UNCHANGED <<pc, target, cleanups, status, client, reopened, broken,
                   left, renewed, stored, lock>>

(* It was made for a session that is gone. *)
TimerEnds(s) ==
    /\ timer[s] = "sleeping" /\ alarm[s] = 0
    /\ s \notin pending
    /\ timer' = [timer EXCEPT ![s] = "over"]
    /\ UNCHANGED <<pc, target, pending, status, polling, client, reopened,
                   broken, cleaning, cleaner, kept, clocks, stored, lock>>

Tick ==
    LET Dec(n) == IF n > 0 THEN n - 1 ELSE 0
    IN /\ \E s \in Sessions : alarm[s] > 0 \/ left[s] > 0
       /\ alarm' = [s \in Sessions |-> Dec(alarm[s])]
       /\ left' = [s \in Sessions |-> Dec(left[s])]
       /\ UNCHANGED <<pc, target, cleanups, status, client, reopened, broken,
                      renewed, stored, lock>>

(* Runs, probes, chat refreshes and phone logins of the account. *)
OtherAcquires ==
    /\ lock = Free
    /\ lock' = Other
    /\ UNCHANGED <<pc, target, cleanups, status, client, reopened, broken,
                   clocks, stored>>

OtherReleases ==
    /\ lock = Other
    /\ lock' = Free
    /\ UNCHANGED <<pc, target, cleanups, status, client, reopened, broken,
                   clocks, stored>>

-----------------------------------------------------------------------------

(* What users and Telegram do, which nothing obliges. *)
Choose(o) ==
    \/ \E s \in Sessions :
          \/ RequestStart(o, s) \/ PollExpired(o, s) \/ PollScanned(o, s)
          \/ SubmitExpired(o, s) \/ Submit(o, s) \/ Cancel(o, s)
    \/ StartBreaks(o) \/ Connected(o) \/ Exported(o)
    \/ PasswordRequired(o) \/ NotConfirmed(o) \/ Confirmed(o) \/ PollSucceeds(o)
    \/ TryAgain(o) \/ PasswordAsked(o) \/ SubmitSucceeds(o) \/ SubmitRetires(o)

(* What the client's own timeouts bring about: each request to Telegram    *)
(* is answered or fails.                                                   *)
Proceed(o) ==
    \/ StartRefused(o) \/ ExportFails(o) \/ Disconnected(o) \/ Started(o)
    \/ PollFails(o)
    \/ SlotGranted(o) \/ SubmitFails(o) \/ SubmitRetired(o)

RunTimer(s) == TimerExpires(s) \/ TimerGoesOn(s) \/ TimerEnds(s)

RunCleanup(s) == CleanupStops(s) \/ CleanupEnds(s)

Next ==
    \/ \E o \in Ops : Choose(o) \/ Proceed(o) \/ AcquireStart(o)
    \/ \E s \in Sessions : Scanned(s) \/ RunTimer(s) \/ RunCleanup(s)
    \/ Tick
    \/ OtherAcquires
    \/ OtherReleases

Spec == Init /\ [][Next]_vars

(***************************************************************************)
(* The event loop, its timers, and asyncio.Lock, which serves its waiters  *)
(* in order: a start gets the lock when it is free again and again.        *)
(***************************************************************************)
FairSpec ==
    /\ Spec
    /\ \A o \in Ops : WF_vars(Proceed(o)) /\ SF_vars(AcquireStart(o))
    /\ \A s \in Sessions : WF_vars(RunTimer(s)) /\ WF_vars(RunCleanup(s))
    /\ WF_vars(Tick)

-----------------------------------------------------------------------------

TypeOK ==
    /\ pc \in [Ops -> Points]
    /\ target \in [Ops -> Sessions \cup {None}]
    /\ pending \in SUBSET Sessions /\ polling \in SUBSET Sessions
    /\ reopened \in SUBSET Sessions /\ kept \in SUBSET Sessions
    /\ broken \in SUBSET Sessions
    /\ status \in [Sessions -> {"waiting", "scanned", "password"}]
    /\ client \in [Sessions -> {"none", "live", "closed"}]
    /\ cleaning \in [Sessions -> {"no", "stopping", "finishing"}]
    /\ cleaner \in [Sessions -> Ops \cup Sessions \cup {None}]
    /\ timer \in [Sessions -> {"none", "sleeping", "cleaning", "over"}]
    /\ alarm \in [Sessions -> 0..Extension]
    /\ left \in [Sessions -> 0..Extension]
    /\ renewed \in [Sessions -> 0..Renewals]
    /\ stored \in Sessions \cup {None}
    /\ lock \in Sessions \cup {Free, Other}

(* An operation is about to register the session, or to give it up. *)
BeingStarted(s) == \E o \in Ops : target[o] = s /\ pc[o] \in Starting

(***************************************************************************)
(* A session holds the account's lock from the moment it is started until  *)
(* the end of its cleanup, so every cleanup releases its own session's     *)
(* lock and nobody else's, although it releases whatever it finds locked.  *)
(* The exception is a start that broke before its try: it holds the lock,  *)
(* and nobody else, for good.                                              *)
(***************************************************************************)
LockHeldInside ==
    \A s \in Sessions :
        lock = s <=>
            \/ BeingStarted(s) \/ s \in pending \/ cleaning[s] # "no"
            \/ s \in broken

(***************************************************************************)
(* A connected client belongs to a session that is started, registered or  *)
(* cleaned up.  The exception is the client a password request connects    *)
(* again when its session went away while it waited for the semaphore.     *)
(***************************************************************************)
ClientsAccountedFor ==
    \A s \in Sessions \ reopened :
        client[s] = "live" =>
            BeingStarted(s) \/ s \in pending \/ cleaning[s] = "stopping"

(***************************************************************************)
(* A login that was cancelled, replaced, refused or has expired leaves no  *)
(* session string behind, also when Telegram confirms it while its client  *)
(* is being stopped.                                                       *)
(***************************************************************************)
DiscardedStaysOut ==
    \A s \in Sessions :
        s \notin pending \cup kept /\ cleaning[s] = "no" => stored # s

(***************************************************************************)
(* A start that waits for the account gets it, or waits for somebody       *)
(* outside: a session whose user never comes back, and one whose deadline  *)
(* was moved, gives the lock back.  After a start that broke before its    *)
(* try nobody gets the lock again.                                         *)
(***************************************************************************)
StartEnds ==
    []<>(lock # Other) =>
        \A o \in Ops :
            pc[o] = "lock_wait" ~> pc[o] # "lock_wait" \/ broken # {}

=============================================================================
