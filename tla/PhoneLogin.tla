----------------------------- MODULE PhoneLogin -----------------------------
(***************************************************************************)
(* Phone login of one account: TelegramService.start_login, verify_login,  *)
(* cancel_phone_login, the expiry task of every pending session and the    *)
(* closing of what is left at shutdown.  All of them work under the        *)
(* account's lock, which runs, probes and refreshes of the account take    *)
(* too (Other).                                                            *)
(*                                                                         *)
(* A session stands for the data start_login keeps in _login_sessions: its *)
(* temporary client, its phone_code_hash, its deadline and its timer.  An  *)
(* operation is a request's coroutine; an action is what it does between   *)
(* two awaits, and asyncio.wait_for may cancel it at any of them.  Waiting *)
(* for the global semaphore is part of the await it comes before.          *)
(***************************************************************************)
EXTENDS Integers, FiniteSets

CONSTANTS
    Ops,       \* slots for requests in flight
    Sessions,  \* bound: the sessions that may ever be started
    PhoneOf,   \* the phone number of a session; with the account, its key
    TTL,       \* TG_PHONE_LOGIN_TTL, in ticks
    Renewals,  \* bound: how often a password is asked for again
    Free,      \* value of a lock nobody holds
    Other,     \* holder of the lock outside this module
    None       \* no session

ASSUME NamesAssumption ==
    /\ Free \notin Ops \cup Sessions
    /\ Other \notin Ops \cup Sessions \cup {Free}
    /\ Ops \cap Sessions = {}
    /\ None \notin Sessions

ASSUME LimitsAssumption ==
    /\ TTL \in Nat \ {0}
    /\ Renewals \in Nat

VARIABLES
    kind,      \* what each operation is
    pc,        \* the await it is suspended in
    target,    \* the session it starts or names by its phone_code_hash
    handling,  \* the session whose client it uses or closes
    stopping,  \* operations cancelled while a shielded teardown goes on
    pending,   \* the sessions in _login_sessions
    client,    \* the temporary client of each session
    timer,     \* its expiry task
    alarm,     \* ticks left of the expiry task's sleep
    left,      \* ticks until expires_at
    renewed,   \* how often expires_at was moved
    lock,      \* get_account_lock(account_name)
    down       \* on_shutdown was called

vars == <<kind, pc, target, handling, stopping, pending, client, timer, alarm,
          left, renewed, lock, down>>

clocks == <<alarm, left, renewed>>

Kinds == {"start", "verify", "cancel", "close"}

(* Awaits of an operation that holds the lock, and those in a teardown.    *)
Teardown == {"replacing", "discarding", "dropping"}
Inside   == {"sending", "signing", "retiring"} \cup Teardown
Points   == {"idle", "lock_wait"} \cup Inside

Go(o, point) == pc' = [pc EXCEPT ![o] = point]

Handle(o, s) == handling' = [handling EXCEPT ![o] = s]

(* The end of an operation that held the lock. *)
Leave(o) ==
    /\ Go(o, "idle")
    /\ Handle(o, None)
    /\ lock' = Free

(***************************************************************************)
(* _cleanup_phone_login of a registered session begins: it leaves the      *)
(* registry, its timer is cancelled and its client is torn down.           *)
(***************************************************************************)
Drop(s, clients) ==
    /\ pending' = pending \ {s}
    /\ timer' = [timer EXCEPT ![s] = "over"]
    /\ client' = [clients EXCEPT ![s] = "closing"]

-----------------------------------------------------------------------------

Init ==
    /\ kind = [o \in Ops |-> "start"]
    /\ pc = [o \in Ops |-> "idle"]
    /\ target = [o \in Ops |-> None]
    /\ handling = [o \in Ops |-> None]
    /\ stopping = {}
    /\ pending = {}
    /\ client = [s \in Sessions |-> "none"]
    /\ timer = [s \in Sessions |-> "none"]
    /\ alarm = [s \in Sessions |-> 0]
    /\ left = [s \in Sessions |-> 0]
    /\ renewed = [s \in Sessions |-> 0]
    /\ lock = Free
    /\ down = FALSE

(***************************************************************************)
(* A request arrives.  To verify or cancel, one needs the hash start_login *)
(* returned.  close_pending_logins runs once every request was answered.   *)
(***************************************************************************)
Request(o, k, s) ==
    /\ pc[o] = "idle"
    /\ kind' = [kind EXCEPT ![o] = k]
    /\ target' = [target EXCEPT ![o] = s]
    /\ Go(o, "lock_wait")
    /\ UNCHANGED <<handling, stopping, pending, client, timer, clocks, lock>>

RequestStart(o, s) ==
    /\ ~down
    /\ client[s] = "none"
    /\ \A p \in Ops : pc[p] # "idle" => target[p] # s
    /\ Request(o, "start", s)
    /\ UNCHANGED down

RequestVerify(o, s) ==
    /\ ~down /\ timer[s] # "none"
    /\ Request(o, "verify", s)
    /\ UNCHANGED down

RequestCancel(o, s) ==
    /\ ~down /\ timer[s] # "none"
    /\ Request(o, "cancel", s)
    /\ UNCHANGED down

Shutdown ==
    /\ ~down
    /\ \A o \in Ops : pc[o] = "idle"
    /\ down' = TRUE
    /\ \/ \E o \in Ops, s \in pending : Request(o, "close", s)
       \/ /\ pending = {}
          /\ UNCHANGED <<kind, pc, target, handling, stopping, pending, client,
                         timer, clocks, lock>>

(***************************************************************************)
(* start_login under the lock: every session of the account is torn down,  *)
(* one after the other, before the new client is made.  clients is what    *)
(* the last teardown left.                                                 *)
(***************************************************************************)
Replace(o, clients) ==
    \/ \E s \in pending :
          /\ Drop(s, clients)
          /\ Handle(o, s)
          /\ Go(o, "replacing")
    \/ /\ pending = {}
       /\ client' = [clients EXCEPT ![target[o]] = "new"]
       /\ Handle(o, target[o])
       /\ Go(o, "sending")
       /\ UNCHANGED <<pending, timer>>

Granted(o, k) == pc[o] = "lock_wait" /\ kind[o] = k /\ lock = Free

AcquireStart(o) ==
    /\ Granted(o, "start")
    /\ lock' = o
    /\ Replace(o, client)
    /\ UNCHANGED <<kind, target, stopping, clocks, down>>

(* The teardown of a replaced session is over; a cancellation meant for it *)
(* is raised now.                                                          *)
Replaced(o) ==
    /\ pc[o] = "replacing"
    /\ LET clients == [client EXCEPT ![handling[o]] = "closed"]
       IN \/ /\ o \in stopping
             /\ Leave(o)
             /\ client' = clients
             /\ UNCHANGED <<pending, timer>>
          \/ /\ o \notin stopping
             /\ Replace(o, clients)
             /\ UNCHANGED lock
    /\ stopping' = stopping \ {o}
    /\ UNCHANGED <<kind, target, clocks, down>>

(* client.connect() returns; send_code follows. *)
Connect(o) ==
    /\ pc[o] = "sending"
    /\ client[target[o]] = "new"
    /\ client' = [client EXCEPT ![target[o]] = "live"]
    /\ UNCHANGED <<kind, pc, target, handling, stopping, pending, timer,
                   clocks, lock, down>>

(* The code was sent: the session is registered and its timer started. *)
Register(o) ==
    /\ pc[o] = "sending"
    /\ client[target[o]] = "live"
    /\ pending' = pending \cup {target[o]}
    /\ timer' = [timer EXCEPT ![target[o]] = "sleeping"]
    /\ alarm' = [alarm EXCEPT ![target[o]] = TTL]
    /\ left' = [left EXCEPT ![target[o]] = TTL]

(* Faulty: the lock is kept for the time the user takes. *)
CodeSentLocked(o) ==
    /\ Register(o)
    /\ Go(o, "idle")
    /\ Handle(o, None)
    /\ UNCHANGED <<kind, target, stopping, client, renewed, lock, down>>

CodeSent(o) ==
    /\ Register(o)
    /\ Leave(o)
    /\ UNCHANGED <<kind, target, stopping, client, renewed, down>>

(* Faulty: only an Exception closes the client, a cancellation does not. *)
SendingFailsLeaking(o) ==
    /\ pc[o] = "sending"
    /\ Leave(o)
    /\ UNCHANGED <<kind, target, stopping, pending, client, timer, clocks, down>>

(* connect or send_code fails or is cancelled: the finally block. *)
SendingFails(o) ==
    /\ pc[o] = "sending"
    /\ client' = [client EXCEPT ![target[o]] = "closing"]
    /\ Go(o, "discarding")
    /\ UNCHANGED <<kind, target, handling, stopping, pending, timer, clocks,
                   lock, down>>

(***************************************************************************)
(* The session an operation finds under its key and accepts: the one whose *)
(* hash it names.                                                          *)
(***************************************************************************)
Registered(s) == {d \in pending : PhoneOf[d] = PhoneOf[s]}

(* Faulty: whatever is registered for the phone number. *)
FoundByPhone(s) == Registered(s)

Found(s) == {d \in Registered(s) : d = s}

(***************************************************************************)
(* verify_login under the lock: nothing found, an expired session, or a    *)
(* session to sign in with.                                                *)
(***************************************************************************)
FindNothing(o) ==
    /\ Found(target[o]) = {}
    /\ Go(o, "idle")
    /\ UNCHANGED <<handling, pending, client, timer, lock>>

DropFound(o, s) ==
    /\ lock' = o
    /\ Drop(s, client)
    /\ Handle(o, s)
    /\ Go(o, "dropping")

AcquireVerify(o) ==
    /\ Granted(o, "verify")
    /\ \/ FindNothing(o)
       \/ \E s \in Found(target[o]) : left[s] = 0 /\ DropFound(o, s)
       \/ \E s \in Found(target[o]) :
             /\ left[s] > 0
             /\ lock' = o
             /\ Handle(o, s)
             /\ Go(o, "signing")
             /\ UNCHANGED <<pending, client, timer>>
    /\ UNCHANGED <<kind, target, stopping, clocks, down>>

(* Faulty: each wrong password adds to the time that is left. *)
PasswordNeededAdding(o) ==
    /\ pc[o] = "signing"
    /\ renewed[handling[o]] < Renewals
    /\ left' = [left EXCEPT ![handling[o]] = @ + TTL]
    /\ renewed' = [renewed EXCEPT ![handling[o]] = @ + 1]
    /\ Leave(o)
    /\ UNCHANGED <<kind, target, stopping, pending, client, timer, alarm, down>>

(* The 2FA password is missing or was not accepted: the session is kept. *)
PasswordNeeded(o) ==
    /\ pc[o] = "signing"
    /\ renewed[handling[o]] < Renewals
    /\ left' = [left EXCEPT ![handling[o]] = TTL]
    /\ renewed' = [renewed EXCEPT ![handling[o]] = @ + 1]
    /\ Leave(o)
    /\ UNCHANGED <<kind, target, stopping, pending, client, timer, alarm, down>>

(* Signed in and stored: close_client_by_name is awaited. *)
SignedIn(o) ==
    /\ pc[o] = "signing"
    /\ Go(o, "retiring")
    /\ UNCHANGED <<kind, target, handling, stopping, pending, client, timer,
                   clocks, lock, down>>

(* Every other end of verify_login, success and cancellation included. *)
VerifyEnds(o) ==
    /\ pc[o] \in {"signing", "retiring"}
    /\ Drop(handling[o], client)
    /\ Go(o, "dropping")
    /\ UNCHANGED <<kind, target, handling, stopping, clocks, lock, down>>

(* cancel_phone_login and close_pending_logins. *)
AcquireCancel(o) ==
    /\ Granted(o, "cancel") \/ Granted(o, "close")
    /\ FindNothing(o) \/ \E s \in Found(target[o]) : DropFound(o, s)
    /\ UNCHANGED <<kind, target, stopping, clocks, down>>

(* The last teardown of an operation is over. *)
TornDown(o) ==
    /\ pc[o] \in {"discarding", "dropping"}
    /\ client' = [client EXCEPT ![handling[o]] = "closed"]
    /\ Leave(o)
    /\ UNCHANGED <<kind, target, stopping, pending, timer, clocks, down>>

(* Faulty: only start_login waits for the lock within its timeout. *)
StartWaitTimesOut(o) ==
    /\ pc[o] = "lock_wait" /\ kind[o] = "start"
    /\ Go(o, "idle")
    /\ UNCHANGED <<kind, target, handling, stopping, pending, client, timer,
                   clocks, lock, down>>

(* TG_LOGIN_TIMEOUT ends the wait for the lock; close has no timeout. *)
WaitTimesOut(o) ==
    /\ pc[o] = "lock_wait" /\ kind[o] # "close"
    /\ Go(o, "idle")
    /\ UNCHANGED <<kind, target, handling, stopping, pending, client, timer,
                   clocks, lock, down>>

(* A teardown ends before the cancellation of its caller is raised, which  *)
(* makes a difference to the one that has more to do.                      *)
CancelReplacing(o) ==
    /\ pc[o] = "replacing"
    /\ o \notin stopping
    /\ stopping' = stopping \cup {o}
    /\ UNCHANGED <<kind, pc, target, handling, pending, client, timer, clocks,
                   lock, down>>

-----------------------------------------------------------------------------

(***************************************************************************)
(* _expire_phone_login.  It sleeps to the deadline it knows, waits for the *)
(* lock without a timeout and looks at the deadline again.                 *)
(***************************************************************************)
TimerWakes(s) ==
    /\ timer[s] = "sleeping"
    /\ alarm[s] = 0
    /\ timer' = [timer EXCEPT ![s] = "lock_wait"]
    /\ UNCHANGED <<kind, pc, target, handling, stopping, pending, client,
                   clocks, lock, down>>

TimerExpires(s) ==
    /\ timer[s] = "lock_wait" /\ lock = Free
    /\ s \in pending
    /\ left[s] = 0
    /\ lock' = s
    /\ pending' = pending \ {s}
    /\ timer' = [timer EXCEPT ![s] = "closing"]
    /\ client' = [client EXCEPT ![s] = "closing"]
    /\ UNCHANGED <<kind, pc, target, handling, stopping, clocks, down>>

(* Faulty: there is no loop around the sleep. *)
TimerGivesUp(s) ==
    /\ timer[s] = "lock_wait" /\ lock = Free
    /\ left[s] > 0
    /\ timer' = [timer EXCEPT ![s] = "over"]
    /\ UNCHANGED <<kind, pc, target, handling, stopping, pending, client,
                   clocks, lock, down>>

(* The deadline was moved meanwhile. *)
TimerGoesOn(s) ==
    /\ timer[s] = "lock_wait" /\ lock = Free
    /\ s \in pending
    /\ left[s] > 0
    /\ timer' = [timer EXCEPT ![s] = "sleeping"]
    /\ alarm' = [alarm EXCEPT ![s] = left[s]]
    /\ UNCHANGED <<kind, pc, target, handling, stopping, pending, client, left,
                   renewed, lock, down>>

TimerTornDown(s) ==
    /\ timer[s] = "closing"
    /\ timer' = [timer EXCEPT ![s] = "over"]
    /\ client' = [client EXCEPT ![s] = "closed"]
    /\ lock' = Free
    /\ UNCHANGED <<kind, pc, target, handling, stopping, pending, clocks, down>>

Tick ==
    LET Dec(n) == IF n > 0 THEN n - 1 ELSE 0
    IN /\ \E s \in pending : alarm[s] > 0 \/ left[s] > 0
       /\ alarm' = [s \in Sessions |-> Dec(alarm[s])]
       /\ left' = [s \in Sessions |-> Dec(left[s])]
       /\ UNCHANGED <<kind, pc, target, handling, stopping, pending, client,
                      timer, renewed, lock, down>>

(* Runs, probes, chat refreshes and QR logins of the account. *)
OtherAcquires ==
    /\ lock = Free
    /\ lock' = Other
    /\ UNCHANGED <<kind, pc, target, handling, stopping, pending, client, timer,
                   clocks, down>>

OtherReleases ==
    /\ lock = Other
    /\ lock' = Free
    /\ UNCHANGED <<kind, pc, target, handling, stopping, pending, client, timer,
                   clocks, down>>

-----------------------------------------------------------------------------

(* What users and Telegram do, which nothing obliges. *)
Choose(o) ==
    \/ \E s \in Sessions :
          RequestStart(o, s) \/ RequestVerify(o, s) \/ RequestCancel(o, s)
    \/ AcquireStart(o)
    \/ AcquireVerify(o)
    \/ Connect(o)
    \/ CodeSent(o)
    \/ PasswordNeeded(o)
    \/ SignedIn(o)
    \/ CancelReplacing(o)

(* What timeouts and bounded teardowns bring about. *)
Proceed(o) ==
    \/ WaitTimesOut(o)
    \/ Replaced(o)
    \/ SendingFails(o)
    \/ VerifyEnds(o)
    \/ TornDown(o)

RunTimer(s) == TimerExpires(s) \/ TimerGoesOn(s)

Next ==
    \/ \E o \in Ops : Choose(o) \/ AcquireCancel(o) \/ Proceed(o)
    \/ \E s \in Sessions : TimerWakes(s) \/ RunTimer(s) \/ TimerTornDown(s)
    \/ Shutdown
    \/ Tick
    \/ OtherAcquires
    \/ OtherReleases

Spec == Init /\ [][Next]_vars

(***************************************************************************)
(* The event loop and its timers.  asyncio.Lock serves its waiters in      *)
(* order, so an expiry task, which never gives up, gets the lock when it   *)
(* becomes free again and again.                                           *)
(***************************************************************************)
FairSpec ==
    /\ Spec
    /\ \A o \in Ops : WF_vars(Proceed(o))
    /\ \A s \in Sessions :
          /\ WF_vars(TimerWakes(s))
          /\ SF_vars(RunTimer(s))
          /\ WF_vars(TimerTornDown(s))
    /\ WF_vars(Tick)

-----------------------------------------------------------------------------

TypeOK ==
    /\ kind \in [Ops -> Kinds]
    /\ pc \in [Ops -> Points]
    /\ target \in [Ops -> Sessions \cup {None}]
    /\ handling \in [Ops -> Sessions \cup {None}]
    /\ stopping \in SUBSET Ops
    /\ pending \in SUBSET Sessions
    /\ client \in [Sessions -> {"none", "new", "live", "closing", "closed"}]
    /\ timer \in [Sessions ->
                    {"none", "sleeping", "lock_wait", "closing", "over"}]
    /\ alarm \in [Sessions -> 0..TTL]
    /\ left \in [Sessions -> 0..TTL]
    /\ renewed \in [Sessions -> 0..Renewals]
    /\ lock \in Ops \cup Sessions \cup {Free, Other}
    /\ down \in BOOLEAN

(***************************************************************************)
(* Every login operation releases the account's lock whichever way it      *)
(* ends, and a session that waits for its code does not hold it.           *)
(***************************************************************************)
LockHeldInside ==
    /\ \A o \in Ops : lock = o <=> pc[o] \in Inside
    /\ \A s \in Sessions : lock = s <=> timer[s] = "closing"

(***************************************************************************)
(* No client is leaked and none is closed twice: one that may be connected *)
(* belongs to a pending session or to the operation that makes it, and one *)
(* being closed is being closed by one coroutine.                          *)
(***************************************************************************)
Owners(s) == {o \in Ops : pc[o] \in Inside /\ handling[o] = s}

ClientsAccountedFor ==
    \A s \in Sessions :
        /\ client[s] \in {"new", "live"} =>
              (s \in pending \/ \E o \in Owners(s) : pc[o] = "sending")
        /\ client[s] = "closing" =>
              Cardinality({o \in Owners(s) : pc[o] \in Teardown})
                + (IF timer[s] = "closing" THEN 1 ELSE 0) = 1
        /\ s \in pending => client[s] = "live"

(***************************************************************************)
(* tests/e2e/resource_efficiency_scenarios.txt:14: a session goes because  *)
(* another login of the account starts, because it is verified, cancelled  *)
(* or closed itself, or because its deadline passed.  What was meant for   *)
(* a session it replaced never touches it.                                 *)
(***************************************************************************)
NeverTakesReplacement ==
    [][\A s \in pending \ pending' :
         \/ left[s] = 0
         \/ \E o \in Ops :
               lock' = o /\ (kind[o] = "start" \/ target[o] = s)]_vars

(* A request is answered, whoever holds the lock and whatever Telegram does. *)
RequestEnds ==
    \A o \in Ops :
        pc[o] # "idle" ~> (pc[o] = "idle" \/ kind[o] = "close")

(***************************************************************************)
(* A started login is closed in the end, also when its user never comes    *)
(* back, as long as others give the account's lock back.                   *)
(***************************************************************************)
SessionEnds ==
    []<>(lock = Free) =>
        \A s \in Sessions : client[s] = "live" ~> client[s] = "closed"

=============================================================================
