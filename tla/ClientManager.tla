---------------------------- MODULE ClientManager ----------------------------
(***************************************************************************)
(* client_manager.py: the Telegram clients of one account.  get_client     *)
(* hands out the registered client or makes a new one; `async with client' *)
(* (__aenter__, __aexit__) counts its users, starts it for the first and   *)
(* stops it after the last; close_client_by_name stops it whoever uses it. *)
(* All three share a registry, a reference count and an asyncio.Lock, all  *)
(* found by the account's key and all replaced while somebody may still    *)
(* hold the old one.                                                       *)
(*                                                                         *)
(* The account's own lock keeps its users apart: a run (whose signer       *)
(* enters the client twice, one call inside the other, and whose worker    *)
(* closes it), and a refresh of the chat list.  It does not keep apart a   *)
(* signer its worker has given up, nor the deletion of the account.        *)
(***************************************************************************)
EXTENDS Integers, FiniteSets

CONSTANTS
    Runs,       \* runs of the account's tasks
    Refreshes,  \* refreshes of its list of chats
    Deletions,  \* deletions of the account
    Clients,    \* the Client objects that can be made
    Locks,      \* the asyncio.Lock objects that can be made
    MaxEntries, \* how often a run enters its client
    Nobody      \* no client, no lock, no holder

ASSUME ManagerAssumption ==
    /\ Runs \cap Refreshes = {} /\ Runs \cap Deletions = {} /\ Refreshes \cap Deletions = {}
    /\ Nobody \notin Runs \cup Refreshes \cup Deletions \cup Clients \cup Locks
    /\ MaxEntries \in Nat

Users   == Runs \cup Refreshes
Closers == Runs \cup Deletions

VARIABLES
    account,    \* who holds the account's lock
    pc,         \* where a user is in the client's methods
    my,         \* the user's client
    depth,      \* how many __aenter__ calls of the user have returned
    entries,    \* the bound on entering
    cut,        \* the signer was cancelled
    lk,         \* the lock object a user found in _CLIENT_ASYNC_LOCKS
    closing,    \* where a close_client_by_name is
    target,     \* the client it stops
    mode,       \* how it got by the lock
    seen,       \* the lock object it found
    registered, \* _CLIENT_INSTANCES[key]
    refs,       \* _CLIENT_REFS[key], 0 when there is none
    current,    \* _CLIENT_ASYNC_LOCKS[key]
    owner,      \* who has acquired each lock object
    made,       \* the clients there are
    up,         \* the connected clients
    retired,    \* the clients marked _tg_signer_retired
    orphans,    \* clients whose connect() goes on without its caller
    strays,     \* clients in use that the key does not know any more
    late        \* runs that ended with their signer still in the client

userVars   == <<pc, my, depth, entries, cut, lk>>
closeVars  == <<closing, target, mode, seen>>
keyVars    == <<registered, refs, current, owner>>
clientVars == <<made, up, retired, orphans, strays, late>>
vars == <<account, userVars, closeVars, keyVars, clientVars>>

\* The parties that acquire a key's lock: a user, or a call that closes.
User(u)  == <<"user", u>>
Close(c) == <<"close", c>>
Parties  == {User(u) : u \in Users} \cup {Close(c) : c \in Closers}

Init ==
    /\ account = Nobody
    /\ pc = [u \in Users |-> "idle"]
    /\ my = [u \in Users |-> Nobody]
    /\ depth = [u \in Users |-> 0]
    /\ entries = [u \in Users |-> 0]
    /\ cut = [u \in Users |-> FALSE]
    /\ lk = [u \in Users |-> Nobody]
    /\ closing = [c \in Closers |-> "no"]
    /\ target = [c \in Closers |-> Nobody]
    /\ mode = [c \in Closers |-> "none"]
    /\ seen = [c \in Closers |-> Nobody]
    /\ registered = Nobody /\ refs = 0 /\ current = Nobody
    /\ owner = [l \in Locks |-> Nobody]
    /\ made = {} /\ up = {} /\ retired = {} /\ orphans = {} /\ strays = {}
    /\ late = {}
(***************************************************************************)
(* The lock of the key.                                                    *)
(***************************************************************************)
Waiting(l) == {User(u) : u \in {v \in Users : pc[v] \in {"entering", "leaving"} /\ lk[v] = l}}
                \cup {Close(c) : c \in {d \in Closers : closing[d] = "waiting" /\ seen[d] = l}}

\* The lock a user finds, or a new one: an object nobody refers to any more
\* stands for a new object.
Spare == {l \in Locks : owner[l] = Nobody /\ Waiting(l) = {}}
Found == IF current # Nobody THEN current ELSE CHOOSE l \in Spare : TRUE

\* lock.release() of whoever holds it.
Released(p) == [l \in Locks |-> IF owner[l] = p THEN Nobody ELSE owner[l]]

\* _drop_client_lock_if_idle, called right after the release by p.
DropIfIdle(l, p) ==
    current' = IF /\ current = l /\ registered' = Nobody /\ refs' <= 0
                  /\ owner[l] \in {Nobody, p} /\ Waiting(l) \ {p} = {}
               THEN Nobody ELSE current

(***************************************************************************)
(* The users and the account's lock.                                       *)
(***************************************************************************)
GetClient(u) ==
    /\ IF registered # Nobody /\ registered \notin retired
       THEN /\ my' = [my EXCEPT ![u] = registered]
            /\ UNCHANGED <<registered, made>>
       ELSE LET new == CHOOSE c \in Clients \ made : TRUE
            IN  /\ Clients \ made # {}
                /\ my' = [my EXCEPT ![u] = new]
                /\ registered' = new
                /\ made' = made \cup {new}
    /\ UNCHANGED <<depth, entries, cut, lk, closeVars, refs, current, owner, up, retired, orphans, strays, late>>

\* run_task_with_logs acquires the account's lock and makes the signer.
BeginRun(r) ==
    /\ pc[r] = "idle" /\ account = Nobody
    /\ account' = r
    /\ pc' = [pc EXCEPT ![r] = "outside"]
    /\ GetClient(r)

\* get_account_chats refuses while the account's lock is held.  The client is
\* there before the lock: a run that waits for the lock may get it first.
BeginRefresh(f) ==
    /\ pc[f] = "idle" /\ account = Nobody
    /\ pc' = [pc EXCEPT ![f] = "queue"]
    /\ GetClient(f)
    /\ UNCHANGED account
RefreshAcquires(f) ==
    /\ pc[f] = "queue" /\ account = Nobody
    /\ account' = f
    /\ pc' = [pc EXCEPT ![f] = "outside"]
    /\ UNCHANGED <<my, depth, entries, cut, lk, closeVars, keyVars, clientVars>>
EndRefresh(f) ==
    /\ pc[f] = "outside" /\ entries[f] = 1
    /\ account' = Nobody
    /\ pc' = [pc EXCEPT ![f] = "over"]
    /\ UNCHANGED <<my, depth, entries, cut, lk, closeVars, keyVars, clientVars>>

\* Where a user is when a call has returned, or raised, at this depth.
Rest(n) == IF n = 0 THEN "outside" ELSE "inside"
Back(u, n) ==
    /\ pc' = [pc EXCEPT ![u] = Rest(n)]
    /\ depth' = [depth EXCEPT ![u] = n]
    /\ lk' = [lk EXCEPT ![u] = Nobody]

(***************************************************************************)
(* __aenter__.                                                             *)
(***************************************************************************)
\* A signer enters again inside its outer block; outside, only its worker
\* starts it again.
MayEnter(u) ==
    /\ ~cut[u]
    /\ IF u \in Runs
       THEN /\ entries[u] < MaxEntries /\ depth[u] < 2
            /\ depth[u] = 0 => account = u /\ closing[u] = "no"
       ELSE entries[u] = 0
Enter(u) ==
    /\ pc[u] \in {"outside", "inside"} /\ MayEnter(u)
    /\ current # Nobody \/ Spare # {}
    /\ entries' = [entries EXCEPT ![u] = @ + 1]
    /\ lk' = [lk EXCEPT ![u] = Found]
    /\ current' = Found
    /\ pc' = [pc EXCEPT ![u] = "entering"]
    /\ strays' = IF registered = my[u] THEN strays ELSE strays \cup {my[u]}
    /\ UNCHANGED <<account, my, depth, cut, closeVars, registered, refs, owner, made, up, retired,
                   orphans, late>>

EnterTimesOut(u) ==
    /\ pc[u] = "entering" /\ owner[lk[u]] # Nobody
    /\ Back(u, depth[u])
    /\ UNCHANGED <<account, my, entries, cut, closeVars, keyVars, clientVars>>

\* Only the first user starts the client; the others return at once.
EnterAcquires(u) ==
    /\ pc[u] = "entering" /\ owner[lk[u]] = Nobody
    /\ refs' = refs + 1
    /\ IF refs + 1 = 1
       THEN /\ owner' = [owner EXCEPT ![lk[u]] = User(u)]
            /\ pc' = [pc EXCEPT ![u] = "starting"]
            /\ UNCHANGED <<depth, lk>>
       ELSE Back(u, depth[u] + 1) /\ UNCHANGED owner
    /\ UNCHANGED <<account, my, entries, cut, closeVars, registered, current, clientVars>>

Discard(u) ==
    /\ pc' = [pc EXCEPT ![u] = "discarding"]
    /\ refs' = 0
    /\ UNCHANGED <<depth, lk, owner>>

\* connect, get_me and start went well.  A client that was closed meanwhile
\* is not handed out.
(* Faulty: hands the client out without looking whether it was closed. *)
StartsUnchecked(u) ==
    /\ pc[u] = "starting"
    /\ up' = up \cup {my[u]}
    /\ Back(u, depth[u] + 1)
    /\ owner' = Released(User(u))
    /\ UNCHANGED <<account, my, entries, cut, closeVars, registered, refs, current, made, retired,
                   orphans, strays, late>>

Starts(u) ==
    /\ pc[u] = "starting"
    /\ up' = up \cup {my[u]}
    /\ IF my[u] \in retired
       THEN /\ Discard(u)
            /\ registered' = IF registered = my[u] THEN Nobody ELSE registered
       ELSE /\ Back(u, depth[u] + 1)
            /\ owner' = Released(User(u))
            /\ UNCHANGED <<registered, refs>>
    /\ UNCHANGED <<account, my, entries, cut, closeVars, current, made, retired, orphans, strays, late>>

(* Faulty: raises without stopping the client. *)
StartFailsUncleaned(u) ==
    /\ pc[u] = "starting"
    /\ up' \in {up, up \cup {my[u]}}
    /\ refs' = refs - 1
    /\ registered' = IF refs - 1 <= 0 THEN Nobody ELSE registered
    /\ Back(u, depth[u])
    /\ owner' = Released(User(u))
    /\ UNCHANGED <<account, my, entries, cut, closeVars, current, made, retired, orphans, strays, late>>

\* The last attempt failed, maybe with the connection up.  The key forgets its
\* client, be it this one or another.
StartFails(u) ==
    /\ pc[u] = "starting"
    /\ up' \in {up, up \cup {my[u]}}
    /\ IF refs - 1 <= 0
       THEN /\ Discard(u)
            /\ registered' = Nobody
            /\ strays' = strays \cup ({registered} \ {my[u], Nobody})
       ELSE /\ refs' = refs - 1
            /\ Back(u, depth[u])
            /\ owner' = Released(User(u))
            /\ UNCHANGED <<registered, strays>>
    /\ UNCHANGED <<account, my, entries, cut, closeVars, current, made, retired, orphans, late>>

Discarded(u) ==
    /\ pc[u] = "discarding"
    /\ up' = up \ {my[u]}
    /\ Back(u, depth[u])
    /\ owner' = Released(User(u))
    /\ UNCHANGED <<account, my, entries, cut, closeVars, registered, refs, made, retired, orphans, strays, late>>
    /\ DropIfIdle(lk[u], User(u))
(***************************************************************************)
(* __aexit__.                                                              *)
(***************************************************************************)
\* Without a lock somebody has closed the client already.
Exit(u) ==
    /\ pc[u] = "inside"
    /\ IF current = Nobody
       THEN Back(u, depth[u] - 1)
       ELSE /\ pc' = [pc EXCEPT ![u] = "leaving"]
            /\ lk' = [lk EXCEPT ![u] = current]
            /\ UNCHANGED depth
    /\ UNCHANGED <<account, my, entries, cut, closeVars, keyVars, clientVars>>

ExitAcquires(u) ==
    /\ pc[u] = "leaving" /\ owner[lk[u]] = Nobody
    /\ refs' = refs - 1
    /\ IF refs - 1 <= 0
       THEN /\ owner' = [owner EXCEPT ![lk[u]] = User(u)]
            /\ pc' = [pc EXCEPT ![u] = "stopping"]
            /\ UNCHANGED <<depth, lk>>
       ELSE Back(u, depth[u] - 1) /\ UNCHANGED owner
    /\ UNCHANGED <<account, my, entries, cut, closeVars, registered, current, clientVars>>

ExitTimesOut(u) ==
    /\ pc[u] = "leaving" /\ owner[lk[u]] # Nobody
    /\ refs' = 0
    /\ pc' = [pc EXCEPT ![u] = "stopping"]
    /\ UNCHANGED <<account, my, depth, entries, cut, lk, closeVars, registered, current, owner,
                   clientVars>>

(* Faulty: stops the client the key has now, not its own. *)
ForgetCurrent(u) ==
    /\ up' = up \ {registered}
    /\ registered' = IF registered = my[u] THEN Nobody ELSE registered
    /\ refs' = 0
    /\ current' = Nobody
    /\ owner' = Released(User(u))

\* The client is stopped; so the key forgets everything, its lock with it.
Forget(u) ==
    /\ up' = up \ {my[u]}
    /\ registered' = IF registered = my[u] THEN Nobody ELSE registered
    /\ refs' = 0
    /\ current' = Nobody
    /\ owner' = Released(User(u))
Stopped(u) ==
    /\ pc[u] = "stopping"
    /\ Forget(u)
    /\ Back(u, depth[u] - 1)
    /\ UNCHANGED <<account, my, entries, cut, closeVars, made, retired, orphans, strays, late>>

(***************************************************************************)
(* close_client_by_name.                                                   *)
(***************************************************************************)
\* The worker's finally block: the signer has ended, or it was cancelled and
\* is left behind.
MayClose(c) == c \in Runs => account = c /\ (pc[c] = "outside" \/ cut[c])

Retire(c, client, how, l) ==
    /\ retired' = retired \cup {client}
    /\ target' = [target EXCEPT ![c] = client]
    /\ closing' = [closing EXCEPT ![c] = "stopping"]
    /\ mode' = [mode EXCEPT ![c] = how]
    /\ seen' = [seen EXCEPT ![c] = l]
Done(c) ==
    /\ closing' = [closing EXCEPT ![c] = "done"]
    /\ mode' = [mode EXCEPT ![c] = "none"]
    /\ seen' = [seen EXCEPT ![c] = Nobody]
    /\ target' = [target EXCEPT ![c] = Nobody]

CloseWithoutLock(c) ==
    /\ closing[c] = "no" /\ MayClose(c) /\ current = Nobody
    /\ registered' = Nobody
    /\ refs' = 0
    /\ IF registered = Nobody
       THEN Done(c) /\ UNCHANGED retired
       ELSE Retire(c, registered, "no lock", Nobody)
    /\ UNCHANGED <<account, userVars, current, owner, made, up, orphans, strays, late>>

CloseWaits(c) ==
    /\ closing[c] = "no" /\ MayClose(c) /\ current # Nobody
    /\ closing' = [closing EXCEPT ![c] = "waiting"]
    /\ seen' = [seen EXCEPT ![c] = current]
    /\ UNCHANGED <<account, userVars, target, mode, keyVars, clientVars>>

(* Faulty: does not look whether there is a client. *)
CloseAcquiresBlindly(c) ==
    LET l == seen[c]
    IN  /\ closing[c] = "waiting" /\ owner[l] = Nobody
        /\ refs' = 0
        /\ Retire(c, registered, "locked", l)
        /\ owner' = [owner EXCEPT ![l] = Close(c)]
        /\ UNCHANGED <<account, userVars, registered, current, made, up, orphans, strays, late>>

CloseAcquires(c) ==
    LET l == seen[c]
    IN  /\ closing[c] = "waiting" /\ owner[l] = Nobody
        /\ refs' = 0
        /\ IF registered = Nobody
           THEN /\ Done(c)
                /\ UNCHANGED <<registered, owner, retired>>
                /\ DropIfIdle(l, Close(c))
           ELSE /\ Retire(c, registered, "locked", l)
                /\ owner' = [owner EXCEPT ![l] = Close(c)]
                /\ UNCHANGED <<registered, current>>
        /\ UNCHANGED <<account, userVars, made, up, orphans, strays, late>>

CloseTimesOut(c) ==
    LET l == seen[c]
    IN  /\ closing[c] = "waiting" /\ owner[l] # Nobody
        /\ refs' = 0
        /\ IF registered = Nobody
           THEN Done(c) /\ current' = Nobody /\ UNCHANGED retired
           ELSE Retire(c, registered, "forced", l) /\ UNCHANGED current
        /\ UNCHANGED <<account, userVars, registered, owner, made, up, orphans, strays, late>>

\* The client is stopped.  Cancelled before that, close_client_by_name leaves
\* the count, and the lock it could not acquire, as they are.
Closed(c, cancelled) ==
    LET l == seen[c]
    IN  /\ closing[c] = "stopping"
        /\ up' = up \ {target[c]}
        /\ registered' = IF registered = target[c] THEN Nobody ELSE registered
        /\ refs' = IF cancelled \/ mode[c] = "no lock" THEN refs ELSE 0
        /\ owner' = Released(Close(c))
        /\ Done(c)
        /\ UNCHANGED <<account, userVars, made, retired, orphans, strays, late>>
        /\ \/ mode[c] = "locked" /\ DropIfIdle(l, Close(c))
           \/ mode[c] = "forced" /\ current' = IF cancelled THEN current ELSE Nobody
           \/ mode[c] = "no lock" /\ UNCHANGED current
CloseStops(c) == Closed(c, FALSE)

\* _close_client_with_timeout gives the closing up, after fifteen seconds: of
\* those, the wait for the lock takes five at most.
CloseCancelled(r) == Closed(r, TRUE)

EndRun(r) ==
    /\ closing[r] = "done" /\ account = r
    /\ account' = Nobody
    /\ late' = IF pc[r] = "outside" THEN late ELSE late \cup {r}
    /\ UNCHANGED <<userVars, closeVars, keyVars, made, up, retired, orphans, strays>>
(***************************************************************************)
(* The signer of a run that timed out is cancelled, once, wherever it is.  *)
(***************************************************************************)
\* CancelledError is no Exception: a start that is cancelled keeps its
\* reference, and the task that connects goes on.  A lost exit is an exit.
Cancel(r) ==
    /\ account = r /\ closing[r] = "no" /\ ~cut[r] /\ pc[r] # "outside"
    /\ cut' = [cut EXCEPT ![r] = TRUE]
    /\ \/ /\ pc[r] \in {"entering", "inside"}
          /\ Back(r, depth[r])
          /\ UNCHANGED <<keyVars, up, orphans>>
       \/ /\ pc[r] = "starting"
          /\ Back(r, depth[r])
          /\ owner' = Released(User(r))
          /\ orphans' = orphans \cup {my[r]}
          /\ UNCHANGED <<registered, refs, current, up>>
       \/ /\ pc[r] = "discarding"
          /\ Back(r, depth[r])
          /\ owner' = Released(User(r))
          /\ up' = up \ {my[r]}
          /\ UNCHANGED <<registered, refs, current, orphans>>
       \/ /\ pc[r] = "leaving"
          /\ Back(r, depth[r] - 1)
          /\ UNCHANGED <<keyVars, up, orphans>>
       \/ /\ pc[r] = "stopping"
          /\ Back(r, depth[r] - 1)
          /\ Forget(r)
          /\ UNCHANGED orphans
    /\ UNCHANGED <<account, my, entries, closeVars, made, retired, strays, late>>

ConnectEnds(c) ==
    /\ c \in orphans
    /\ up' \in {up, up \cup {c}}
    /\ orphans' = IF c \in up' THEN orphans ELSE orphans \ {c}
    /\ orphans' # orphans \/ up' # up
    /\ UNCHANGED <<account, userVars, closeVars, keyVars, made, retired, strays, late>>

Next ==
    \/ \E r \in Runs : BeginRun(r) \/ EndRun(r) \/ Cancel(r) \/ CloseCancelled(r)
    \/ \E f \in Refreshes : BeginRefresh(f) \/ RefreshAcquires(f) \/ EndRefresh(f)
    \/ \E u \in Users :
         \/ Enter(u) \/ EnterTimesOut(u) \/ EnterAcquires(u)
         \/ Starts(u) \/ StartFails(u) \/ Discarded(u)
         \/ Exit(u) \/ ExitAcquires(u) \/ ExitTimesOut(u) \/ Stopped(u)
    \/ \E c \in Closers :
         CloseWithoutLock(c) \/ CloseWaits(c) \/ CloseAcquires(c) \/ CloseTimesOut(c)
           \/ CloseStops(c)
    \/ \E c \in Clients : ConnectEnds(c)

Spec == Init /\ [][Next]_vars
(***************************************************************************)
(* Properties.                                                             *)
(***************************************************************************)
\* The variables have these values.  A count below zero lasts as long as the
\* exit that made it.
TypeOK ==
    /\ account \in Users \cup {Nobody}
    /\ pc \in [Users -> {"idle", "queue", "outside", "entering", "starting", "discarding",
                         "inside", "leaving", "stopping", "over"}]
    /\ my \in [Users -> Clients \cup {Nobody}]
    /\ depth \in [Users -> 0..2] /\ entries \in [Users -> 0..(MaxEntries + 1)]
    /\ cut \in [Users -> BOOLEAN] /\ lk \in [Users -> Locks \cup {Nobody}]
    /\ closing \in [Closers -> {"no", "waiting", "stopping", "done"}]
    /\ target \in [Closers -> Clients \cup {Nobody}]
    /\ mode \in [Closers -> {"none", "no lock", "locked", "forced"}]
    /\ seen \in [Closers -> Locks \cup {Nobody}]
    /\ registered \in made \cup {Nobody} /\ refs \in Int
    /\ current \in Locks \cup {Nobody}
    /\ owner \in [Locks -> Parties \cup {Nobody}]
    /\ made \subseteq Clients /\ up \subseteq made /\ retired \subseteq made
    /\ orphans \subseteq made /\ strays \subseteq made
    /\ late \subseteq Runs

\* So far every signer has left its client before its run ended, and nobody
\* has deleted the account.
Undisturbed == late = {} /\ \A d \in Deletions : closing[d] = "no"

\* Until then who holds the account's lock and enters its client gets one that
\* is connected and that nobody has closed, whatever failed, was cancelled or
\* was closed before.
HandedOutAlive ==
    [][\A u \in Users :
         depth'[u] > depth[u] /\ account = u /\ Undisturbed => my[u] \in up' \ retired]_vars

\* A refresh and a run may have been given the same client.
Shared(u) == \E v \in Users \ {u} : my[v] = my[u]

\* While the account's lock is held, its holder's client is stopped by the
\* holder only, by its worker, or because the account is deleted.
StoppedByItsOwn ==
    [][\A u \in Users :
         account = u /\ depth[u] > 0 /\ my[u] \in up \ up' /\ ~Shared(u) =>
           \/ pc[u] \in {"stopping", "discarding"}
           \/ \E c \in Deletions \cup ({u} \cap Runs) : closing[c] = "stopping"]_vars

\* When everybody is gone no client stays connected, but for one whose
\* connecting outlived its signer, and one that was entered when it was no
\* longer registered or that a failed start of another struck off.  A late
\* signer, or a deletion, may leave another's client up, but registered: the
\* next user is given it.
AllGone ==
    /\ account = Nobody
    /\ \A u \in Users : pc[u] \in {"idle", "outside", "over"}
    /\ \A c \in Closers : closing[c] \in {"no", "done"}
NoneLost ==
    AllGone => up \subseteq orphans \cup strays \cup IF Undisturbed THEN {} ELSE {registered}
=============================================================================
