------------------------ MODULE ClientManagerProofs ------------------------
(***************************************************************************)
(* Proofs about ClientManager for any runs, refreshes and deletions of the *)
(* account, any clients and locks.  Turns says who may act: the holder of  *)
(* the account's lock, a run that ended with its signer still in the       *)
(* client, and the deletions.  Known says where a connected client can be  *)
(* found.  Quiet is what holds until a signer is late or the account is    *)
(* deleted: the count is that of the holder's blocks, and nothing is       *)
(* connected but its client.                                               *)
(***************************************************************************)
EXTENDS ClientManager, TLAPS

\* A user in these places is not in its client.
Passive == {"idle", "queue", "outside", "over"}

\* What the place of a user or a closer says of its other variables.
Places ==
    /\ \A u \in Users : pc[u] \in Passive => depth[u] = 0
    /\ \A u \in Users : pc[u] \in {"inside", "leaving", "stopping"} => depth[u] > 0
    /\ \A u \in Users : pc[u] \in {"entering", "starting", "discarding"} => depth[u] < 2
    /\ \A u \in Users : pc[u] # "idle" => my[u] \in made
    /\ \A u \in Users : pc[u] \in {"entering", "starting", "leaving", "discarding"} => lk[u] \in Locks
    /\ \A f \in Refreshes : entries[f] = 0 => pc[f] \in Passive
    /\ \A c \in Closers : closing[c] = "waiting" => seen[c] \in Locks
    /\ \A c \in Closers : closing[c] = "stopping" => target[c] \in retired

\* Who may be where: without the account's lock only a run that is over.
Turns ==
    /\ \A r \in Runs : closing[r] \in {"waiting", "stopping"} => account = r
    /\ \A r \in Runs : closing[r] # "no" => pc[r] = "outside" \/ cut[r]
    /\ \A r \in Runs : pc[r] # "idle" /\ account # r => closing[r] = "done"
    /\ \A r \in Runs : pc[r] = "idle" => closing[r] = "no"
    /\ \A r \in Runs : pc[r] \notin {"queue", "over"}
    /\ \A r \in Runs : account # r => pc[r] \in {"idle", "outside"} \/ r \in late
    /\ \A f \in Refreshes : pc[f] \notin {"idle", "queue", "over"} => account = f
    /\ \A u \in Users : account = u => pc[u] \notin {"idle", "queue", "over"}
    /\ \A u \in Users : cut[u] => u \in Runs /\ pc[u] \in {"outside", "inside", "leaving", "stopping"}

\* Whoever has acquired a lock is in the block it protects.
Owned ==
    \A l \in Locks : owner[l] # Nobody =>
      \/ \E u \in Users : owner[l] = User(u) /\ pc[u] \in {"starting", "discarding", "stopping"}
      \/ \E c \in Closers : owner[l] = Close(c) /\ closing[c] = "stopping"

\* The count falls below zero only for as long as an exit takes, and the one
\* that starts the client is the only one counted.
Counted ==
    /\ refs < 0 => \E u \in Users : pc[u] = "stopping"
    /\ \A u \in Users : pc[u] = "starting" => refs <= 1

\* Users and closers by kind; Nobody is none of them.
LEMMA Names ==
  /\ \A u \in Users : u # Nobody
  /\ Nobody \notin Clients /\ Nobody \notin Locks
  /\ \A r \in Runs : r \in Users /\ r \in Closers /\ r \notin Refreshes /\ r \notin Deletions
  /\ \A f \in Refreshes : f \in Users /\ f \notin Runs /\ f \notin Closers
  /\ \A u \in Users : u \in Runs \/ u \in Refreshes
  /\ \A c \in Closers : c \in Runs \/ c \in Deletions
  /\ \A d \in Deletions : d \in Closers /\ d \notin Runs /\ d \notin Users
  BY ManagerAssumption DEF Users, Closers

\* The parties of a lock are told apart.
LEMMA Parts ==
  /\ \A u \in Users, v \in Users : User(u) = User(v) => u = v
  /\ \A c \in Closers, e \in Closers : Close(c) = Close(e) => c = e
  /\ \A u \in Users, c \in Closers : User(u) # Close(c)
  /\ \A u \in Users : User(u) \in Parties
  /\ \A c \in Closers : Close(c) \in Parties
  BY DEF User, Close, Parties

\* A GetClient gives the registered client, or a new one it registers.
LEMMA Given ==
  ASSUME NEW u \in Users, GetClient(u)
  PROVE  /\ \/ /\ registered # Nobody /\ registered \notin retired
               /\ my' = [my EXCEPT ![u] = registered]
               /\ registered' = registered /\ made' = made
            \/ \E new \in Clients \ made :
                 /\ registered = Nobody \/ registered \in retired
                 /\ my' = [my EXCEPT ![u] = new]
                 /\ registered' = new
                 /\ made' = made \cup {new}
         /\ depth' = depth /\ entries' = entries /\ cut' = cut /\ lk' = lk
         /\ closing' = closing /\ target' = target /\ mode' = mode /\ seen' = seen
         /\ refs' = refs /\ current' = current /\ owner' = owner
         /\ up' = up /\ retired' = retired /\ orphans' = orphans /\ strays' = strays
         /\ late' = late
<1>1. /\ depth' = depth /\ entries' = entries /\ cut' = cut /\ lk' = lk
      /\ closing' = closing /\ target' = target /\ mode' = mode /\ seen' = seen
      /\ refs' = refs /\ current' = current /\ owner' = owner
      /\ up' = up /\ retired' = retired /\ orphans' = orphans /\ strays' = strays
      /\ late' = late
  BY DEF GetClient, closeVars
<1>2. CASE registered # Nobody /\ registered \notin retired
  BY <1>1, <1>2 DEF GetClient
<1>3. CASE ~(registered # Nobody /\ registered \notin retired)
  <2> DEFINE new == CHOOSE c \in Clients \ made : TRUE
  <2>1. Clients \ made # {} BY <1>3 DEF GetClient
  <2>2. new \in Clients \ made BY <2>1
  <2>3. /\ my' = [my EXCEPT ![u] = new]
        /\ registered' = new
        /\ made' = made \cup {new}
    BY <1>3 DEF GetClient
  <2> HIDE DEF new
  <2> QED BY <1>1, <2>2, <2>3, <1>3
<1> QED BY <1>2, <1>3

\* __aenter__ finds a lock or makes one.
LEMMA FoundLock ==
  ASSUME current \in Locks \cup {Nobody}, current # Nobody \/ Spare # {}
  PROVE  Found \in Locks
<1>1. CASE current # Nobody BY <1>1 DEF Found
<1>2. CASE current = Nobody
  <2>1. Spare # {} BY <1>2
  <2>2. (CHOOSE l \in Spare : TRUE) \in Spare BY <2>1
  <2> QED BY <1>2, <2>2 DEF Found, Spare
<1> QED BY <1>1, <1>2

\* _drop_client_lock_if_idle forgets the lock or leaves it.
LEMMA Dropped ==
  ASSUME NEW l, NEW p, DropIfIdle(l, p)
  PROVE  current' = current \/ current' = Nobody
  BY DEF DropIfIdle

\* A release leaves an owner for every lock.
LEMMA ReleasedType ==
  ASSUME NEW p, owner \in [Locks -> Parties \cup {Nobody}]
  PROVE  Released(p) \in [Locks -> Parties \cup {Nobody}]
  BY DEF Released

\* Where a call returns to.
LEMMA Returns ==
  ASSUME NEW u \in Users, NEW n \in 0..2, Back(u, n),
         pc \in [Users -> {"idle", "queue", "outside", "entering", "starting", "discarding",
                           "inside", "leaving", "stopping", "over"}],
         depth \in [Users -> 0..2], lk \in [Users -> Locks \cup {Nobody}]
  PROVE  /\ pc' \in [Users -> {"idle", "queue", "outside", "entering", "starting", "discarding",
                               "inside", "leaving", "stopping", "over"}]
         /\ depth' \in [Users -> 0..2] /\ lk' \in [Users -> Locks \cup {Nobody}]
         /\ depth'[u] = n /\ lk'[u] = Nobody
         /\ n = 0 => pc'[u] = "outside"
         /\ n > 0 => pc'[u] = "inside"
         /\ \A v \in Users \ {u} : pc'[v] = pc[v] /\ depth'[v] = depth[v] /\ lk'[v] = lk[v]
  BY DEF Back, Rest

\* The steps, sorted by who takes them, and what each kind leaves alone.
UserStep(u) ==
    \/ Enter(u) \/ EnterTimesOut(u) \/ EnterAcquires(u)
    \/ Starts(u) \/ StartFails(u) \/ Discarded(u)
    \/ Exit(u) \/ ExitAcquires(u) \/ ExitTimesOut(u) \/ Stopped(u)
CloserStep(c) ==
    \/ CloseWithoutLock(c) \/ CloseWaits(c) \/ CloseAcquires(c) \/ CloseTimesOut(c)
    \/ \E b \in BOOLEAN : Closed(c, b)

\* Every step is of one of these kinds.
LEMMA Steps ==
  ASSUME Next
  PROVE  \/ \E r \in Runs : BeginRun(r) \/ EndRun(r) \/ Cancel(r)
         \/ \E f \in Refreshes : BeginRefresh(f) \/ RefreshAcquires(f) \/ EndRefresh(f)
         \/ \E u \in Users : UserStep(u)
         \/ \E c \in Closers : CloserStep(c)
         \/ \E c \in Clients : ConnectEnds(c)
  BY Names DEF Next, UserStep, CloserStep, CloseStops, CloseCancelled

\* A user in its client leaves the account's lock and the closers alone.
LEMMA UserFrame ==
  ASSUME NEW u \in Users, UserStep(u)
  PROVE  /\ account' = account /\ my' = my /\ cut' = cut
         /\ closing' = closing /\ target' = target /\ mode' = mode /\ seen' = seen
         /\ made' = made /\ retired' = retired /\ orphans' = orphans /\ late' = late
  BY DEF UserStep, Enter, EnterTimesOut, EnterAcquires, Starts, StartFails, Discarded, Exit,
         ExitAcquires, ExitTimesOut, Stopped, closeVars, keyVars, clientVars

\* A closer leaves the users alone.
LEMMA CloserFrame ==
  ASSUME NEW c \in Closers, CloserStep(c)
  PROVE  /\ account' = account /\ pc' = pc /\ my' = my /\ depth' = depth /\ entries' = entries
         /\ cut' = cut /\ lk' = lk
         /\ made' = made /\ orphans' = orphans /\ strays' = strays /\ late' = late
  BY DEF CloserStep, CloseWithoutLock, CloseWaits, CloseAcquires, CloseTimesOut, Closed,
         userVars, keyVars, clientVars

\* The four parts of TypeOK.
UserTypes ==
    /\ account \in Users \cup {Nobody}
    /\ pc \in [Users -> {"idle", "queue", "outside", "entering", "starting", "discarding",
                         "inside", "leaving", "stopping", "over"}]
    /\ my \in [Users -> Clients \cup {Nobody}]
    /\ depth \in [Users -> 0..2] /\ entries \in [Users -> 0..(MaxEntries + 1)]
    /\ cut \in [Users -> BOOLEAN] /\ lk \in [Users -> Locks \cup {Nobody}]
CloserTypes ==
    /\ closing \in [Closers -> {"no", "waiting", "stopping", "done"}]
    /\ target \in [Closers -> Clients \cup {Nobody}]
    /\ mode \in [Closers -> {"none", "no lock", "locked", "forced"}]
    /\ seen \in [Closers -> Locks \cup {Nobody}]
KeyTypes ==
    /\ registered \in made \cup {Nobody} /\ refs \in Int
    /\ current \in Locks \cup {Nobody}
    /\ owner \in [Locks -> Parties \cup {Nobody}]
ClientTypes ==
    /\ made \subseteq Clients /\ up \subseteq made /\ retired \subseteq made
    /\ orphans \subseteq made /\ strays \subseteq made
    /\ late \subseteq Runs

\* Together they are TypeOK.
LEMMA TypeParts == TypeOK <=> UserTypes /\ CloserTypes /\ KeyTypes /\ ClientTypes
  BY DEF TypeOK, UserTypes, CloserTypes, KeyTypes, ClientTypes

\* The variables start with their values.
LEMMA TypesInit == Init => TypeOK /\ Places
  BY Names, ManagerAssumption DEF Init, TypeOK, Places, Passive


\* The types and what the places say, one inductive part.
Typed == TypeOK /\ Places

\* The depth of a user that enters, starts or leaves stays in its bounds.
LEMMA Depths ==
  ASSUME Typed, NEW u \in Users
  PROVE  /\ depth[u] \in 0..2
         /\ Enter(u) => depth[u] < 2 /\ entries[u] + 1 \in 0..(MaxEntries + 1)
         /\ pc[u] \in {"entering", "starting"} => depth[u] + 1 \in 0..2
         /\ pc[u] \in {"inside", "leaving", "stopping"} => depth[u] - 1 \in 0..2
<1>1. depth[u] \in 0..2 /\ entries[u] \in 0..(MaxEntries + 1) BY DEF Typed, TypeOK
<1>2. ASSUME Enter(u) PROVE depth[u] < 2 /\ entries[u] + 1 \in 0..(MaxEntries + 1)
  <2>1. CASE u \in Runs
    BY <1>1, <1>2, <2>1, Names, ManagerAssumption DEF Enter, MayEnter
  <2>2. CASE u \notin Runs
    <3>1. u \in Refreshes BY <2>2, Names
    <3>2. entries[u] = 0 BY <1>2, <2>2 DEF Enter, MayEnter
    <3>3. depth[u] = 0 BY <3>1, <3>2, Names DEF Typed, Places
    <3> QED BY <3>2, <3>3, ManagerAssumption
  <2> QED BY <2>1, <2>2
<1>3. pc[u] \in {"entering", "starting"} => depth[u] + 1 \in 0..2
  BY <1>1 DEF Typed, Places
<1>4. pc[u] \in {"inside", "leaving", "stopping"} => depth[u] - 1 \in 0..2
  BY <1>1 DEF Typed, Places
<1> QED BY <1>1, <1>2, <1>3, <1>4

\* A step keeps the types of the users' variables.
LEMMA UserTypesStep ==
  ASSUME Typed, Next PROVE UserTypes'
<1>0. /\ UserTypes /\ registered \in Clients \cup {Nobody}
      /\ current \in Locks \cup {Nobody}
  BY DEF Typed, TypeOK, UserTypes
<1> USE DEF UserTypes
<1>1. ASSUME NEW r \in Runs, BeginRun(r) PROVE UserTypes'
  BY <1>0, <1>1, Names, Given DEF BeginRun
<1>2. ASSUME NEW r \in Runs, EndRun(r) PROVE UserTypes'
  BY <1>0, <1>2 DEF EndRun, userVars
<1>3. ASSUME NEW r \in Runs, Cancel(r) PROVE UserTypes'
  BY <1>0, <1>3, Names, Returns, Depths DEF Cancel
<1>4. ASSUME NEW f \in Refreshes, BeginRefresh(f) PROVE UserTypes'
  BY <1>0, <1>4, Names, Given DEF BeginRefresh
<1>5. ASSUME NEW f \in Refreshes, RefreshAcquires(f) PROVE UserTypes'
  BY <1>0, <1>5, Names DEF RefreshAcquires
<1>6. ASSUME NEW f \in Refreshes, EndRefresh(f) PROVE UserTypes'
  BY <1>0, <1>6, Names DEF EndRefresh
<1>7. ASSUME NEW u \in Users, UserStep(u) PROVE UserTypes'
  <2>0. account' = account /\ my' = my /\ cut' = cut BY <1>7, UserFrame
  <2>1. CASE Enter(u)
    BY <1>0, <2>0, <2>1, FoundLock, Depths DEF Enter
  <2>2. CASE EnterTimesOut(u)
    BY <1>0, <2>0, <2>2, Returns, Depths DEF EnterTimesOut
  <2>3. CASE EnterAcquires(u)
    BY <1>0, <2>0, <2>3, Returns, Depths DEF EnterAcquires
  <2>4. CASE Starts(u)
    BY <1>0, <2>0, <2>4, Returns, Depths DEF Starts, Discard
  <2>5. CASE StartFails(u)
    BY <1>0, <2>0, <2>5, Returns, Depths DEF StartFails, Discard
  <2>6. CASE Discarded(u)
    BY <1>0, <2>0, <2>6, Returns, Depths DEF Discarded
  <2>7. CASE Exit(u)
    BY <1>0, <2>0, <2>7, Returns, Depths DEF Exit
  <2>8. CASE ExitAcquires(u)
    BY <1>0, <2>0, <2>8, Returns, Depths DEF ExitAcquires
  <2>9. CASE ExitTimesOut(u)
    BY <1>0, <2>0, <2>9 DEF ExitTimesOut
  <2>10. CASE Stopped(u)
    BY <1>0, <2>0, <2>10, Returns, Depths DEF Stopped
  <2> QED BY <1>7, <2>1, <2>2, <2>3, <2>4, <2>5, <2>6, <2>7, <2>8, <2>9, <2>10 DEF UserStep
<1>8. ASSUME NEW c \in Closers, CloserStep(c) PROVE UserTypes'
  BY <1>0, <1>8, CloserFrame
<1>9. ASSUME NEW c \in Clients, ConnectEnds(c) PROVE UserTypes'
  BY <1>0, <1>9 DEF ConnectEnds, userVars
<1> QED BY <1>1, <1>2, <1>3, <1>4, <1>5, <1>6, <1>7, <1>8, <1>9, Steps

\* A step keeps the types of the closers' variables.
LEMMA CloserTypesStep ==
  ASSUME Typed, Next PROVE CloserTypes'
<1>0. /\ CloserTypes /\ registered \in Clients \cup {Nobody}
      /\ current \in Locks \cup {Nobody}
  BY DEF Typed, TypeOK, CloserTypes
<1> USE DEF CloserTypes
<1>1. ASSUME NEW r \in Runs, BeginRun(r) \/ EndRun(r) \/ Cancel(r) PROVE CloserTypes'
  BY <1>0, <1>1, Names, Given DEF BeginRun, EndRun, Cancel, closeVars
<1>2. ASSUME NEW f \in Refreshes, BeginRefresh(f) \/ RefreshAcquires(f) \/ EndRefresh(f)
      PROVE  CloserTypes'
  BY <1>0, <1>2, Names, Given DEF BeginRefresh, RefreshAcquires, EndRefresh, closeVars
<1>3. ASSUME NEW u \in Users, UserStep(u) PROVE CloserTypes'
  BY <1>0, <1>3, UserFrame
<1>4. ASSUME NEW c \in Closers, CloserStep(c) PROVE CloserTypes'
  <2>1. CASE CloseWithoutLock(c)
    BY <1>0, <2>1 DEF CloseWithoutLock, Retire, Done
  <2>2. CASE CloseWaits(c)
    BY <1>0, <2>2 DEF CloseWaits
  <2>3. CASE CloseAcquires(c)
    BY <1>0, <2>3 DEF CloseAcquires, Retire, Done
  <2>4. CASE CloseTimesOut(c)
    <3>1. CASE registered = Nobody
      BY <1>0, <2>4, <3>1 DEF CloseTimesOut, Done
    <3>2. CASE registered # Nobody
      BY <1>0, <2>4, <3>2 DEF CloseTimesOut, Retire
    <3> QED BY <3>1, <3>2
  <2>5. ASSUME NEW b \in BOOLEAN, Closed(c, b) PROVE CloserTypes'
    BY <1>0, <2>5 DEF Closed, Done
  <2> QED BY <1>4, <2>1, <2>2, <2>3, <2>4, <2>5 DEF CloserStep
<1>5. ASSUME NEW c \in Clients, ConnectEnds(c) PROVE CloserTypes'
  BY <1>0, <1>5 DEF ConnectEnds, closeVars
<1> QED BY <1>1, <1>2, <1>3, <1>4, <1>5, Steps

\* A step keeps the types of the key's variables.
LEMMA KeyTypesStep ==
  ASSUME Typed, Next PROVE KeyTypes'
<1>0. KeyTypes /\ TypeOK BY DEF Typed, TypeOK, KeyTypes
<1> USE DEF KeyTypes
<1>1. ASSUME NEW r \in Runs, BeginRun(r) PROVE KeyTypes'
  BY <1>0, <1>1, Names, Given DEF BeginRun
<1>2. ASSUME NEW r \in Runs, EndRun(r) PROVE KeyTypes'
  BY <1>0, <1>2 DEF EndRun, keyVars
<1>3. ASSUME NEW r \in Runs, Cancel(r) PROVE KeyTypes'
  BY <1>0, <1>3, ReleasedType DEF Cancel, Forget, keyVars
<1>4. ASSUME NEW f \in Refreshes, BeginRefresh(f) PROVE KeyTypes'
  BY <1>0, <1>4, Names, Given DEF BeginRefresh
<1>5. ASSUME NEW f \in Refreshes, RefreshAcquires(f) \/ EndRefresh(f) PROVE KeyTypes'
  BY <1>0, <1>5 DEF RefreshAcquires, EndRefresh, keyVars, clientVars
<1>6. ASSUME NEW u \in Users, UserStep(u) PROVE KeyTypes'
  <2>0. made' = made BY <1>6, UserFrame
  <2>1. CASE Enter(u)
    BY <1>0, <2>0, <2>1, FoundLock DEF Enter
  <2>2. CASE EnterTimesOut(u) \/ Exit(u)
    BY <1>0, <2>0, <2>2 DEF EnterTimesOut, Exit, keyVars
  <2>3. CASE EnterAcquires(u) \/ ExitAcquires(u)
    BY <1>0, <2>0, <2>3, Parts DEF EnterAcquires, ExitAcquires
  <2>4. CASE Starts(u)
    BY <1>0, <2>0, <2>4, ReleasedType DEF Starts, Discard
  <2>5. CASE StartFails(u)
    BY <1>0, <2>0, <2>5, ReleasedType DEF StartFails, Discard
  <2>6. CASE Discarded(u)
    BY <1>0, <2>0, <2>6, ReleasedType, Dropped DEF Discarded
  <2>7. CASE ExitTimesOut(u)
    BY <1>0, <2>0, <2>7 DEF ExitTimesOut
  <2>8. CASE Stopped(u)
    BY <1>0, <2>0, <2>8, ReleasedType DEF Stopped, Forget
  <2> QED BY <1>6, <2>1, <2>2, <2>3, <2>4, <2>5, <2>6, <2>7, <2>8 DEF UserStep
<1>7. ASSUME NEW c \in Closers, CloserStep(c) PROVE KeyTypes'
  <2>0. made' = made BY <1>7, CloserFrame
  <2>1. CASE CloseWithoutLock(c)
    <3>1. /\ registered' = Nobody /\ refs' = 0 /\ current' = current /\ owner' = owner
      BY <2>1 DEF CloseWithoutLock
    <3> QED BY <1>0, <2>0, <3>1
  <2>2. CASE CloseWaits(c)
    BY <1>0, <2>0, <2>2 DEF CloseWaits, keyVars
  <2>3. CASE CloseAcquires(c)
    BY <1>0, <2>0, <2>3, Parts, Dropped DEF CloseAcquires
  <2>4. CASE CloseTimesOut(c)
    BY <1>0, <2>0, <2>4 DEF CloseTimesOut
  <2>5. ASSUME NEW b \in BOOLEAN, Closed(c, b) PROVE KeyTypes'
    <3>1. registered' \in made' \cup {Nobody} BY <1>0, <2>0, <2>5 DEF Closed
    <3>2. refs' = refs \/ refs' = 0 BY <2>5, Zenon DEF Closed
    <3>3. current' \in Locks \cup {Nobody} BY <1>0, <2>5, Dropped DEF Closed
    <3>4. owner' \in [Locks -> Parties \cup {Nobody}]
      BY <1>0, <2>5, ReleasedType DEF Closed
    <3>5. refs' \in Int BY <1>0, <3>2
    <3> QED BY <3>1, <3>3, <3>4, <3>5
  <2> QED BY <1>7, <2>1, <2>2, <2>3, <2>4, <2>5 DEF CloserStep
<1>8. ASSUME NEW c \in Clients, ConnectEnds(c) PROVE KeyTypes'
  BY <1>0, <1>8 DEF ConnectEnds, keyVars
<1> QED BY <1>1, <1>2, <1>3, <1>4, <1>5, <1>6, <1>7, <1>8, Steps

\* A step keeps the types of the sets of clients.
LEMMA ClientTypesStep ==
  ASSUME Typed, Next PROVE ClientTypes'
<1>0. ClientTypes /\ registered \in made \cup {Nobody}
  BY DEF Typed, TypeOK, ClientTypes
<1> USE DEF ClientTypes
<1>1. ASSUME NEW r \in Runs, BeginRun(r) PROVE ClientTypes'
  BY <1>0, <1>1, Names, Given DEF BeginRun
<1>2. ASSUME NEW r \in Runs, EndRun(r) PROVE ClientTypes'
  BY <1>0, <1>2 DEF EndRun
<1>3. ASSUME NEW r \in Runs, Cancel(r) PROVE ClientTypes'
  <2>1. pc[r] = "starting" => my[r] \in made BY Names DEF Typed, Places
  <2> QED BY <1>0, <1>3, <2>1 DEF Cancel, Forget
<1>4. ASSUME NEW f \in Refreshes, BeginRefresh(f) PROVE ClientTypes'
  BY <1>0, <1>4, Names, Given DEF BeginRefresh
<1>5. ASSUME NEW f \in Refreshes, RefreshAcquires(f) \/ EndRefresh(f) PROVE ClientTypes'
  BY <1>0, <1>5 DEF RefreshAcquires, EndRefresh, clientVars
<1>6. ASSUME NEW u \in Users, UserStep(u) PROVE ClientTypes'
  <2>0. /\ made' = made /\ retired' = retired /\ orphans' = orphans /\ late' = late
        /\ pc[u] # "idle" => my[u] \in made
    BY <1>6, UserFrame DEF Typed, Places
  <2>1. CASE Enter(u)
    BY <1>0, <2>0, <2>1 DEF Enter
  <2>2. CASE EnterTimesOut(u) \/ Exit(u) \/ EnterAcquires(u) \/ ExitAcquires(u)
    BY <1>0, <2>0, <2>2 DEF EnterTimesOut, Exit, EnterAcquires, ExitAcquires, clientVars
  <2>3. CASE Starts(u)
    BY <1>0, <2>0, <2>3 DEF Starts
  <2>4. CASE StartFails(u)
    BY <1>0, <2>0, <2>4 DEF StartFails
  <2>5. CASE Discarded(u) \/ ExitTimesOut(u) \/ Stopped(u)
    BY <1>0, <2>0, <2>5 DEF Discarded, ExitTimesOut, Stopped, Forget, clientVars
  <2> QED BY <1>6, <2>1, <2>2, <2>3, <2>4, <2>5 DEF UserStep
<1>7. ASSUME NEW c \in Closers, CloserStep(c) PROVE ClientTypes'
  <2>0. /\ made' = made /\ orphans' = orphans /\ strays' = strays /\ late' = late
    BY <1>7, CloserFrame
  <2>1. CASE CloseWithoutLock(c)
    BY <1>0, <2>0, <2>1 DEF CloseWithoutLock, Retire
  <2>2. CASE CloseWaits(c)
    BY <1>0, <2>0, <2>2 DEF CloseWaits, clientVars
  <2>3. CASE CloseAcquires(c)
    BY <1>0, <2>0, <2>3 DEF CloseAcquires, Retire
  <2>4. CASE CloseTimesOut(c)
    BY <1>0, <2>0, <2>4 DEF CloseTimesOut, Retire
  <2>5. ASSUME NEW b \in BOOLEAN, Closed(c, b) PROVE ClientTypes'
    BY <1>0, <2>0, <2>5 DEF Closed
  <2> QED BY <1>7, <2>1, <2>2, <2>3, <2>4, <2>5 DEF CloserStep
<1>8. ASSUME NEW c \in Clients, ConnectEnds(c) PROVE ClientTypes'
  BY <1>0, <1>8 DEF ConnectEnds
<1> QED BY <1>1, <1>2, <1>3, <1>4, <1>5, <1>6, <1>7, <1>8, Steps

\* Where a step takes its user; the others stay where they are.
Moves(u) ==
    \/ /\ Enter(u) /\ pc[u] \in {"outside", "inside"}
       /\ pc'[u] = "entering" /\ depth'[u] = depth[u]
    \/ pc[u] = "entering" /\ pc'[u] = "starting" /\ depth'[u] = depth[u]
    \/ pc[u] = "starting" /\ pc'[u] = "discarding" /\ depth'[u] = depth[u]
    \/ pc[u] = "inside" /\ pc'[u] = "leaving" /\ depth'[u] = depth[u]
    \/ pc[u] = "leaving" /\ pc'[u] = "stopping" /\ depth'[u] = depth[u]
    \/ /\ \/ pc[u] \in {"entering", "starting"} /\ depth'[u] \in {depth[u], depth[u] + 1}
          \/ pc[u] = "discarding" /\ depth'[u] = depth[u]
          \/ pc[u] \in {"inside", "leaving", "stopping"} /\ depth'[u] = depth[u] - 1
       /\ depth'[u] = 0 => pc'[u] = "outside"
       /\ depth'[u] # 0 => pc'[u] = "inside"
Apart(u) ==
    \A v \in Users \ {u} : pc'[v] = pc[v] /\ depth'[v] = depth[v] /\ lk'[v] = lk[v]
                             /\ entries'[v] = entries[v]

\* A user's step moves that user and nobody else.
LEMMA UserMoves ==
  ASSUME Typed, NEW u \in Users, UserStep(u)
  PROVE  Moves(u) /\ Apart(u)
<1>0. UserTypes BY TypeParts DEF Typed
<1> USE DEF Moves, Apart
<1>1. CASE Enter(u)
  BY <1>0, <1>1 DEF Enter, UserTypes
<1>2. CASE EnterTimesOut(u)
  BY <1>0, <1>2, Returns, Depths DEF EnterTimesOut, UserTypes
<1>3. CASE EnterAcquires(u)
  BY <1>0, <1>3, Returns, Depths DEF EnterAcquires, UserTypes
<1>4. CASE Starts(u)
  BY <1>0, <1>4, Returns, Depths DEF Starts, Discard, UserTypes
<1>5. CASE StartFails(u)
  BY <1>0, <1>5, Returns, Depths DEF StartFails, Discard, UserTypes
<1>6. CASE Discarded(u)
  BY <1>0, <1>6, Returns, Depths DEF Discarded, UserTypes
<1>7. CASE Exit(u)
  BY <1>0, <1>7, Returns, Depths DEF Exit, UserTypes
<1>8. CASE ExitAcquires(u)
  BY <1>0, <1>8, Returns, Depths DEF ExitAcquires, UserTypes
<1>9. CASE ExitTimesOut(u)
  BY <1>0, <1>9 DEF ExitTimesOut, UserTypes
<1>10. CASE Stopped(u)
  BY <1>0, <1>10, Returns, Depths DEF Stopped, UserTypes
<1> QED BY <1>1, <1>2, <1>3, <1>4, <1>5, <1>6, <1>7, <1>8, <1>9, <1>10 DEF UserStep

\* The same of a cancellation.
LEMMA CancelMoves ==
  ASSUME Typed, NEW r \in Runs, Cancel(r)
  PROVE  /\ \A v \in Users \ {r} : pc'[v] = pc[v] /\ depth'[v] = depth[v] /\ lk'[v] = lk[v]
                                     /\ cut'[v] = cut[v]
         /\ pc[r] \in {"entering", "starting", "discarding", "inside", "leaving", "stopping"}
         /\ lk'[r] = Nobody /\ cut'[r] /\ account = r /\ closing[r] = "no" /\ ~cut[r]
         /\ depth'[r] = IF pc[r] \in {"leaving", "stopping"} THEN depth[r] - 1 ELSE depth[r]
         /\ depth'[r] = 0 => pc'[r] = "outside"
         /\ depth'[r] # 0 => pc'[r] = "inside"
         /\ account' = account /\ my' = my /\ entries' = entries
         /\ closing' = closing /\ target' = target /\ mode' = mode /\ seen' = seen
         /\ made' = made /\ retired' = retired /\ strays' = strays /\ late' = late
<1>0. UserTypes /\ r \in Users BY TypeParts, Names DEF Typed
<1>1. Back(r, depth[r]) \/ Back(r, depth[r] - 1) BY <1>0 DEF Cancel
<1> QED BY <1>0, Returns, Depths DEF Cancel, UserTypes, closeVars

\* What a step of close_client_by_name does.
CloserMoves(c) ==
    /\ \A e \in Closers \ {c} : closing'[e] = closing[e] /\ target'[e] = target[e]
                                  /\ seen'[e] = seen[e]
    /\ \/ /\ closing[c] = "no" /\ closing'[c] = "waiting" /\ seen'[c] \in Locks
          /\ MayClose(c)
          /\ registered' = registered /\ refs' = refs /\ up' = up /\ retired' = retired
          /\ owner' = owner /\ current' = current
       \/ /\ closing[c] = "waiting" \/ (closing[c] = "no" /\ MayClose(c))
          /\ closing'[c] = "stopping" /\ target'[c] = registered
          /\ registered # Nobody /\ retired' = retired \cup {registered}
          /\ registered' \in {registered, Nobody} /\ refs' = 0 /\ up' = up
          /\ owner' = owner \/ owner' = [owner EXCEPT ![seen[c]] = Close(c)]
       \/ /\ closing[c] = "waiting" \/ (closing[c] = "no" /\ MayClose(c))
          /\ closing'[c] = "done"
          /\ registered = Nobody /\ registered' = Nobody
          /\ refs' = 0 /\ up' = up /\ retired' = retired /\ owner' = owner
       \/ /\ closing[c] = "stopping" /\ closing'[c] = "done"
          /\ up' = up \ {target[c]} /\ retired' = retired
          /\ registered' = IF registered = target[c] THEN Nobody ELSE registered
          /\ refs' = refs \/ refs' = 0
          /\ owner' = Released(Close(c))

\* close_client_by_name does one of these four things.
LEMMA CloserEffect ==
  ASSUME Typed, NEW c \in Closers, CloserStep(c)
  PROVE  CloserMoves(c)
<1>0. CloserTypes /\ KeyTypes /\ Places BY TypeParts DEF Typed
<1> USE DEF CloserMoves
<1>1. CASE CloseWithoutLock(c)
  <2>1. CASE registered = Nobody
    BY <1>0, <1>1, <2>1 DEF CloseWithoutLock, Done, CloserTypes
  <2>2. CASE registered # Nobody
    BY <1>0, <1>1, <2>2 DEF CloseWithoutLock, Retire, CloserTypes
  <2> QED BY <2>1, <2>2
<1>2. CASE CloseWaits(c)
  BY <1>0, <1>2 DEF CloseWaits, CloserTypes, KeyTypes, keyVars, clientVars
<1>3. CASE CloseAcquires(c)
  <2>0. closing[c] = "waiting" /\ registered' = registered /\ refs' = 0 /\ up' = up
    BY <1>3 DEF CloseAcquires
  <2>1. CASE registered = Nobody
    <3>1. Done(c) /\ retired' = retired /\ owner' = owner
      BY <1>3, <2>1 DEF CloseAcquires
    <3> QED BY <1>0, <2>0, <2>1, <3>1 DEF Done, CloserTypes
  <2>2. CASE registered # Nobody
    <3>1. Retire(c, registered, "locked", seen[c]) /\ owner' = [owner EXCEPT ![seen[c]] = Close(c)]
      BY <1>3, <2>2 DEF CloseAcquires
    <3> QED BY <1>0, <2>0, <2>2, <3>1 DEF Retire, CloserTypes
  <2> QED BY <2>1, <2>2
<1>4. CASE CloseTimesOut(c)
  <2>0. closing[c] = "waiting" /\ registered' = registered /\ refs' = 0 /\ up' = up
    BY <1>4 DEF CloseTimesOut
  <2>1. CASE registered = Nobody
    <3>1. Done(c) /\ retired' = retired /\ owner' = owner
      BY <1>4, <2>1 DEF CloseTimesOut
    <3> QED BY <1>0, <2>0, <2>1, <3>1 DEF Done, CloserTypes
  <2>2. CASE registered # Nobody
    <3>1. Retire(c, registered, "forced", seen[c]) /\ owner' = owner
      BY <1>4, <2>2 DEF CloseTimesOut
    <3> QED BY <1>0, <2>0, <2>2, <3>1 DEF Retire, CloserTypes
  <2> QED BY <2>1, <2>2
<1>5. ASSUME NEW b \in BOOLEAN, Closed(c, b) PROVE CloserMoves(c)
  <2>1. refs' = refs \/ refs' = 0 BY <1>5, Zenon DEF Closed
  <2>2. /\ closing[c] = "stopping"
        /\ up' = up \ {target[c]} /\ retired' = retired
        /\ registered' = IF registered = target[c] THEN Nobody ELSE registered
        /\ owner' = Released(Close(c))
    BY <1>5 DEF Closed
  <2>3. Done(c) BY <1>5 DEF Closed
  <2> QED BY <1>0, <2>1, <2>2, <2>3 DEF Done, CloserTypes
<1> QED BY <1>1, <1>2, <1>3, <1>4, <1>5 DEF CloserStep

\* Every step keeps what a place says.
LEMMA PlacesStep ==
  ASSUME Typed, Next PROVE Places'
<1>0. UserTypes /\ CloserTypes /\ KeyTypes /\ ClientTypes /\ Places BY TypeParts DEF Typed
<1> USE DEF Places, Passive
<1>1. ASSUME NEW r \in Runs, BeginRun(r) PROVE Places'
  BY <1>0, <1>1, Names, Given DEF BeginRun, UserTypes, ClientTypes, KeyTypes
<1>2. ASSUME NEW r \in Runs, EndRun(r) PROVE Places'
  BY <1>0, <1>2 DEF EndRun, userVars, closeVars
<1>3. ASSUME NEW r \in Runs, Cancel(r) PROVE Places'
  BY <1>0, <1>3, Names, CancelMoves, Depths DEF UserTypes
<1>4. ASSUME NEW f \in Refreshes, BeginRefresh(f) PROVE Places'
  BY <1>0, <1>4, Names, Given DEF BeginRefresh, UserTypes, ClientTypes, KeyTypes
<1>5. ASSUME NEW f \in Refreshes, RefreshAcquires(f) \/ EndRefresh(f) PROVE Places'
  BY <1>0, <1>5, Names DEF RefreshAcquires, EndRefresh, clientVars, closeVars, UserTypes
<1>6. ASSUME NEW u \in Users, UserStep(u) PROVE Places'
  <2>1. /\ my' = my /\ closing' = closing /\ target' = target /\ seen' = seen
        /\ made' = made /\ retired' = retired
    BY <1>6, UserFrame
  <2>2. Moves(u) /\ Apart(u) BY <1>6, UserMoves
  <2>3. /\ depth[u] \in 0..2
        /\ pc[u] \in {"inside", "leaving", "stopping"} => depth[u] > 0
        /\ pc'[u] \in {"entering", "starting", "discarding"} => depth'[u] < 2
    BY <1>0, <1>6, <2>2, Depths DEF UserStep, UserTypes, Moves, Enter, EnterTimesOut,
       EnterAcquires, Starts, StartFails, Discarded, Exit, ExitAcquires, ExitTimesOut, Stopped, Back, Rest
  <2>4. pc'[u] \in {"entering", "starting", "leaving", "discarding"} => lk'[u] \in Locks
    <3>1. CASE Enter(u)
      BY <1>0, <3>1, FoundLock DEF Enter, UserTypes, KeyTypes
    <3>2. CASE Exit(u)
      BY <1>0, <3>2, Returns, Depths DEF Exit, UserTypes, KeyTypes
    <3>3. CASE EnterAcquires(u) \/ Starts(u) \/ StartFails(u)
      BY <1>0, <3>3, Returns, Depths DEF EnterAcquires, Starts, StartFails, Discard, UserTypes
    <3>4. CASE EnterTimesOut(u) \/ Discarded(u) \/ ExitAcquires(u) \/ ExitTimesOut(u) \/ Stopped(u)
      BY <1>0, <3>4, Returns, Depths
         DEF EnterTimesOut, Discarded, ExitAcquires, ExitTimesOut, Stopped, UserTypes
    <3> QED BY <1>6, <3>1, <3>2, <3>3, <3>4 DEF UserStep
  <2>5. u \in Refreshes /\ entries'[u] = 0 => pc'[u] \in Passive
    <3>1. CASE Enter(u)
      BY <1>0, <3>1 DEF Enter, UserTypes
    <3>2. CASE ~Enter(u)
      <4>1. entries'[u] = entries[u]
        BY <1>6, <3>2 DEF UserStep, EnterTimesOut, EnterAcquires, Starts,
           StartFails, Discarded, Exit, ExitAcquires, ExitTimesOut, Stopped
      <4> QED BY <1>0, <2>2, <3>2, <4>1 DEF Moves
    <3> QED BY <3>1, <3>2
  <2> QED BY <1>0, <2>1, <2>2, <2>3, <2>4, <2>5, Names DEF Moves, Apart
<1>7. ASSUME NEW c \in Closers, CloserStep(c) PROVE Places'
  <2>0. /\ pc' = pc /\ my' = my /\ depth' = depth /\ entries' = entries
        /\ lk' = lk /\ made' = made
    BY <1>7, CloserFrame
  <2>1. CloserMoves(c) BY <1>7, CloserEffect
  <2> QED BY <1>0, <2>0, <2>1 DEF CloserMoves
<1>8. ASSUME NEW c \in Clients, ConnectEnds(c) PROVE Places'
  BY <1>0, <1>8 DEF ConnectEnds, userVars, closeVars
<1> QED BY <1>1, <1>2, <1>3, <1>4, <1>5, <1>6, <1>7, <1>8, Steps

\* Who may be where after a step.
LEMMA TurnsStep ==
  ASSUME Typed, Turns, Next PROVE Turns'
<1>0. UserTypes /\ CloserTypes /\ Places BY TypeParts DEF Typed
<1> USE DEF Turns
<1>1. ASSUME NEW r \in Runs, BeginRun(r) PROVE Turns'
  BY <1>0, <1>1, Names, Given DEF BeginRun, UserTypes
<1>2. ASSUME NEW r \in Runs, EndRun(r) PROVE Turns'
  BY <1>0, <1>2, Names DEF EndRun, userVars, closeVars
<1>3. ASSUME NEW r \in Runs, Cancel(r) PROVE Turns'
  BY <1>0, <1>3, Names, CancelMoves DEF UserTypes
<1>4. ASSUME NEW f \in Refreshes, BeginRefresh(f) PROVE Turns'
  BY <1>0, <1>4, Names, Given DEF BeginRefresh, UserTypes
<1>5. ASSUME NEW f \in Refreshes, RefreshAcquires(f) \/ EndRefresh(f) PROVE Turns'
  BY <1>0, <1>5, Names DEF RefreshAcquires, EndRefresh, clientVars, closeVars, UserTypes
<1>6. ASSUME NEW u \in Users, UserStep(u) PROVE Turns'
  <2>1. account' = account /\ closing' = closing /\ cut' = cut /\ late' = late
    BY <1>6, UserFrame
  <2>2. Moves(u) /\ Apart(u) BY <1>6, UserMoves
  <2>3. pc'[u] = "entering" /\ pc[u] # "entering" =>
          ~cut[u] /\ (u \in Runs /\ depth[u] = 0 => account = u /\ closing[u] = "no")
    BY <2>2 DEF Moves, Enter, MayEnter
  <2>4. \A v \in Users : pc[v] = "outside" => depth[v] = 0 BY <1>0 DEF Places, Passive
  <2> QED BY <1>0, <2>1, <2>2, <2>3, <2>4, Names DEF Moves, Apart
<1>7. ASSUME NEW c \in Closers, CloserStep(c) PROVE Turns'
  <2>0. account' = account /\ pc' = pc /\ cut' = cut /\ late' = late
    BY <1>7, CloserFrame
  <2>1. CloserMoves(c) BY <1>7, CloserEffect
  <2>2. c \in Runs => account = c /\ (pc[c] = "outside" \/ cut[c])
    BY <2>1 DEF CloserMoves, MayClose
  <2> QED BY <1>0, <2>0, <2>1, <2>2, Names DEF CloserMoves
<1>8. ASSUME NEW c \in Clients, ConnectEnds(c) PROVE Turns'
  BY <1>0, <1>8 DEF ConnectEnds, userVars, closeVars
<1> QED BY <1>1, <1>2, <1>3, <1>4, <1>5, <1>6, <1>7, <1>8, Steps

\* The places in which a user may have acquired a lock.
Busy == {"starting", "discarding", "stopping"}

\* Every step keeps the owners of the locks in their blocks.
LEMMA OwnedStep ==
  ASSUME Typed, Owned, Next PROVE Owned'
<1>0. UserTypes /\ CloserTypes /\ KeyTypes /\ Places BY TypeParts DEF Typed
<1> USE DEF Owned
<1>1. ASSUME NEW r \in Runs, BeginRun(r) PROVE Owned'
  BY <1>0, <1>1, Names, Given DEF BeginRun, UserTypes
<1>2. ASSUME NEW r \in Runs, EndRun(r) PROVE Owned'
  BY <1>0, <1>2 DEF EndRun, userVars, closeVars, keyVars
<1>3. ASSUME NEW r \in Runs, Cancel(r) PROVE Owned'
  <2>1. \/ owner' = owner /\ pc[r] \notin Busy
        \/ owner' = Released(User(r))
    BY <1>3 DEF Cancel, Forget, Busy, keyVars
  <2>2. /\ closing' = closing
        /\ \A v \in Users \ {r} : pc'[v] = pc[v]
    BY <1>3, CancelMoves
  <2> QED BY <1>0, <2>1, <2>2, Names, Parts DEF Released, KeyTypes, Busy
<1>4. ASSUME NEW f \in Refreshes, BeginRefresh(f) PROVE Owned'
  BY <1>0, <1>4, Names, Given DEF BeginRefresh, UserTypes
<1>5. ASSUME NEW f \in Refreshes, RefreshAcquires(f) \/ EndRefresh(f) PROVE Owned'
  BY <1>0, <1>5, Names DEF RefreshAcquires, EndRefresh, keyVars, closeVars, UserTypes
<1>6. ASSUME NEW u \in Users, UserStep(u) PROVE Owned'
  <2>1. closing' = closing BY <1>6, UserFrame
  <2>2. Apart(u) BY <1>6, UserMoves
  <2>3. \/ owner' = owner /\ (pc[u] \in Busy => pc'[u] \in Busy)
        \/ owner' = Released(User(u))
        \/ owner' = [owner EXCEPT ![lk[u]] = User(u)] /\ pc'[u] \in Busy
    <3>1. CASE Enter(u) \/ EnterTimesOut(u) \/ Exit(u)
      BY <3>1 DEF Enter, EnterTimesOut, Exit, keyVars, Busy
    <3>2. CASE EnterAcquires(u) \/ ExitAcquires(u)
      BY <1>0, <3>2 DEF EnterAcquires, ExitAcquires, UserTypes, Busy
    <3>3. CASE Starts(u) \/ StartFails(u)
      BY <1>0, <3>3 DEF Starts, StartFails, Discard, UserTypes, Busy
    <3>4. CASE Discarded(u) \/ Stopped(u)
      BY <3>4 DEF Discarded, Stopped, Forget
    <3>5. CASE ExitTimesOut(u)
      BY <1>0, <3>5 DEF ExitTimesOut, UserTypes, Busy
    <3> QED BY <1>6, <3>1, <3>2, <3>3, <3>4, <3>5 DEF UserStep
  <2> QED BY <1>0, <2>1, <2>2, <2>3, Parts DEF Released, KeyTypes, Busy, Apart
<1>7. ASSUME NEW c \in Closers, CloserStep(c) PROVE Owned'
  <2>1. CloserMoves(c) /\ pc' = pc BY <1>7, CloserEffect, CloserFrame
  <2> QED BY <1>0, <2>1, Parts DEF CloserMoves, Released, KeyTypes
<1>8. ASSUME NEW c \in Clients, ConnectEnds(c) PROVE Owned'
  BY <1>0, <1>8 DEF ConnectEnds, userVars, closeVars, keyVars
<1> QED BY <1>1, <1>2, <1>3, <1>4, <1>5, <1>6, <1>7, <1>8, Steps

\* A user in __aenter__ holds the account's lock; one that is inside without
\* it is a late signer.
LEMMA Solo ==
  ASSUME Typed, Turns, NEW u \in Users
  PROVE  /\ pc[u] \in {"entering", "starting", "discarding"} =>
              account = u /\ ~cut[u] /\ (u \in Runs => closing[u] = "no")
         /\ pc[u] \notin Passive /\ account # u =>
              u \in Runs /\ closing[u] = "done" /\ cut[u] /\ u \in late
  BY Names DEF Turns, Passive, Typed, TypeOK

\* Every step keeps the count in its bounds.
LEMMA CountedStep ==
  ASSUME Typed, Turns, Counted, Next PROVE Counted'
<1>0. UserTypes /\ KeyTypes /\ Places BY TypeParts DEF Typed
<1> USE DEF Counted
<1>1. ASSUME NEW r \in Runs, BeginRun(r) PROVE Counted'
  BY <1>0, <1>1, Names, Given DEF BeginRun, UserTypes
<1>2. ASSUME NEW r \in Runs, EndRun(r) PROVE Counted'
  BY <1>0, <1>2 DEF EndRun, userVars, keyVars
<1>3. ASSUME NEW r \in Runs, Cancel(r) PROVE Counted'
  <2>1. refs' = 0 \/ (refs' = refs /\ pc[r] # "stopping")
    BY <1>3 DEF Cancel, Forget, keyVars
  <2>2. /\ \A v \in Users \ {r} : pc'[v] = pc[v]
        /\ pc'[r] # "starting"
    BY <1>0, <1>3, CancelMoves, Names DEF UserTypes
  <2> QED BY <1>0, <2>1, <2>2, Names
<1>4. ASSUME NEW f \in Refreshes, BeginRefresh(f) PROVE Counted'
  BY <1>0, <1>4, Names, Given DEF BeginRefresh, UserTypes
<1>5. ASSUME NEW f \in Refreshes, RefreshAcquires(f) \/ EndRefresh(f) PROVE Counted'
  BY <1>0, <1>5, Names DEF RefreshAcquires, EndRefresh, keyVars, UserTypes
<1>6. ASSUME NEW u \in Users, UserStep(u) PROVE Counted'
  <2>1. Moves(u) /\ Apart(u) BY <1>6, UserMoves
  <2>2. CASE Enter(u) \/ EnterTimesOut(u) \/ Exit(u)
    <3>1. refs' = refs /\ pc[u] \in {"outside", "inside", "entering"}
      BY <2>2 DEF Enter, EnterTimesOut, Exit, keyVars
    <3>2. CASE EnterTimesOut(u)
      <4>1. pc'[u] # "starting"
        BY <1>0, <3>2, Returns, Depths DEF EnterTimesOut, UserTypes
      <4> QED BY <1>0, <2>1, <3>1, <4>1 DEF Apart
    <3>3. CASE Enter(u) \/ Exit(u)
      <4>1. pc[u] \in {"outside", "inside"} BY <3>3 DEF Enter, Exit
      <4>2. pc'[u] # "starting" BY <2>1, <4>1 DEF Moves
      <4> QED BY <1>0, <2>1, <3>1, <4>2 DEF Apart
    <3> QED BY <2>2, <3>2, <3>3
  <2>3. CASE EnterAcquires(u)
    <3>1. \A v \in Users \ {u} : pc[v] # "starting"
      BY <2>3, Solo DEF EnterAcquires
    <3>2. refs' = refs + 1 /\ pc[u] = "entering" /\ (pc'[u] = "starting" => refs' = 1)
      BY <1>0, <2>3, Returns, Depths DEF EnterAcquires, UserTypes
    <3> QED BY <1>0, <2>1, <3>1, <3>2 DEF Apart, KeyTypes
  <2>4. CASE Starts(u)
    <3>1. (refs' = refs \/ refs' = 0) /\ pc[u] = "starting"
      BY <2>4 DEF Starts, Discard
    <3> QED BY <1>0, <2>1, <3>1 DEF Apart, Moves
  <2>5. CASE StartFails(u)
    <3>1. refs' = 0 \/ (refs' = refs - 1 /\ ~(refs - 1 <= 0))
      BY <2>5 DEF StartFails, Discard
    <3>2. refs <= 1 /\ pc[u] = "starting" BY <2>5 DEF StartFails
    <3> QED BY <1>0, <2>1, <3>1, <3>2 DEF Apart, KeyTypes
  <2>6. CASE Discarded(u)
    <3>1. refs' = refs /\ pc[u] = "discarding" BY <2>6 DEF Discarded
    <3> QED BY <1>0, <2>1, <3>1 DEF Apart, Moves
  <2>7. CASE ExitAcquires(u)
    <3>1. /\ refs' = refs - 1 /\ pc[u] = "leaving"
          /\ refs - 1 <= 0 => pc'[u] = "stopping"
      BY <1>0, <2>7 DEF ExitAcquires, UserTypes
    <3> QED BY <1>0, <2>1, <3>1 DEF Apart, Moves, KeyTypes
  <2>8. CASE ExitTimesOut(u) \/ Stopped(u)
    <3>1. refs' = 0 BY <2>8 DEF ExitTimesOut, Stopped, Forget
    <3> QED BY <3>1
  <2> QED BY <1>6, <2>2, <2>3, <2>4, <2>5, <2>6, <2>7, <2>8 DEF UserStep
<1>7. ASSUME NEW c \in Closers, CloserStep(c) PROVE Counted'
  <2>1. CloserMoves(c) /\ pc' = pc BY <1>7, CloserEffect, CloserFrame
  <2>2. refs' = refs \/ refs' = 0 BY <2>1 DEF CloserMoves
  <2> QED BY <1>0, <2>1, <2>2
<1>8. ASSUME NEW c \in Clients, ConnectEnds(c) PROVE Counted'
  BY <1>0, <1>8 DEF ConnectEnds, userVars, keyVars
<1> QED BY <1>1, <1>2, <1>3, <1>4, <1>5, <1>6, <1>7, <1>8, Steps

\* Somebody is stopping the client.
Stopping(c) ==
    \/ \E e \in Closers : closing[e] = "stopping" /\ target[e] = c
    \/ \E u \in Users : pc[u] \in {"stopping", "discarding"} /\ my[u] = c

\* A connected client is registered or about to be stopped; so is one that
\* is being started, or it was closed before.  A client that was closed and is
\* still registered is being stopped by who closed it.
Known ==
    /\ \A c \in up \ (orphans \cup strays) : c = registered \/ Stopping(c)
    /\ \A u \in Users : pc[u] \in {"entering", "starting"} =>
          my[u] = registered \/ my[u] \in strays \cup retired
    /\ \A r \in Runs : closing[r] \in {"stopping", "done"} /\ my[r] = registered =>
          my[r] \in retired
    /\ registered \in retired => \E e \in Closers : closing[e] = "stopping" /\ target[e] = registered

\* get_client keeps Known: it replaces a client that is being stopped only.
LEMMA KnownGetClient ==
  ASSUME Typed, Turns, Known, NEW w \in Users, GetClient(w), pc[w] = "idle",
         pc'[w] \in {"outside", "queue"}, \A v \in Users \ {w} : pc'[v] = pc[v]
  PROVE  Known'
<1>0. UserTypes /\ CloserTypes /\ KeyTypes /\ ClientTypes /\ Places BY TypeParts DEF Typed
<1>1. /\ closing' = closing /\ target' = target
      /\ up' = up /\ retired' = retired /\ orphans' = orphans /\ strays' = strays
  BY Given
<1>2. /\ my'[w] = registered'
      /\ \A v \in Users \ {w} : my'[v] = my[v]
      /\ \/ registered' = registered /\ registered \notin retired
         \/ /\ registered' \in Clients \ made
            /\ registered = Nobody \/ registered \in retired
  BY <1>0, Given DEF UserTypes
<1>3. \A c \in Clients : Stopping(c) => Stopping(c)'
  BY <1>0, <1>1, <1>2 DEF Stopping
<1>4. (\A c \in up \ (orphans \cup strays) : c = registered \/ Stopping(c))'
  <2>1. SUFFICES ASSUME NEW c \in up \ (orphans \cup strays)
                 PROVE  c = registered' \/ Stopping(c)'
    BY <1>1
  <2>2. CASE c = registered
    <3>1. c \in retired => Stopping(c) BY <2>2 DEF Known, Stopping
    <3> QED BY <1>0, <1>2, <1>3, <2>2, <3>1, Names DEF ClientTypes
  <2>3. CASE c # registered
    BY <1>0, <1>3, <2>3 DEF Known, ClientTypes
  <2> QED BY <2>2, <2>3
<1>5. (\A u \in Users : pc[u] \in {"entering", "starting"} =>
          my[u] = registered \/ my[u] \in strays \cup retired)'
  <2>1. SUFFICES ASSUME NEW u \in Users, pc'[u] \in {"entering", "starting"}
                 PROVE  my'[u] = registered' \/ my'[u] \in strays \cup retired
    BY <1>1
  <2>2. u # w /\ pc[u] \in {"entering", "starting"} BY <2>1
  <2>3. my[u] \in made BY <1>0, <2>2 DEF Places
  <2> QED BY <1>0, <1>2, <2>2, <2>3, Names DEF Known, ClientTypes
<1>6. (\A r \in Runs : closing[r] \in {"stopping", "done"} /\ my[r] = registered =>
          my[r] \in retired)'
  <2>1. SUFFICES ASSUME NEW r \in Runs, closing[r] \in {"stopping", "done"}, my'[r] = registered'
                 PROVE  my'[r] \in retired
    BY <1>1
  <2>2. r # w /\ r \in Users /\ my[r] \in made BY <1>0, <2>1, Names DEF Turns, Places
  <2> QED BY <1>0, <1>2, <2>1, <2>2, Names DEF Known, UserTypes
<1>7. (registered \in retired => \E e \in Closers : closing[e] = "stopping" /\ target[e] = registered)'
  BY <1>0, <1>1, <1>2 DEF ClientTypes
<1> QED BY <1>4, <1>5, <1>6, <1>7 DEF Known

\* What a user's step does to the client it has.
Touches(u) ==
    \/ /\ pc[u] \in {"outside", "inside"} /\ up' = up /\ registered' = registered
       /\ strays' = strays \/ strays' = strays \cup {my[u]}
       /\ my[u] = registered \/ my[u] \in strays'
       /\ Enter(u)
    \/ /\ pc[u] \in {"entering", "inside", "leaving"}
       /\ up' = up /\ registered' = registered /\ strays' = strays
       /\ pc'[u] # "entering" /\ (pc'[u] = "starting" => pc[u] = "entering")
    \/ /\ pc[u] = "starting" /\ up' = up \cup {my[u]} /\ strays' = strays
       /\ \/ /\ my[u] \in retired /\ pc'[u] = "discarding" /\ refs' = 0
             /\ registered' = IF registered = my[u] THEN Nobody ELSE registered
          \/ /\ my[u] \notin retired /\ registered' = registered
             /\ depth'[u] = depth[u] + 1 /\ refs' = refs /\ pc'[u] = "inside"
    \/ /\ pc[u] = "starting" /\ (up' = up \/ up' = up \cup {my[u]})
       /\ pc'[u] = "discarding" /\ registered' = Nobody /\ refs' = 0
       /\ strays' = strays \cup ({registered} \ {my[u], Nobody})
    \/ /\ pc[u] \in {"discarding", "stopping"} /\ up' = up \ {my[u]} /\ strays' = strays
       /\ registered' = IF registered = my[u] /\ pc[u] = "stopping" THEN Nobody ELSE registered
       /\ pc'[u] \in {"outside", "inside"}

\* A user's step does no more than that to the clients.
LEMMA UserTouches ==
  ASSUME Typed, Counted, NEW u \in Users, UserStep(u)
  PROVE  Touches(u)
<1>0. UserTypes /\ KeyTypes BY TypeParts DEF Typed
<1> USE DEF Touches
<1>1. CASE Enter(u)
  BY <1>1 DEF Enter
<1>2. CASE EnterTimesOut(u)
  BY <1>0, <1>2, Returns, Depths DEF EnterTimesOut, UserTypes, keyVars, clientVars
<1>3. CASE EnterAcquires(u)
  BY <1>0, <1>3, Returns, Depths DEF EnterAcquires, UserTypes, clientVars
<1>4. CASE Starts(u)
  <2>1. CASE my[u] \in retired
    BY <1>0, <1>4, <2>1 DEF Starts, Discard, UserTypes
  <2>2. CASE my[u] \notin retired
    <3>1. /\ pc[u] = "starting" /\ up' = up \cup {my[u]} /\ strays' = strays
          /\ registered' = registered /\ refs' = refs /\ Back(u, depth[u] + 1)
      BY <1>4, <2>2 DEF Starts
    <3> QED BY <1>0, <2>2, <3>1, Returns, Depths DEF UserTypes
  <2> QED BY <2>1, <2>2
<1>5. CASE StartFails(u)
  <2>1. refs - 1 <= 0 BY <1>0, <1>5 DEF StartFails, Counted, KeyTypes
  <2> QED BY <1>0, <1>5, <2>1 DEF StartFails, Discard, UserTypes
<1>6. CASE Discarded(u)
  BY <1>0, <1>6, Returns, Depths DEF Discarded, UserTypes
<1>7. CASE Exit(u)
  BY <1>0, <1>7, Returns, Depths DEF Exit, UserTypes, keyVars, clientVars
<1>8. CASE ExitAcquires(u)
  BY <1>0, <1>8, Returns, Depths DEF ExitAcquires, UserTypes, clientVars
<1>9. CASE ExitTimesOut(u)
  BY <1>0, <1>9 DEF ExitTimesOut, UserTypes, clientVars
<1>10. CASE Stopped(u)
  BY <1>0, <1>10, Returns, Depths DEF Stopped, Forget, UserTypes
<1> QED BY <1>1, <1>2, <1>3, <1>4, <1>5, <1>6, <1>7, <1>8, <1>9, <1>10 DEF UserStep

\* A user's step keeps Known.
LEMMA KnownUserStep ==
  ASSUME Typed, Turns, Counted, Known, NEW u \in Users, UserStep(u)
  PROVE  Known'
<1>0. KeyTypes /\ ClientTypes /\ Places BY TypeParts DEF Typed
<1>1. /\ my' = my /\ closing' = closing /\ target' = target
      /\ retired' = retired /\ orphans' = orphans
  BY UserFrame
<1>2. Moves(u) /\ Apart(u) /\ Touches(u) BY UserMoves, UserTouches
<1>3. (\A c \in up \ (orphans \cup strays) : c = registered \/ Stopping(c))'
  <2>1. SUFFICES ASSUME NEW c \in up' \ (orphans \cup strays')
                 PROVE  c = registered' \/ Stopping(c)'
    BY <1>1
  <2>2. CASE c = my[u]
    <3>1. pc[u] \in {"stopping", "discarding"} => c \notin up' BY <1>2, <2>2 DEF Touches
    <3>2. CASE pc[u] = "starting" /\ my[u] \notin retired /\ registered' = registered /\ strays' = strays
      BY <2>1, <2>2, <3>2 DEF Known
    <3>3. CASE pc'[u] = "discarding"
      BY <1>1, <2>2, <3>3 DEF Stopping
    <3>4. CASE c \in up /\ registered' = registered /\ strays \subseteq strays'
                /\ pc[u] \notin {"stopping", "discarding"}
      BY <1>1, <1>2, <2>1, <3>4 DEF Known, Stopping, Apart
    <3> QED BY <1>2, <2>1, <2>2, <3>1, <3>2, <3>3, <3>4 DEF Touches
  <2>3. CASE c # my[u]
    <3>1. c \in up \ (orphans \cup strays) BY <1>2, <2>1, <2>3 DEF Touches
    <3>2. CASE c = registered
      <4>1. registered # Nobody /\ registered' \in {registered, Nobody}
        BY <1>0, <1>2, <2>1, <3>1, <3>2, Names DEF Touches, ClientTypes
      <4> QED BY <1>2, <2>1, <2>3, <3>2, <4>1 DEF Touches
    <3>3. CASE Stopping(c)
      BY <1>1, <1>2, <2>3, <3>3 DEF Stopping, Apart
    <3> QED BY <3>1, <3>2, <3>3 DEF Known
  <2> QED BY <2>2, <2>3
<1>4. (\A w \in Users : pc[w] \in {"entering", "starting"} =>
          my[w] = registered \/ my[w] \in strays \cup retired)'
  <2>1. SUFFICES ASSUME NEW w \in Users, pc'[w] \in {"entering", "starting"}
                 PROVE  my[w] = registered' \/ my[w] \in strays' \cup retired
    BY <1>1
  <2>2. CASE w = u
    BY <1>2, <2>1, <2>2 DEF Touches, Known, Moves
  <2>3. CASE w # u
    <3>1. pc[w] \in {"entering", "starting"} BY <1>2, <2>1, <2>3 DEF Apart
    <3>2. account = w /\ pc[u] \notin {"starting", "discarding"}
      BY <2>3, <3>1, Solo
    <3>3. strays \subseteq strays' BY <1>2 DEF Touches
    <3>4. CASE pc[u] = "stopping"
      <4>1. u \in Runs /\ closing[u] = "done" BY <2>3, <3>2, <3>4, Solo DEF Passive
      <4>2. my[u] = registered => my[u] \in retired BY <4>1 DEF Known
      <4>3. registered' = IF registered = my[u] THEN Nobody ELSE registered
        BY <1>2, <3>4 DEF Touches
      <4> QED BY <3>1, <3>3, <4>2, <4>3 DEF Known
    <3>5. CASE pc[u] # "stopping"
      <4>1. registered' = registered BY <1>2, <3>2, <3>5 DEF Touches
      <4> QED BY <3>1, <3>3, <4>1 DEF Known
    <3> QED BY <3>4, <3>5
  <2> QED BY <2>2, <2>3
<1>5. registered' = registered \/ registered' = Nobody
  BY <1>2 DEF Touches
<1>6. (\A r \in Runs : closing[r] \in {"stopping", "done"} /\ my[r] = registered =>
          my[r] \in retired)'
  <2>1. SUFFICES ASSUME NEW r \in Runs, closing[r] \in {"stopping", "done"}, my[r] = registered'
                 PROVE  my[r] \in retired
    BY <1>1
  <2>2. my[r] \in made BY <1>0, <2>1, Names DEF Turns, Places
  <2> QED BY <1>0, <1>5, <2>1, <2>2, Names DEF Known, ClientTypes
<1>7. (registered \in retired => \E e \in Closers : closing[e] = "stopping" /\ target[e] = registered)'
  BY <1>0, <1>1, <1>5, Names DEF ClientTypes, Known
<1> QED BY <1>3, <1>4, <1>6, <1>7 DEF Known

\* A step of close_client_by_name keeps Known.
LEMMA KnownCloserStep ==
  ASSUME Typed, Turns, Known, NEW c \in Closers, CloserStep(c)
  PROVE  Known'
<1>0. KeyTypes /\ ClientTypes /\ CloserTypes /\ Places BY TypeParts DEF Typed
<1>1. pc' = pc /\ my' = my /\ orphans' = orphans /\ strays' = strays
  BY CloserFrame
<1>2. CloserMoves(c) BY CloserEffect
<1>3. registered' = registered \/ (registered' = Nobody /\ registered \in retired')
         \/ (registered' = Nobody /\ registered = Nobody)
  BY <1>0, <1>2 DEF CloserMoves, Places
<1>4. (\A x \in up \ (orphans \cup strays) : x = registered \/ Stopping(x))'
  <2>1. SUFFICES ASSUME NEW x \in up' \ (orphans \cup strays)
                 PROVE  x = registered' \/ Stopping(x)'
    BY <1>1
  <2>2. x \in up /\ x # Nobody BY <1>0, <1>2, <2>1, Names DEF CloserMoves, ClientTypes
  <2>3. CASE x = registered
    BY <1>2, <2>1, <2>2, <2>3 DEF CloserMoves, Stopping
  <2>4. CASE Stopping(x)
    <3>1. CASE \E u \in Users : pc[u] \in {"stopping", "discarding"} /\ my[u] = x
      BY <1>1, <3>1 DEF Stopping
    <3>2. CASE \E e \in Closers : closing[e] = "stopping" /\ target[e] = x
      BY <1>2, <2>1, <3>2 DEF Stopping, CloserMoves
    <3> QED BY <2>4, <3>1, <3>2 DEF Stopping
  <2> QED BY <2>1, <2>2, <2>3, <2>4 DEF Known
<1>5. (\A w \in Users : pc[w] \in {"entering", "starting"} =>
          my[w] = registered \/ my[w] \in strays \cup retired)'
  <2>1. SUFFICES ASSUME NEW w \in Users, pc[w] \in {"entering", "starting"}
                 PROVE  my[w] = registered' \/ my[w] \in strays \cup retired'
    BY <1>1
  <2>2. retired \subseteq retired' BY <1>2 DEF CloserMoves
  <2>3. my[w] \in made BY <1>0, <2>1 DEF Places
  <2> QED BY <1>0, <1>3, <2>1, <2>2, <2>3, Names DEF Known, ClientTypes
<1>6. (\A r \in Runs : closing[r] \in {"stopping", "done"} /\ my[r] = registered =>
          my[r] \in retired)'
  <2>1. SUFFICES ASSUME NEW r \in Runs, closing'[r] \in {"stopping", "done"}, my[r] = registered'
                 PROVE  my[r] \in retired'
    BY <1>1
  <2>2. pc[r] # "idle" /\ r \in Users /\ r \in Closers
    BY <1>2, <2>1, Names DEF Turns, CloserMoves, MayClose
  <2>3. my[r] \in made /\ my[r] # Nobody BY <1>0, <2>2, Names DEF Places, ClientTypes
  <2>4. registered = my[r] BY <1>3, <2>1, <2>3
  <2>5. CASE r = c
    BY <1>2, <2>1, <2>3, <2>4, <2>5 DEF CloserMoves, Known
  <2>6. CASE r # c
    BY <1>2, <2>1, <2>2, <2>4, <2>6 DEF CloserMoves, Known
  <2> QED BY <2>5, <2>6
<1>7. (registered \in retired => \E e \in Closers : closing[e] = "stopping" /\ target[e] = registered)'
  <2>1. SUFFICES ASSUME registered' \in retired'
                 PROVE  \E e \in Closers : closing'[e] = "stopping" /\ target'[e] = registered'
    OBVIOUS
  <2>2. registered' = registered /\ registered # Nobody
    BY <1>0, <1>2, <1>3, <2>1, Names DEF ClientTypes, KeyTypes, CloserMoves
  <2>3. CASE registered \in retired
    <3>1. PICK e \in Closers : closing[e] = "stopping" /\ target[e] = registered
      BY <2>3 DEF Known
    <3>2. CASE e = c
      BY <1>2, <2>2, <3>1, <3>2 DEF CloserMoves
    <3>3. CASE e # c
      BY <1>2, <2>2, <3>1, <3>3 DEF CloserMoves
    <3> QED BY <3>2, <3>3
  <2>4. CASE registered \notin retired
    BY <1>2, <2>1, <2>2, <2>4 DEF CloserMoves
  <2> QED BY <2>3, <2>4
<1> QED BY <1>4, <1>5, <1>6, <1>7 DEF Known

\* What a cancellation does to the client the run has.
LEMMA CancelTouches ==
  ASSUME Typed, NEW r \in Runs, Cancel(r)
  PROVE  \/ /\ pc[r] \in {"entering", "inside", "leaving"}
            /\ up' = up /\ registered' = registered /\ orphans' = orphans /\ refs' = refs
         \/ /\ pc[r] = "starting" /\ orphans' = orphans \cup {my[r]}
            /\ up' = up /\ registered' = registered /\ refs' = refs
         \/ /\ pc[r] \in {"discarding", "stopping"} /\ up' = up \ {my[r]} /\ orphans' = orphans
            /\ registered' = IF registered = my[r] /\ pc[r] = "stopping" THEN Nobody ELSE registered
            /\ pc[r] = "stopping" => refs' = 0
            /\ pc[r] = "discarding" => refs' = refs
  BY DEF Cancel, Forget, keyVars

\* A cancellation keeps Known.
LEMMA KnownCancel ==
  ASSUME Typed, Turns, Known, NEW r \in Runs, Cancel(r)
  PROVE  Known'
<1>0. KeyTypes /\ ClientTypes /\ CloserTypes /\ UserTypes /\ Places BY TypeParts DEF Typed
<1>1. /\ \A v \in Users \ {r} : pc'[v] = pc[v]
      /\ pc[r] \in {"entering", "starting", "discarding", "inside", "leaving", "stopping"}
      /\ pc'[r] \in {"outside", "inside"} /\ account = r /\ r \in Users
      /\ my' = my /\ closing' = closing /\ target' = target
      /\ retired' = retired /\ strays' = strays
  BY <1>0, CancelMoves, Names DEF UserTypes
<1>2. registered' = registered \/ registered' = Nobody BY CancelTouches
<1>3. (\A x \in up \ (orphans \cup strays) : x = registered \/ Stopping(x))'
  <2>1. SUFFICES ASSUME NEW x \in up' \ (orphans' \cup strays)
                 PROVE  x = registered' \/ Stopping(x)'
    BY <1>1
  <2>2. x \in up \ (orphans \cup strays) /\ (x = registered => registered' = registered)
    BY <2>1, CancelTouches
  <2>3. CASE Stopping(x)
    <3>1. ~(pc[r] \in {"stopping", "discarding"} /\ my[r] = x) BY <2>1, CancelTouches
    <3> QED BY <1>1, <2>3, <3>1 DEF Stopping
  <2> QED BY <2>2, <2>3 DEF Known
<1>4. (\A w \in Users : pc[w] \in {"entering", "starting"} =>
          my[w] = registered \/ my[w] \in strays \cup retired)'
  <2>1. ASSUME NEW w \in Users, pc'[w] \in {"entering", "starting"} PROVE FALSE
    <3>1. w # r /\ pc[w] \in {"entering", "starting"} BY <1>1, <2>1
    <3> QED BY <1>1, <3>1, Solo
  <2> QED BY <2>1
<1>5. (\A q \in Runs : closing[q] \in {"stopping", "done"} /\ my[q] = registered =>
          my[q] \in retired)'
  <2>1. SUFFICES ASSUME NEW q \in Runs, closing[q] \in {"stopping", "done"}, my[q] = registered'
                 PROVE  my[q] \in retired
    BY <1>1
  <2>2. my[q] \in made BY <1>0, <2>1, Names DEF Turns, Places
  <2> QED BY <1>0, <1>2, <2>1, <2>2, Names DEF Known, ClientTypes
<1>6. (registered \in retired => \E e \in Closers : closing[e] = "stopping" /\ target[e] = registered)'
  BY <1>0, <1>1, <1>2, Names DEF ClientTypes, Known
<1> QED BY <1>3, <1>4, <1>5, <1>6 DEF Known

\* Every step keeps Known.
LEMMA KnownStep ==
  ASSUME Typed, Turns, Counted, Known, Next PROVE Known'
<1>0. UserTypes /\ ClientTypes /\ Places BY TypeParts DEF Typed
<1>1. ASSUME NEW r \in Runs, BeginRun(r) PROVE Known'
  BY <1>0, <1>1, Names, KnownGetClient DEF BeginRun, UserTypes
<1>2. ASSUME NEW f \in Refreshes, BeginRefresh(f) PROVE Known'
  BY <1>0, <1>2, Names, KnownGetClient DEF BeginRefresh, UserTypes
<1>3. ASSUME NEW r \in Runs, EndRun(r) PROVE Known'
  BY <1>3 DEF EndRun, userVars, closeVars, keyVars, Known, Stopping
<1>4. ASSUME NEW f \in Refreshes, RefreshAcquires(f) \/ EndRefresh(f) PROVE Known'
  <2>1. /\ \A v \in Users \ {f} : pc'[v] = pc[v]
        /\ pc[f] \in {"queue", "outside"} /\ pc'[f] \in {"outside", "over"}
    BY <1>0, <1>4, Names DEF RefreshAcquires, EndRefresh, UserTypes
  <2>2. /\ my' = my /\ closing' = closing /\ target' = target
        /\ up' = up /\ retired' = retired /\ orphans' = orphans /\ strays' = strays
        /\ registered' = registered
    BY <1>4 DEF RefreshAcquires, EndRefresh, closeVars, keyVars, clientVars
  <2>3. \A c \in up : Stopping(c) => Stopping(c)' BY <2>1, <2>2 DEF Stopping
  <2> QED BY <2>1, <2>2, <2>3 DEF Known
<1>5. ASSUME NEW c \in Clients, ConnectEnds(c) PROVE Known'
  <2>1. up' \ (orphans' \cup strays) \subseteq up \ (orphans \cup strays)
    BY <1>5 DEF ConnectEnds
  <2>2. /\ my' = my /\ closing' = closing /\ target' = target /\ pc' = pc
        /\ retired' = retired /\ strays' = strays /\ registered' = registered
    BY <1>5 DEF ConnectEnds, userVars, closeVars, keyVars
  <2>3. \A x \in up : Stopping(x) => Stopping(x)' BY <2>2 DEF Stopping
  <2> QED BY <2>1, <2>2, <2>3 DEF Known
<1> QED BY <1>1, <1>2, <1>3, <1>4, <1>5, KnownCancel, KnownUserStep, KnownCloserStep, Steps

\* The holder's worker has not begun to stop the client.
Open(h) == h \in Runs => closing[h] \in {"no", "waiting"}

\* What the count is when the holder alone uses the client.
Tally(h) ==
    IF pc[h] = "starting" THEN 1
    ELSE IF pc[h] \in {"discarding", "stopping"} THEN 0 ELSE depth[h]

\* Once closed the client has no count.  Until then, and until it is
\* cancelled, the holder has a client that is connected and not closed.
Holding(h) ==
    /\ ~Open(h) => refs <= 0
    /\ h \in Runs /\ Open(h) => my[h] \notin retired
    /\ Open(h) /\ ~cut[h] =>
         /\ refs = Tally(h)
         /\ pc[h] \in {"starting", "discarding"} => depth[h] = 0
         /\ pc[h] = "stopping" => depth[h] = 1
         /\ pc[h] # "stopping" /\ depth[h] > 0 => my[h] \in up \ retired
         /\ depth[h] > 0 \/ pc[h] \in {"entering", "starting"} =>
               my[h] \in strays \cup {registered} /\ current # Nobody

\* Why a client is connected: the holder is in it, or the holder's worker
\* will find it registered, or is stopping it.
Upheld(h, c) ==
    \/ ~cut[h] /\ Open(h) /\ my[h] = c /\ (depth[h] > 0 \/ pc[h] = "discarding")
    \/ cut[h] /\ Open(h) /\ registered = c
    \/ h \in Runs /\ closing[h] = "stopping" /\ target[h] = c

\* Until a signer is late or the account is deleted.
Quiet ==
    Undisturbed =>
      /\ account = Nobody => refs = 0
      /\ \A h \in Users : account = h => Holding(h)
      /\ \A c \in up \ (orphans \cup strays) : \E h \in Users : account = h /\ Upheld(h, c)

\* Until a signer is late, only the holder of the account is in a client.
LEMMA Calm ==
  ASSUME Typed, Turns, Undisturbed, NEW u \in Users, UserStep(u)
  PROVE  account = u
<1>0. Moves(u) BY UserMoves
<1>1. late = {} BY DEF Undisturbed
<1>2. CASE pc[u] \notin Passive BY <1>1, <1>2, Solo
<1>3. CASE pc[u] \in Passive
  <2>1. Enter(u) /\ pc[u] = "outside" BY <1>0, <1>3 DEF Moves, Passive
  <2>2. depth[u] = 0 BY <1>3 DEF Typed, Places
  <2>3. CASE u \in Runs BY <2>1, <2>2, <2>3 DEF Enter, MayEnter
  <2>4. CASE u \in Refreshes BY <2>1, <2>4 DEF Turns
  <2> QED BY <2>3, <2>4, Names
<1> QED BY <1>2, <1>3

\* The step of a holder that has not been cancelled.
LEMMA HolderStep ==
  ASSUME Typed, Turns, Owned, Counted, Known, Undisturbed,
         NEW u \in Users, UserStep(u), account = u, Holding(u), Open(u), ~cut[u]
  PROVE  /\ refs' = Tally(u)'
         /\ pc'[u] \in {"starting", "discarding"} => depth'[u] = 0
         /\ pc'[u] = "stopping" => depth'[u] = 1
         /\ pc'[u] # "stopping" /\ depth'[u] > 0 => my[u] \in up' \ retired
         /\ depth'[u] > 0 \/ pc'[u] \in {"entering", "starting"} =>
               my[u] \in strays' \cup {registered'} /\ current' # Nobody
         /\ pc[u] \notin {"discarding", "stopping"} /\ depth[u] > 0 => depth'[u] > 0
<1>0. UserTypes /\ KeyTypes /\ ClientTypes /\ Places BY TypeParts DEF Typed
<1>1. /\ refs = Tally(u)
      /\ pc[u] \in {"starting", "discarding"} => depth[u] = 0
      /\ pc[u] = "stopping" => depth[u] = 1
      /\ pc[u] # "stopping" /\ depth[u] > 0 => my[u] \in up \ retired
      /\ depth[u] > 0 \/ pc[u] \in {"entering", "starting"} =>
            my[u] \in strays \cup {registered} /\ current # Nobody
  BY DEF Holding
<1>2. depth[u] \in 0..2 BY Depths
<1>3. CASE Enter(u)
  <2>1. current' # Nobody BY <1>0, <1>3, FoundLock, Names DEF Enter, KeyTypes
  <2>2. /\ pc[u] \in {"outside", "inside"} /\ pc'[u] = "entering" /\ depth'[u] = depth[u]
        /\ refs' = refs /\ up' = up /\ registered' = registered
        /\ my[u] \in strays' \cup {registered}
    BY <1>0, <1>3 DEF Enter, UserTypes
  <2> QED BY <1>1, <1>2, <2>1, <2>2 DEF Tally
<1>4. CASE EnterTimesOut(u)
  <2>1. /\ pc[u] = "entering" /\ depth'[u] = depth[u]
        /\ depth[u] = 0 => pc'[u] = "outside"
        /\ depth[u] > 0 => pc'[u] = "inside"
    BY <1>0, <1>2, <1>4, Returns DEF EnterTimesOut, UserTypes
  <2>2. refs' = refs /\ up' = up /\ registered' = registered /\ strays' = strays /\ current' = current
    BY <1>4 DEF EnterTimesOut, keyVars, clientVars
  <2> QED BY <1>1, <1>2, <2>1, <2>2 DEF Tally
<1>5. CASE EnterAcquires(u)
  <2>1. /\ pc[u] = "entering" /\ refs' = refs + 1
        /\ up' = up /\ registered' = registered /\ strays' = strays /\ current' = current
    BY <1>5 DEF EnterAcquires, clientVars
  <2>2. CASE refs + 1 = 1
    <3>1. pc'[u] = "starting" /\ depth'[u] = depth[u]
      BY <1>0, <1>5, <2>2 DEF EnterAcquires, UserTypes
    <3> QED BY <1>1, <1>2, <2>1, <2>2, <3>1 DEF Tally
  <2>3. CASE refs + 1 # 1
    <3>1. pc'[u] = "inside" /\ depth'[u] = depth[u] + 1
      BY <1>0, <1>2, <1>5, <2>3, Depths, Returns DEF EnterAcquires, UserTypes
    <3> QED BY <1>1, <1>2, <2>1, <2>3, <3>1 DEF Tally
  <2> QED BY <2>2, <2>3
<1>6. CASE Starts(u)
  <2>1. pc[u] = "starting" /\ up' = up \cup {my[u]} /\ strays' = strays /\ current' = current
    BY <1>6 DEF Starts
  <2>2. CASE my[u] \in retired
    <3>1. pc'[u] = "discarding" /\ depth'[u] = depth[u] /\ refs' = 0
      BY <1>0, <1>6, <2>2 DEF Starts, Discard, UserTypes
    <3> QED BY <1>1, <2>1, <3>1 DEF Tally
  <2>3. CASE my[u] \notin retired
    <3>1. /\ pc'[u] = "inside" /\ depth'[u] = depth[u] + 1 /\ refs' = refs
          /\ registered' = registered
      BY <1>0, <1>2, <1>6, <2>3, Depths, Returns DEF Starts, UserTypes
    <3> QED BY <1>1, <2>1, <2>3, <3>1 DEF Tally
  <2> QED BY <2>2, <2>3
<1>7. CASE StartFails(u)
  <2>1. refs - 1 <= 0 BY <1>0, <1>7 DEF StartFails, Counted, KeyTypes
  <2>2. /\ pc[u] = "starting" /\ pc'[u] = "discarding" /\ depth'[u] = depth[u] /\ refs' = 0
    BY <1>0, <1>7, <2>1 DEF StartFails, Discard, UserTypes
  <2> QED BY <1>1, <2>2 DEF Tally
<1>8. CASE Discarded(u)
  <2>1. pc[u] = "discarding" /\ depth'[u] = depth[u] /\ refs' = refs /\ pc'[u] \in {"outside", "inside"}
    BY <1>0, <1>2, <1>8, Returns DEF Discarded, UserTypes
  <2> QED BY <1>1, <2>1 DEF Tally
<1>9. CASE Exit(u)
  <2>1. pc[u] = "inside" /\ depth[u] > 0 BY <1>0, <1>9 DEF Exit, Places
  <2>2. current # Nobody BY <1>1, <2>1
  <2>3. /\ pc'[u] = "leaving" /\ depth'[u] = depth[u] /\ refs' = refs /\ up' = up
        /\ registered' = registered /\ strays' = strays /\ current' = current
    BY <1>0, <1>9, <2>2 DEF Exit, UserTypes, keyVars, clientVars
  <2> QED BY <1>1, <2>1, <2>3 DEF Tally
<1>10. CASE ExitAcquires(u)
  <2>1. /\ pc[u] = "leaving" /\ depth[u] > 0 /\ refs' = refs - 1
        /\ up' = up /\ registered' = registered /\ strays' = strays /\ current' = current
    BY <1>0, <1>10 DEF ExitAcquires, Places, clientVars
  <2>2. CASE refs - 1 <= 0
    <3>1. pc'[u] = "stopping" /\ depth'[u] = depth[u]
      BY <1>0, <1>10, <2>2 DEF ExitAcquires, UserTypes
    <3> QED BY <1>1, <1>2, <2>1, <2>2, <3>1 DEF Tally
  <2>3. CASE ~(refs - 1 <= 0)
    <3>1. Back(u, depth[u] - 1) /\ depth[u] - 1 \in 0..2
      BY <1>10, <2>3, Depths DEF ExitAcquires
    <3>2. refs = depth[u] BY <1>1, <2>1 DEF Tally
    <3>3. depth[u] - 1 > 0 BY <1>2, <2>3, <3>2
    <3>4. depth'[u] = depth[u] - 1 /\ pc'[u] = "inside"
      BY <1>0, <3>1, <3>3, Returns DEF UserTypes
    <3> QED BY <1>1, <1>2, <2>1, <3>2, <3>3, <3>4 DEF Tally
  <2> QED BY <2>2, <2>3
<1>11. CASE ExitTimesOut(u)
  <2>1. pc[u] = "leaving" /\ lk[u] \in Locks /\ owner[lk[u]] # Nobody
    BY <1>0, <1>11 DEF ExitTimesOut, Places
  <2>2. ASSUME NEW v \in Users, pc[v] \in {"starting", "discarding", "stopping"} PROVE FALSE
    <3>1. account # v => v \in late BY <2>2, Solo DEF Passive
    <3>2. account # v BY <2>1, <2>2
    <3> QED BY <3>1, <3>2 DEF Undisturbed
  <2>3. ASSUME NEW e \in Closers, closing[e] = "stopping" PROVE FALSE
    <3>1. e \in Runs BY <2>3, Names DEF Undisturbed
    <3>2. e = u BY <2>3, <3>1 DEF Turns
    <3> QED BY <2>3, <3>1, <3>2 DEF Open
  <2> QED BY <2>1, <2>2, <2>3 DEF Owned
<1>12. CASE Stopped(u)
  <2>1. Back(u, depth[u] - 1) /\ refs' = 0 /\ pc[u] = "stopping" BY <1>12 DEF Stopped, Forget
  <2>2. depth[u] - 1 = 0 BY <1>1, <2>1
  <2>3. depth'[u] = 0 /\ pc'[u] = "outside"
    BY <1>0, <2>1, <2>2, Returns DEF UserTypes
  <2> QED BY <2>1, <2>3 DEF Tally
<1> QED BY <1>3, <1>4, <1>5, <1>6, <1>7, <1>8, <1>9, <1>10, <1>11, <1>12 DEF UserStep

\* The holder's step keeps Quiet.
LEMMA QuietUserStep ==
  ASSUME Typed, Turns, Owned, Counted, Known, Quiet, Undisturbed,
         NEW u \in Users, UserStep(u)
  PROVE  Quiet'
<1>0. KeyTypes /\ ClientTypes /\ Places /\ u # Nobody BY TypeParts, Names DEF Typed
<1>1. account = u BY Calm
<1>2. Holding(u) BY <1>1 DEF Quiet
<1>3. /\ account' = account /\ my' = my /\ cut' = cut
      /\ closing' = closing /\ target' = target
      /\ retired' = retired /\ orphans' = orphans
  BY UserFrame
<1>4. Moves(u) /\ Touches(u) BY UserMoves, UserTouches
<1>5. Open(u)' <=> Open(u) BY <1>3 DEF Open
<1>6. ~Open(u) => refs' <= 0
  <2>1. SUFFICES ASSUME ~Open(u) PROVE refs' <= 0
    OBVIOUS
  <2>2. refs <= 0 /\ refs \in Int BY <1>0, <1>2, <2>1 DEF Holding, KeyTypes
  <2>3. pc[u] \notin {"entering", "starting", "discarding"} BY <2>1, Solo DEF Open
  <2>4. refs' \in {refs, refs - 1, 0}
    BY <2>3 DEF UserStep, Enter, EnterTimesOut, EnterAcquires, Starts, StartFails,
       Discarded, Exit, ExitAcquires, ExitTimesOut, Stopped, Forget, keyVars
  <2> QED BY <2>2, <2>4
<1>7. u \in Runs /\ Open(u) => my[u] \notin retired BY <1>2 DEF Holding
<1>8. Holding(u)'
  <2>1. CASE Open(u) /\ ~cut[u]
    BY <1>1, <1>2, <1>3, <1>5, <1>7, <2>1, HolderStep DEF Holding
  <2>2. CASE ~(Open(u) /\ ~cut[u])
    BY <1>3, <1>5, <1>6, <1>7, <2>2 DEF Holding
  <2> QED BY <2>1, <2>2
<1>9. ASSUME NEW c \in up' \ (orphans \cup strays')
      PROVE  Upheld(u, c)'
  <2>1. c \in up \ (orphans \cup strays) => Upheld(u, c)
    BY <1>1 DEF Quiet
  <2>2. c # Nobody /\ (c = my[u] => pc[u] \notin {"discarding", "stopping"})
    BY <1>0, <1>4, <1>9, Names DEF Touches, ClientTypes, Places
  <2>3. CASE c \notin up \ (orphans \cup strays)
    <3>1. pc[u] = "starting" /\ c = my[u] BY <1>4, <1>9, <2>3 DEF Touches
    <3>2. ~cut[u] /\ Open(u) /\ depth[u] \in 0..2 BY <3>1, Solo, Depths DEF Open
    <3>3. pc'[u] = "discarding" \/ depth'[u] > 0 BY <1>4, <3>1, <3>2 DEF Touches
    <3> QED BY <1>3, <1>5, <3>1, <3>2, <3>3 DEF Upheld
  <2>4. CASE c \in up \ (orphans \cup strays)
    <3>1. CASE u \in Runs /\ closing[u] = "stopping" /\ target[u] = c
      BY <1>3, <3>1 DEF Upheld
    <3>2. CASE cut[u] /\ Open(u) /\ registered = c
      <4>1. pc[u] \notin {"entering", "starting"} /\ ~Enter(u)
        BY <3>2, Solo DEF Enter, MayEnter
      <4>2. registered' = registered BY <1>4, <2>2, <3>2, <4>1 DEF Touches
      <4> QED BY <1>3, <1>5, <3>2, <4>2 DEF Upheld
    <3>3. CASE ~cut[u] /\ Open(u) /\ my[u] = c /\ (depth[u] > 0 \/ pc[u] = "discarding")
      <4>1. depth[u] > 0 /\ pc[u] \notin {"discarding", "stopping"} BY <2>2, <3>3
      <4>2. depth'[u] > 0 BY <1>1, <1>2, <3>3, <4>1, HolderStep
      <4> QED BY <1>3, <1>5, <3>3, <4>2 DEF Upheld
    <3> QED BY <2>1, <2>4, <3>1, <3>2, <3>3 DEF Upheld
  <2> QED BY <2>3, <2>4
<1> QED BY <1>0, <1>1, <1>3, <1>8, <1>9 DEF Quiet

\* Its worker's closing keeps Quiet.
LEMMA QuietCloserStep ==
  ASSUME Typed, Turns, Quiet, Undisturbed, Undisturbed',
         NEW c \in Closers, CloserStep(c)
  PROVE  Quiet'
<1>0. KeyTypes /\ ClientTypes /\ CloserTypes /\ Places BY TypeParts DEF Typed
<1>1. CloserMoves(c) BY CloserEffect
<1>2. /\ account' = account /\ pc' = pc /\ my' = my /\ depth' = depth /\ cut' = cut
      /\ orphans' = orphans /\ strays' = strays
  BY CloserFrame
<1>3. c \in Runs /\ c \in Users
  <2>1. closing'[c] # "no" BY <1>1 DEF CloserMoves
  <2> QED BY <2>1, Names DEF Undisturbed
<1>4. account = c /\ (pc[c] = "outside" \/ cut[c])
  BY <1>1, <1>3 DEF CloserMoves, MayClose, Turns
<1>5. Holding(c) /\ c # Nobody BY <1>3, <1>4, Names DEF Quiet
<1>6. ASSUME NEW x \in up \ (orphans \cup strays) PROVE Upheld(c, x) /\ x # Nobody
  BY <1>0, <1>4, Names DEF Quiet, ClientTypes
<1>7. CASE closing[c] = "no" /\ closing'[c] = "waiting"
  <2>1. /\ registered' = registered /\ refs' = refs /\ up' = up /\ retired' = retired
        /\ current' = current /\ Open(c) /\ Open(c)' /\ closing[c] # "stopping"
    BY <1>1, <1>7 DEF CloserMoves, Open
  <2>2. Holding(c)' BY <1>2, <1>5, <2>1 DEF Holding, Tally
  <2>3. ASSUME NEW x \in up \ (orphans \cup strays) PROVE Upheld(c, x)'
    BY <1>2, <1>6, <2>1, <2>3 DEF Upheld
  <2> QED BY <1>2, <1>4, <1>5, <2>1, <2>2, <2>3 DEF Quiet
<1>8. CASE ~(closing[c] = "no" /\ closing'[c] = "waiting")
  <2>1. ~Open(c)' BY <1>1, <1>3, <1>8 DEF CloserMoves, Open
  <2>2. refs' <= 0
    BY <1>0, <1>1, <1>3, <1>5, <1>8 DEF CloserMoves, Holding, Open, KeyTypes
  <2>3. Holding(c)' BY <2>1, <2>2 DEF Holding
  <2>4. ASSUME NEW x \in up' \ (orphans \cup strays) PROVE Upheld(c, x)'
    <3>1. x \in up \ (orphans \cup strays) BY <1>1, <2>4 DEF CloserMoves
    <3>2. CASE closing[c] = "stopping"
      <4>1. x = target[c] BY <1>3, <1>6, <3>1, <3>2 DEF Upheld, Open
      <4> QED BY <1>1, <2>4, <3>2, <4>1 DEF CloserMoves
    <3>3. CASE closing[c] # "stopping"
      <4>1. cut[c] => registered = x BY <1>6, <3>1, <3>3 DEF Upheld
      <4>2. cut[c]
        <5>1. SUFFICES ASSUME ~cut[c] PROVE FALSE
          OBVIOUS
        <5>2. pc[c] = "outside" /\ depth[c] = 0 BY <1>0, <1>3, <1>4, <5>1 DEF Places, Passive
        <5> QED BY <1>6, <3>1, <3>3, <5>1, <5>2 DEF Upheld
      <4>3. closing'[c] = "stopping" /\ target'[c] = x
        BY <1>1, <1>6, <1>8, <3>1, <3>3, <4>1, <4>2 DEF CloserMoves
      <4> QED BY <1>3, <4>3 DEF Upheld
    <3> QED BY <3>2, <3>3
  <2> QED BY <1>2, <1>3, <1>4, <1>5, <2>3, <2>4 DEF Quiet
<1> QED BY <1>7, <1>8

\* Its cancellation keeps Quiet.
LEMMA QuietCancel ==
  ASSUME Typed, Turns, Quiet, Undisturbed, NEW r \in Runs, Cancel(r)
  PROVE  Quiet'
<1>0. UserTypes /\ r \in Users /\ r # Nobody BY TypeParts, Names DEF Typed
<1>1. /\ cut'[r] /\ account = r /\ closing[r] = "no" /\ ~cut[r]
      /\ account' = account /\ my' = my /\ closing' = closing /\ target' = target
      /\ retired' = retired /\ strays' = strays
  BY CancelMoves
<1>2. Holding(r) /\ Open(r) /\ Open(r)' BY <1>0, <1>1 DEF Quiet, Open
<1>3. Holding(r)' BY <1>1, <1>2 DEF Holding
<1>4. ASSUME NEW c \in up' \ (orphans' \cup strays)
      PROVE  Upheld(r, c)'
  <2>1. c \in up \ (orphans \cup strays) BY <1>4, CancelTouches
  <2>2. my[r] = c /\ (depth[r] > 0 \/ pc[r] = "discarding")
    BY <1>1, <2>1 DEF Quiet, Upheld
  <2>3. pc[r] \notin {"starting", "discarding", "stopping"} BY <1>4, <2>2, CancelTouches
  <2>4. registered = c BY <1>1, <1>2, <2>1, <2>2, <2>3 DEF Holding
  <2>5. registered' = c BY <2>3, <2>4, CancelTouches
  <2> QED BY <1>1, <1>2, <2>5 DEF Upheld
<1> QED BY <1>0, <1>1, <1>3, <1>4 DEF Quiet

\* Every step keeps Quiet, and what is undisturbed after it was so before.
LEMMA QuietStep ==
  ASSUME Typed, Turns, Owned, Counted, Known, Quiet, Next, Undisturbed'
  PROVE  Quiet' /\ Undisturbed
<1>0. UserTypes /\ ClientTypes /\ CloserTypes /\ KeyTypes /\ Places BY TypeParts DEF Typed
<1>1. late' = {} /\ \A d \in Deletions : closing'[d] = "no" BY DEF Undisturbed
<1>2. ASSUME NEW u \in Users, UserStep(u) PROVE Quiet' /\ Undisturbed
  <2>1. Undisturbed BY <1>1, <1>2, UserFrame DEF Undisturbed
  <2> QED BY <1>2, <2>1, QuietUserStep
<1>3. ASSUME NEW c \in Closers, CloserStep(c) PROVE Quiet' /\ Undisturbed
  <2>1. CloserMoves(c) /\ late' = late BY <1>3, CloserEffect, CloserFrame
  <2>2. \A d \in Deletions : closing[d] = "no"
    BY <1>1, <2>1, Names DEF CloserMoves
  <2>3. Undisturbed BY <1>1, <2>1, <2>2 DEF Undisturbed
  <2> QED BY <1>3, <2>3, QuietCloserStep
<1>4. ASSUME NEW r \in Runs, Cancel(r) PROVE Quiet' /\ Undisturbed
  <2>1. Undisturbed BY <1>1, <1>4, CancelMoves DEF Undisturbed
  <2> QED BY <1>4, <2>1, QuietCancel
<1>5. ASSUME NEW r \in Runs, BeginRun(r) PROVE Quiet' /\ Undisturbed
  <2>1. /\ GetClient(r) /\ r \in Users /\ pc[r] = "idle" /\ account = Nobody /\ account' = r
        /\ pc'[r] = "outside"
    BY <1>0, <1>5, Names DEF BeginRun, UserTypes
  <2>2. /\ depth' = depth /\ cut' = cut /\ closing' = closing /\ refs' = refs /\ up' = up
        /\ retired' = retired /\ orphans' = orphans /\ strays' = strays /\ late' = late
    BY <2>1, Given
  <2>3. Undisturbed BY <1>1, <2>2 DEF Undisturbed
  <2>4. refs = 0 /\ up \ (orphans \cup strays) = {}
    BY <2>1, <2>3, Names DEF Quiet
  <2>5. depth[r] = 0 /\ ~cut[r] /\ closing[r] = "no"
    BY <1>0, <2>1 DEF Places, Passive, Turns
  <2>6. my'[r] \notin retired
    BY <1>0, <2>1, Given DEF UserTypes, ClientTypes
  <2>7. Holding(r)' BY <2>1, <2>2, <2>4, <2>5, <2>6 DEF Holding, Open, Tally
  <2> QED BY <2>1, <2>2, <2>3, <2>4, <2>7, Names DEF Quiet
<1>6. ASSUME NEW r \in Runs, EndRun(r) PROVE Quiet' /\ Undisturbed
  <2>1. /\ account = r /\ account' = Nobody /\ closing[r] = "done" /\ r \in Users
        /\ refs' = refs /\ up' = up /\ orphans' = orphans /\ strays' = strays
        /\ late = {} /\ pc[r] = "outside" /\ closing' = closing
    BY <1>1, <1>6, Names DEF EndRun, keyVars, closeVars
  <2>2. Undisturbed BY <1>1, <2>1 DEF Undisturbed
  <2>3. ~Open(r) BY <2>1 DEF Open
  <2>4. refs <= 0 BY <2>1, <2>2, <2>3 DEF Quiet, Holding
  <2>5. ~(refs < 0)
    <3>1. SUFFICES ASSUME NEW u \in Users, pc[u] = "stopping" PROVE FALSE
      BY DEF Counted
    <3>2. account # u BY <2>1, <3>1
    <3>3. u \in late BY <3>1, <3>2, Solo DEF Passive
    <3> QED BY <2>1, <3>3
  <2>6. refs = 0 BY <1>0, <2>4, <2>5 DEF KeyTypes
  <2>7. up \ (orphans \cup strays) = {}
    BY <2>1, <2>2, <2>3 DEF Quiet, Upheld
  <2> QED BY <2>1, <2>2, <2>6, <2>7, Names DEF Quiet
<1>7. ASSUME NEW f \in Refreshes, BeginRefresh(f) PROVE Quiet' /\ Undisturbed
  <2>1. GetClient(f) /\ f \in Users /\ account = Nobody /\ account' = account
    BY <1>7, Names DEF BeginRefresh
  <2>2. /\ closing' = closing /\ refs' = refs /\ up' = up
        /\ orphans' = orphans /\ strays' = strays /\ late' = late
    BY <2>1, Given
  <2>3. Undisturbed BY <1>1, <2>2 DEF Undisturbed
  <2>4. refs = 0 /\ up \ (orphans \cup strays) = {}
    BY <2>1, <2>3, Names DEF Quiet
  <2> QED BY <2>1, <2>2, <2>3, <2>4, Names DEF Quiet
<1>8. ASSUME NEW f \in Refreshes, RefreshAcquires(f) PROVE Quiet' /\ Undisturbed
  <2>1. /\ f \in Users /\ f \notin Runs /\ pc[f] = "queue" /\ account = Nobody /\ account' = f
        /\ pc'[f] = "outside" /\ depth' = depth /\ cut' = cut /\ closing' = closing
        /\ refs' = refs /\ up' = up /\ orphans' = orphans /\ strays' = strays /\ late' = late
    BY <1>0, <1>8, Names DEF RefreshAcquires, UserTypes, closeVars, keyVars, clientVars
  <2>2. Undisturbed BY <1>1, <2>1 DEF Undisturbed
  <2>3. refs = 0 /\ up \ (orphans \cup strays) = {}
    BY <2>1, <2>2, Names DEF Quiet
  <2>4. depth[f] = 0 BY <1>0, <2>1 DEF Places, Passive
  <2>5. Holding(f)' BY <2>1, <2>3, <2>4 DEF Holding, Open, Tally
  <2> QED BY <2>1, <2>2, <2>3, <2>5, Names DEF Quiet
<1>9. ASSUME NEW f \in Refreshes, EndRefresh(f) PROVE Quiet' /\ Undisturbed
  <2>1. /\ f \in Users /\ f \notin Runs /\ pc[f] = "outside" /\ account' = Nobody
        /\ closing' = closing
        /\ refs' = refs /\ up' = up /\ orphans' = orphans /\ strays' = strays /\ late' = late
    BY <1>0, <1>9, Names DEF EndRefresh, closeVars, keyVars, clientVars
  <2>2. Undisturbed BY <1>1, <2>1 DEF Undisturbed
  <2>3. account = f /\ ~cut[f] /\ depth[f] = 0
    BY <1>0, <1>9, <2>1 DEF Turns, Places, Passive
  <2>4. refs = 0 BY <2>1, <2>2, <2>3 DEF Quiet, Holding, Open, Tally
  <2>5. up \ (orphans \cup strays) = {}
    BY <2>1, <2>2, <2>3 DEF Quiet, Upheld
  <2> QED BY <2>1, <2>2, <2>4, <2>5, Names DEF Quiet
<1>10. ASSUME NEW c \in Clients, ConnectEnds(c) PROVE Quiet' /\ Undisturbed
  <2>1. up' \ (orphans' \cup strays) \subseteq up \ (orphans \cup strays) /\ up \subseteq up'
    BY <1>10 DEF ConnectEnds
  <2>2. /\ account' = account /\ pc' = pc /\ my' = my /\ depth' = depth /\ cut' = cut
        /\ closing' = closing /\ target' = target
        /\ registered' = registered /\ refs' = refs /\ current' = current
        /\ retired' = retired /\ strays' = strays /\ late' = late
    BY <1>10 DEF ConnectEnds, userVars, closeVars, keyVars
  <2>3. Undisturbed BY <1>1, <2>2 DEF Undisturbed
  <2>4. \A h \in Users : Holding(h) => Holding(h)'
    BY <2>1, <2>2 DEF Holding, Open, Tally
  <2>5. \A h \in Users, x \in up : Upheld(h, x) => Upheld(h, x)'
    BY <2>2 DEF Upheld, Open
  <2> QED BY <2>1, <2>2, <2>3, <2>4, <2>5 DEF Quiet
<1> QED BY <1>2, <1>3, <1>4, <1>5, <1>6, <1>7, <1>8, <1>9, <1>10, Steps

\* The inductive invariant.
Inv == Typed /\ Turns /\ Owned /\ Counted /\ Known /\ Quiet

\* The invariant holds at the start.
LEMMA InvInit == Init => Inv
<1> SUFFICES ASSUME Init PROVE Inv
  OBVIOUS
<1>1. Typed BY TypesInit DEF Typed
<1>2. Turns BY Names DEF Init, Turns
<1>3. Owned BY DEF Init, Owned
<1>4. Counted BY DEF Init, Counted
<1>5. Known BY Names DEF Init, Known
<1>6. Quiet BY Names DEF Init, Quiet
<1> QED BY <1>1, <1>2, <1>3, <1>4, <1>5, <1>6 DEF Inv

\* Every step keeps the invariant.
LEMMA InvStep == Inv /\ [Next]_vars => Inv'
<1> SUFFICES ASSUME Inv, [Next]_vars PROVE Inv'
  OBVIOUS
<1> USE DEF Inv
<1>1. CASE Next
  <2>1. Typed'
    <3>1. UserTypes' /\ CloserTypes' /\ KeyTypes' /\ ClientTypes' /\ Places'
      BY <1>1, UserTypesStep, CloserTypesStep, KeyTypesStep, ClientTypesStep, PlacesStep
    <3>2. TypeOK' BY <3>1 DEF TypeOK, UserTypes, CloserTypes, KeyTypes, ClientTypes
    <3> QED BY <3>1, <3>2 DEF Typed
  <2>2. Turns' BY <1>1, TurnsStep
  <2>3. Owned' BY <1>1, OwnedStep
  <2>4. Counted' BY <1>1, CountedStep
  <2>5. Known' BY <1>1, KnownStep
  <2>6. Quiet'
    <3>1. CASE Undisturbed' BY <1>1, <3>1, QuietStep
    <3>2. CASE ~Undisturbed' BY <3>2 DEF Quiet
    <3> QED BY <3>1, <3>2
  <2> QED BY <2>1, <2>2, <2>3, <2>4, <2>5, <2>6
<1>2. CASE UNCHANGED vars
  <2> USE DEF vars, userVars, closeVars, keyVars, clientVars
  <2>1. Typed' BY <1>2 DEF Typed, TypeOK, Places
  <2>2. Turns' BY <1>2 DEF Turns
  <2>3. Owned' BY <1>2 DEF Owned
  <2>4. Counted' BY <1>2 DEF Counted
  <2>5. Known' BY <1>2 DEF Known, Stopping
  <2>6. Quiet' BY <1>2 DEF Quiet, Undisturbed, Holding, Upheld, Open, Tally
  <2> QED BY <2>1, <2>2, <2>3, <2>4, <2>5, <2>6
<1> QED BY <1>1, <1>2

\* So it holds in every reachable state.
THEOREM InvHolds == Spec => []Inv
  BY InvInit, InvStep, PTL DEF Spec

\* The variables have their values in every reachable state.
THEOREM TypeCorrect == Spec => []TypeOK
<1>1. Inv => TypeOK BY DEF Inv, Typed
<1> QED BY <1>1, InvHolds, PTL

\* While no signer is late and the account is not deleted, who holds the
\* account's lock and enters its client gets one that is connected and that
\* nobody has closed.
THEOREM ClientsHandedOutAlive == Spec => HandedOutAlive
<1>1. ASSUME Inv, Next, NEW u \in Users, depth'[u] > depth[u], account = u, Undisturbed
      PROVE  my[u] \in up' \ retired
  <2>0. Typed /\ Turns /\ Owned /\ Counted /\ Known /\ Quiet /\ UserTypes
    BY <1>1, TypeParts DEF Inv, Typed
  <2>1. depth[u] \in 0..2 BY <2>0, Depths
  <2>2. ASSUME NEW w \in Users, UserStep(w) PROVE my[u] \in up' \ retired
    <3>1. Moves(w) /\ Apart(w) BY <2>0, <2>2, UserMoves
    <3>2. u = w BY <1>1, <2>1, <3>1 DEF Apart
    <3>3. pc[u] \in {"entering", "starting"} /\ depth'[u] > 0 /\ pc'[u] # "stopping"
      BY <1>1, <2>1, <3>1, <3>2 DEF Moves
    <3>4. Open(u) /\ ~cut[u] /\ Holding(u) BY <1>1, <2>0, <3>3, Solo DEF Open, Quiet
    <3> QED BY <1>1, <2>0, <2>2, <3>2, <3>3, <3>4, HolderStep
  <2>3. ASSUME depth' = depth PROVE my[u] \in up' \ retired
    BY <1>1, <2>1, <2>3
  <2>4. ASSUME NEW r \in Runs, Cancel(r) PROVE my[u] \in up' \ retired
    <3>1. depth'[u] <= depth[u] BY <2>0, <2>1, <2>4, CancelMoves
    <3> QED BY <1>1, <2>1, <3>1, <2>0, <2>4, CancelMoves DEF UserTypes
  <2>5. ASSUME NEW r \in Runs, BeginRun(r) \/ EndRun(r) PROVE depth' = depth
    BY <2>5, Given, Names DEF BeginRun, EndRun, userVars
  <2>6. ASSUME NEW f \in Refreshes, BeginRefresh(f) \/ RefreshAcquires(f) \/ EndRefresh(f)
        PROVE  depth' = depth
    BY <2>6, Given, Names DEF BeginRefresh, RefreshAcquires, EndRefresh
  <2>7. ASSUME NEW c \in Closers, CloserStep(c) PROVE depth' = depth
    BY <2>7, CloserFrame
  <2>8. ASSUME NEW c \in Clients, ConnectEnds(c) PROVE depth' = depth
    BY <2>8 DEF ConnectEnds, userVars
  <2> QED BY <1>1, <2>2, <2>3, <2>4, <2>5, <2>6, <2>7, <2>8, Steps
<1>2. Inv /\ [Next]_vars =>
        [\A u \in Users :
           depth'[u] > depth[u] /\ account = u /\ Undisturbed => my[u] \in up' \ retired]_vars
  BY <1>1
<1> QED BY <1>2, InvHolds, PTL DEF Spec, HandedOutAlive

\* The client that the holder of the account's lock is in, and shares with
\* nobody, is stopped by the holder, its worker or a deletion only.
THEOREM HoldersClientsAreTheirs == Spec => StoppedByItsOwn
<1>1. ASSUME Inv, Next, NEW u \in Users,
             account = u, depth[u] > 0, my[u] \in up \ up', ~Shared(u)
      PROVE  \/ pc[u] \in {"stopping", "discarding"}
             \/ \E c \in Deletions \cup ({u} \cap Runs) : closing[c] = "stopping"
  <2>0. Typed /\ Turns /\ Counted BY <1>1 DEF Inv
  <2>1. ASSUME NEW w \in Users, UserStep(w) PROVE pc[u] \in {"stopping", "discarding"}
    <3>1. Touches(w) BY <2>0, <2>1, UserTouches
    <3>2. my[w] = my[u] /\ pc[w] \in {"stopping", "discarding"} BY <1>1, <3>1 DEF Touches
    <3> QED BY <1>1, <3>2 DEF Shared
  <2>2. ASSUME NEW c \in Closers, CloserStep(c)
        PROVE  \E e \in Deletions \cup ({u} \cap Runs) : closing[e] = "stopping"
    <3>1. closing[c] = "stopping" BY <1>1, <2>0, <2>2, CloserEffect DEF CloserMoves
    <3>2. c \in Runs => c = u BY <1>1, <2>0, <3>1 DEF Turns
    <3> QED BY <3>1, <3>2, Names
  <2>3. ASSUME NEW r \in Runs, Cancel(r) PROVE pc[u] \in {"stopping", "discarding"}
    <3>1. r = u BY <1>1, <2>0, <2>3, CancelMoves
    <3> QED BY <1>1, <2>0, <2>3, <3>1, CancelTouches
  <2>4. ASSUME NEW r \in Runs, BeginRun(r) \/ EndRun(r) PROVE up' = up
    BY <2>4, Given, Names DEF BeginRun, EndRun
  <2>5. ASSUME NEW f \in Refreshes, BeginRefresh(f) \/ RefreshAcquires(f) \/ EndRefresh(f)
        PROVE  up' = up
    BY <2>5, Given, Names DEF BeginRefresh, RefreshAcquires, EndRefresh, clientVars
  <2>6. ASSUME NEW c \in Clients, ConnectEnds(c) PROVE up \subseteq up'
    BY <2>6 DEF ConnectEnds
  <2> QED BY <1>1, <2>1, <2>2, <2>3, <2>4, <2>5, <2>6, Steps
<1>2. Inv /\ [Next]_vars =>
        [\A u \in Users :
           account = u /\ depth[u] > 0 /\ my[u] \in up \ up' /\ ~Shared(u) =>
             \/ pc[u] \in {"stopping", "discarding"}
             \/ \E c \in Deletions \cup ({u} \cap Runs) : closing[c] = "stopping"]_vars
  BY <1>1
<1> QED BY <1>2, InvHolds, PTL DEF Spec, StoppedByItsOwn

\* When everybody is gone a connected client is one whose connecting outlived
\* its signer, one that the key had forgotten while it was in use, or, after a
\* late signer or a deletion, the registered one.
THEOREM NoClientIsLost == Spec => []NoneLost
<1>1. Inv => NoneLost
  <2>1. ASSUME Inv, AllGone, NEW c \in up \ (orphans \cup strays)
        PROVE  ~Undisturbed /\ c = registered
    <3>1. ~Undisturbed BY <2>1, Names DEF Inv, Quiet, AllGone
    <3>2. ~Stopping(c) BY <2>1 DEF AllGone, Stopping
    <3> QED BY <2>1, <3>1, <3>2 DEF Inv, Known
  <2>2. CASE Undisturbed BY <2>1, <2>2 DEF NoneLost
  <2>3. CASE ~Undisturbed BY <2>1, <2>3 DEF NoneLost
  <2> QED BY <2>2, <2>3
<1> QED BY <1>1, InvHolds, PTL
=============================================================================
